----------------------------- MODULE Logger_proof -----------------------------
(***************************************************************************)
(* Proofs about module Logger, for any writers, limit and buffer: types,   *)
(* the inductive invariant, the size of a log file, and the refinement of  *)
(* AbstractLog, and that the archives hold all that was rotated.           *)
(***************************************************************************)
EXTENDS Logger, SequenceTheorems, TLAPS

(* The groups of variables, in every proof below. *)
USE DEF thread, file, history

(* Every step keeps the types. *)
LEMMA TypeNext == TypeOK /\ [Next]_vars => TypeOK'
<1> SUFFICES ASSUME TypeOK, [Next]_vars PROVE TypeOK'
  OBVIOUS
<1> USE LoggerAssumption DEF TypeOK, Goto, Die
<1>1. ASSUME NEW w \in Writer, log(w) PROVE TypeOK'
  BY <1>1 DEF log
<1>2. ASSUME NEW w \in Writer, write(w) PROVE TypeOK'
  <2>1. Append(m_MessageQueue, accepted + 1) \in Seq(Nat) /\ accepted + 1 \in Nat
    BY AppendProperties
  <2>2. writer' \in [Writer -> BOOLEAN]
    BY <1>2 DEF write
  <2>3. m_MessageQueue' \in Seq(Nat) /\ accepted' \in Nat
    BY <1>2, <2>1 DEF write
  <2> QED
    BY <1>2, <2>2, <2>3 DEF write, notify
<1>3. CASE waitForMessages
  BY <1>3 DEF waitForMessages
<1>4. CASE SpuriousWakeup
  BY <1>4 DEF SpuriousWakeup
<1>5. CASE popMessage
  <2>1. m_MessageQueue # <<>> =>
          Tail(m_MessageQueue) \in Seq(Nat) /\ <<Head(m_MessageQueue)>> \in Seq(Nat)
    BY HeadTailProperties
  <2> QED
    BY <1>5, <2>1 DEF popMessage
<1>6. CASE checkSize
  BY <1>6 DEF checkSize
<1>7. CASE rotate
  <2>1. \A name \in Names : Archive(name) \in [name : Names, entries : Seq(Nat)]
    BY DEF Archive
  <2>2. ASSUME NEW name \in Names, Rename(name) PROVE TypeOK'
    <3>1. archives' \in Seq([name : Names, entries : Seq(Nat)])
      BY <2>1, <2>2 DEF Rename
    <3> QED
      BY <1>7, <2>2, <3>1 DEF rotate, Rename
  <2>3. CASE KeepFile
    BY <1>7, <2>3 DEF rotate, KeepFile
  <2> QED
    BY <1>7, <2>2, <2>3 DEF rotate
<1>8. CASE append
  <2>1. buffer \o hand \in Seq(Nat) /\ disk \o buffer \o hand \in Seq(Nat)
    BY ConcatProperties
  <2>2. hand' = <<>>
    BY <1>8 DEF append
  <2>3. /\ buffer' \in {buffer, buffer \o hand, <<>>}
        /\ disk' \in {disk, disk \o buffer \o hand}
    BY <1>8 DEF append
  <2>4. buffer' \in Seq(Nat) /\ disk' \in Seq(Nat) /\ hand' \in Seq(Nat)
    <3>1. <<>> \in Seq(Nat)
      BY EmptySeq
    <3>2. buffer \in Seq(Nat) /\ disk \in Seq(Nat)
      OBVIOUS
    <3> HIDE DEF TypeOK
    <3> QED
      BY <2>1, <2>2, <2>3, <3>1, <3>2
  <2>5. /\ UNCHANGED <<m_running, m_MessageQueue, isOpen, exists, archives, failedRotations>>
        /\ UNCHANGED <<writer, dpc, failed, accepted, mark, rotated>> /\ pc' = "relock"
    BY <1>8 DEF append
  <2> QED
    BY <2>4, <2>5
<1>9. CASE flush
  BY <1>9 DEF flush
<1>10. CASE stop
  BY <1>10 DEF stop
<1>11. CASE destroyLogger
  <2>1. CASE stopNotify
    BY <2>1 DEF stopNotify, notify
  <2>2. CASE stopJoin
    BY <2>2 DEF stopJoin
  <2>3. CASE destroyed
    BY <2>3 DEF destroyed
  <2> QED
    BY <1>11, <2>1, <2>2, <2>3 DEF destroyLogger
<1>12. CASE UNCHANGED vars
  BY <1>12 DEF vars
<1> QED
  BY <1>1, <1>2, <1>3, <1>4, <1>5, <1>6, <1>7, <1>8, <1>9, <1>10, <1>11, <1>12
     DEF Next, logThread

(* The logger keeps its types, the number of every entry included. *)
THEOREM TypeCorrect == Spec => []TypeOK
<1>1. Init => TypeOK
  BY LoggerAssumption DEF Init, TypeOK
<1> QED
  BY <1>1, TypeNext, PTL DEF Spec

-----------------------------------------------------------------------------
(* The invariant.                                                          *)

(* The concatenation of two sequences of entries. *)
LEMMA Joined ==
  ASSUME NEW s \in Seq(Nat), NEW t \in Seq(Nat)
  PROVE  /\ s \o t \in Seq(Nat) /\ Len(s \o t) = Len(s) + Len(t)
         /\ Len(s) \in Nat /\ Len(t) \in Nat
BY ConcatProperties

(* Concatenation is associative. *)
LEMMA Associative ==
  ASSUME NEW s \in Seq(Nat), NEW t \in Seq(Nat), NEW u \in Seq(Nat)
  PROVE  (s \o t) \o u = s \o (t \o u)
BY ConcatAssociative

(* What a step that leaves the file alone keeps. *)
LEMMA FileKept ==
  ASSUME TypeOK, SizeBound, FileInv, UNCHANGED file,
         pc' \in {"rotate", "append"} => pc' = pc
  PROVE  SizeBound' /\ FileInv'
BY DEF SizeBound, FileInv

(* The checks before an entry is appended. *)
LEMMA SizeChecked ==
  ASSUME TypeOK, SizeBound, FileInv, checkSize
  PROVE  SizeBound' /\ FileInv'
<1> USE LoggerAssumption DEF TypeOK, checkSize, Goto, Die, TooLarge
<1>1. SizeBound'
  BY DEF SizeBound
<1>2. FileInv'
  BY DEF SizeBound, FileInv
<1> QED
  BY <1>1, <1>2

(* A rotation, which may fail to rename the file or to open it again. *)
LEMMA Rotated ==
  ASSUME TypeOK, SizeBound, FileInv, rotate
  PROVE  SizeBound' /\ FileInv'
<1> USE LoggerAssumption DEF TypeOK, Goto
<1>1. buffer' = <<>> /\ pc = "rotate" /\ pc' = "append" /\ isOpen' \in BOOLEAN
  BY DEF rotate
<1>2. ASSUME NEW name \in Names, Rename(name) PROVE SizeBound' /\ FileInv'
  <2> DEFINE a == Archive(name)
  <2>1. disk' = <<>> /\ failedRotations' = failedRotations /\ (isOpen' => exists')
    BY <1>2 DEF Rename
  <2>2. Len(a.entries) = Len(disk) + Len(buffer)
    <3>1. disk \in Seq(Nat) /\ buffer \in Seq(Nat) /\ a.entries = disk \o buffer
      BY DEF Archive
    <3> HIDE DEF TypeOK, a
    <3> QED
      BY <3>1, Joined
  <2>3. a \in [name : Names, entries : Seq(Nat)]
    BY DEF Archive
  <2>4. /\ Len(archives') = Len(archives) + 1
        /\ \A i \in 1..Len(archives') :
             archives'[i] = IF i <= Len(archives) THEN archives[i] ELSE a
    <3>1. archives' = Append(archives, a) /\ archives \in Seq([name : Names, entries : Seq(Nat)])
      BY <1>2 DEF Rename
    <3> HIDE DEF TypeOK, a
    <3> QED
      BY <2>3, <3>1, AppendProperties
  <2>5. SizeBound'
    <3>1. /\ Len(disk) \in Nat /\ Len(buffer) \in Nat /\ Len(archives) \in Nat
          /\ Len(disk') = 0 /\ Len(buffer') = 0
      BY <1>1, <2>1
    <3>2. \A i \in 1..Len(archives') : Len(archives'[i].entries) <=
            MaxLogSize + BufferSize + failedRotations
      <4>1. TAKE i \in 1..Len(archives')
      <4>2. CASE i <= Len(archives)
        <5>1. i \in 1..Len(archives) /\ archives'[i] = archives[i]
          BY <2>4, <3>1, <4>1, <4>2
        <5> QED
          BY <5>1 DEF SizeBound
      <4>3. CASE ~(i <= Len(archives))
        <5>1. archives'[i].entries = a.entries
          BY <2>4, <4>1, <4>3
        <5>2. Len(disk) + Len(buffer) <= MaxLogSize + BufferSize + failedRotations
          BY DEF SizeBound
        <5> QED
          BY <2>2, <5>1, <5>2
      <4> QED
        BY <4>2, <4>3
    <3> QED
      BY <2>1, <3>1, <3>2 DEF SizeBound
  <2>6. FileInv'
    BY <1>1, <2>1 DEF FileInv
  <2> QED
    BY <2>5, <2>6
<1>3. ASSUME KeepFile PROVE SizeBound' /\ FileInv'
  <2>1. Len(disk') = Len(disk) + Len(buffer) /\ failedRotations' = failedRotations + 1
    BY <1>3, Joined DEF KeepFile
  <2>2. SizeBound'
    BY <1>1, <1>3, <2>1 DEF KeepFile, SizeBound
  <2>3. FileInv'
    BY <1>1, <1>3, <2>1 DEF KeepFile, FileInv, SizeBound
  <2> QED
    BY <2>2, <2>3
<1> QED
  BY <1>2, <1>3 DEF rotate

(* An entry goes into the buffer, or to the disk with what was buffered. *)
LEMMA Appended ==
  ASSUME TypeOK, SizeBound, FileInv, HandInv, append
  PROVE  SizeBound' /\ FileInv'
<1> USE LoggerAssumption DEF TypeOK, Goto
<1>1. pc = "append" /\ pc' = "relock" /\ Len(hand) = 1 /\ isOpen' = isOpen /\ exists' = exists
  BY DEF append, HandInv
<1>2. failedRotations' = failedRotations /\ archives' = archives
  BY DEF append
<1>3. CASE isOpen /\ Len(buffer) < BufferSize /\ buffer' = buffer \o hand /\ UNCHANGED disk
  <2>1. Len(buffer') = Len(buffer) + 1
    <3>1. buffer \in Seq(Nat) /\ hand \in Seq(Nat)
      OBVIOUS
    <3> HIDE DEF TypeOK
    <3> QED
      BY <1>1, <1>3, <3>1, Joined
  <2> QED
    BY <1>1, <1>2, <1>3, <2>1 DEF SizeBound, FileInv
<1>4. CASE isOpen /\ disk' = disk \o buffer \o hand /\ buffer' = <<>>
  <2>1. disk \o buffer \in Seq(Nat) /\ Len(disk \o buffer) = Len(disk) + Len(buffer)
    BY Joined
  <2>2. Len(disk \o buffer \o hand) = Len(disk \o buffer) + Len(hand)
    BY <2>1, Joined
  <2>3. Len(disk') = Len(disk) + Len(buffer) + 1 /\ Len(buffer') = 0
    BY <1>1, <1>4, <2>1, <2>2
  <2> QED
    BY <1>1, <1>2, <1>4, <2>3 DEF SizeBound, FileInv
<1>5. CASE ~isOpen /\ UNCHANGED <<buffer, disk>>
  BY <1>1, <1>2, <1>5 DEF SizeBound, FileInv
<1> QED
  BY <1>3, <1>4, <1>5 DEF append

(* What is buffered goes to the disk when the thread ends, and when the    *)
(* file is closed.                                                         *)
LEMMA Flushed ==
  ASSUME TypeOK, SizeBound, FileInv, flush \/ destroyed
  PROVE  SizeBound' /\ FileInv'
<1> USE LoggerAssumption DEF TypeOK, Goto, flush, destroyed
<1>1. Len(disk') = Len(disk) + Len(buffer) /\ Len(buffer') = 0 /\ buffer' = <<>>
  BY Joined
<1>2. /\ pc' \notin {"append", "rotate"} \/ pc' = pc
      /\ UNCHANGED <<isOpen, exists, archives, failedRotations>>
  OBVIOUS
<1>3. SizeBound'
  BY <1>1, <1>2 DEF SizeBound
<1>4. FileInv'
  BY <1>1, <1>2 DEF FileInv
<1> QED
  BY <1>3, <1>4

(* The size of the file, and the state it is in, through every step. *)
LEMMA FileNext ==
  ASSUME TypeOK, LoggerInv, [Next]_vars
  PROVE  SizeBound' /\ FileInv'
<1> USE DEF LoggerInv, Goto, Die
<1>1. ASSUME NEW w \in Writer, log(w) \/ write(w) PROVE SizeBound' /\ FileInv'
  BY <1>1, FileKept DEF log, write, notify
<1>2. CASE waitForMessages \/ SpuriousWakeup \/ popMessage
  BY <1>2, FileKept DEF waitForMessages, SpuriousWakeup, popMessage
<1>3. CASE stop \/ stopNotify \/ stopJoin
  BY <1>3, FileKept DEF stop, stopNotify, stopJoin, notify
<1>4. CASE UNCHANGED vars
  BY <1>4, FileKept DEF vars
<1> QED
  BY <1>1, <1>2, <1>3, <1>4, SizeChecked, Rotated, Appended, Flushed
     DEF Next, logThread, destroyLogger

(* The entry in hand. *)
LEMMA HandNext ==
  ASSUME TypeOK, LoggerInv, [Next]_vars
  PROVE  HandInv'
<1> USE DEF TypeOK, LoggerInv, HandInv, Goto, Die
<1>1. ASSUME NEW w \in Writer, log(w) \/ write(w) PROVE HandInv'
  BY <1>1 DEF log, write, notify
<1>2. CASE waitForMessages \/ SpuriousWakeup
  BY <1>2 DEF waitForMessages, SpuriousWakeup
<1>3. CASE popMessage
  BY <1>3 DEF popMessage
<1>4. CASE checkSize
  BY <1>4 DEF checkSize
<1>5. CASE rotate \/ append \/ flush
  BY <1>5 DEF rotate, append, flush
<1>6. CASE stop \/ destroyLogger
  BY <1>6 DEF stop, destroyLogger, stopNotify, stopJoin, destroyed, notify
<1>7. CASE UNCHANGED vars
  BY <1>7 DEF vars
<1> QED
  BY <1>1, <1>2, <1>3, <1>4, <1>5, <1>6, <1>7 DEF Next, logThread

(* The queue holds the last entries accepted: it grows at its end, by the  *)
(* next entry, and shrinks at its front.                                   *)
LEMMA NumberedNext ==
  ASSUME TypeOK, LoggerInv, [Next]_vars
  PROVE  Numbered'
<1>1. m_MessageQueue \in Seq(Nat) /\ Len(m_MessageQueue) \in Nat /\ accepted \in Nat
  BY DEF TypeOK
<1>2. Numbered
  BY DEF LoggerInv
<1>3. ASSUME UNCHANGED <<m_MessageQueue, accepted>> PROVE Numbered'
  BY <1>2, <1>3 DEF Numbered
<1>4. ASSUME m_MessageQueue' = Append(m_MessageQueue, accepted + 1), accepted' = accepted + 1
      PROVE  Numbered'
  <2>1. /\ Len(m_MessageQueue') = Len(m_MessageQueue) + 1
        /\ \A i \in 1..Len(m_MessageQueue) : m_MessageQueue'[i] = m_MessageQueue[i]
        /\ m_MessageQueue'[Len(m_MessageQueue) + 1] = accepted + 1
    BY <1>1, <1>4, AppendProperties
  <2> QED
    BY <1>1, <1>2, <1>4, <2>1 DEF Numbered
<1>5. ASSUME m_MessageQueue # <<>>, m_MessageQueue' = Tail(m_MessageQueue), accepted' = accepted
      PROVE  Numbered'
  <2>1. /\ Len(m_MessageQueue') = Len(m_MessageQueue) - 1 /\ Len(m_MessageQueue) > 0
        /\ \A i \in 1..Len(m_MessageQueue') : m_MessageQueue'[i] = m_MessageQueue[i + 1]
    BY <1>1, <1>5, HeadTailProperties
  <2> QED
    BY <1>1, <1>2, <1>5, <2>1 DEF Numbered
<1>6. ASSUME NEW w \in Writer, log(w) \/ write(w) PROVE Numbered'
  BY <1>3, <1>4, <1>6 DEF log, write, Die
<1>7. CASE waitForMessages \/ SpuriousWakeup
  BY <1>3, <1>7 DEF waitForMessages, SpuriousWakeup
<1>8. CASE popMessage
  BY <1>3, <1>5, <1>8 DEF popMessage
<1>9. CASE checkSize
  BY <1>3, <1>9 DEF checkSize, Die
<1>10. CASE rotate \/ append \/ flush
  BY <1>3, <1>10 DEF rotate, append, flush
<1>11. CASE stop \/ destroyLogger
  BY <1>3, <1>11 DEF stop, destroyLogger, stopNotify, stopJoin, destroyed
<1>12. CASE UNCHANGED vars
  BY <1>3, <1>12 DEF vars
<1> QED
  BY <1>6, <1>7, <1>8, <1>9, <1>10, <1>11, <1>12 DEF Next, logThread

(* The log thread ends only when what was queued before stop was taken. *)
LEMMA DrainNext ==
  ASSUME TypeOK, LoggerInv, [Next]_vars
  PROVE  DrainInv'
<1> USE DEF TypeOK, LoggerInv, DrainInv, Goto, Die
<1>1. ASSUME UNCHANGED <<m_running, m_MessageQueue, dpc, accepted, mark, buffer>>,
             pc' \in {"flush", "done"} => pc' = pc, pc = "done" => pc' = "done"
      PROVE  DrainInv'
  BY <1>1
<1>2. ASSUME NEW w \in Writer, log(w) PROVE DrainInv'
  <2>1. UNCHANGED <<m_running, m_MessageQueue, dpc, accepted, mark, buffer, pc>>
    BY <1>2 DEF log
  <2> QED
    BY <1>1, <2>1
<1>3. ASSUME NEW w \in Writer, write(w) PROVE DrainInv'
  <2>1. CASE /\ m_MessageQueue' = Append(m_MessageQueue, accepted + 1)
             /\ accepted' = accepted + 1 /\ notify
    <3>1. Len(m_MessageQueue') = Len(m_MessageQueue) + 1 /\ Len(m_MessageQueue) \in Nat
      BY <2>1, AppendProperties
    <3>2. UNCHANGED m_running /\ UNCHANGED mark /\ UNCHANGED dpc /\ UNCHANGED buffer
      BY <1>3, <2>1 DEF write
    <3>3. (pc' \in {"flush", "done"} => pc' = pc) /\ (pc = "done" => pc' = "done")
      BY <2>1 DEF notify
    <3> QED
      BY <2>1, <3>1, <3>2, <3>3
  <2>2. CASE UNCHANGED <<m_running, m_MessageQueue, pc, buffer, dpc, accepted, mark>>
    BY <1>1, <2>2
  <2> QED
    BY <1>3, <2>1, <2>2 DEF write
<1>4. CASE SpuriousWakeup
  BY <1>1, <1>4 DEF SpuriousWakeup
<1>5. CASE waitForMessages
  <2>1. UNCHANGED <<m_running, m_MessageQueue, dpc, accepted, mark, buffer>>
    BY <1>5 DEF waitForMessages
  <2>2. CASE pc = "test" /\ pc' = "flush" /\ ~More
    <3>1. ~m_running /\ m_MessageQueue = <<>>
      BY <2>2 DEF More
    <3> QED
      BY <2>1, <2>2, <3>1
  <2>3. CASE pc \notin {"flush", "done"} /\ pc' \notin {"flush", "done"}
    BY <1>1, <2>1, <2>3
  <2> QED
    BY <1>5, <2>2, <2>3 DEF waitForMessages
<1>6. CASE popMessage
  <2>1. CASE pc = "pop" /\ pc' = "file" /\ m_MessageQueue # <<>> /\ m_MessageQueue' = Tail(m_MessageQueue)
    <3>1. Len(m_MessageQueue') = Len(m_MessageQueue) - 1 /\ Len(m_MessageQueue) \in Nat
      BY <2>1, HeadTailProperties
    <3>2. UNCHANGED <<m_running, dpc, accepted, mark, buffer>>
      BY <1>6 DEF popMessage
    <3> QED
      BY <2>1, <3>1, <3>2
  <2> QED
    BY <1>1, <1>6, <2>1 DEF popMessage
<1>7. CASE checkSize
  BY <1>1, <1>7 DEF checkSize
<1>8. CASE rotate \/ append
  <2>1. UNCHANGED <<m_running, m_MessageQueue, dpc, accepted, mark>>
    BY <1>8 DEF rotate, append
  <2>2. pc \in {"rotate", "append"} /\ pc' \in {"append", "relock"}
    BY <1>8 DEF rotate, append
  <2> QED
    BY <2>1, <2>2
<1>9. CASE flush
  BY <1>9 DEF flush
<1>10. CASE stop
  BY <1>10 DEF stop
<1>11. CASE destroyLogger
  <2>1. CASE stopNotify
    BY <2>1 DEF stopNotify, notify
  <2>2. CASE stopJoin
    BY <2>2 DEF stopJoin
  <2>3. CASE destroyed
    BY <2>3 DEF destroyed
  <2> QED
    BY <1>11, <2>1, <2>2, <2>3 DEF destroyLogger
<1>12. CASE UNCHANGED vars
  BY <1>1, <1>12 DEF vars
<1> QED
  BY <1>2, <1>3, <1>4, <1>5, <1>6, <1>7, <1>8, <1>9, <1>10, <1>11, <1>12 DEF Next, logThread

(* The log thread finds the queue empty from its test until it sleeps, and *)
(* is woken in the step that queues an entry.                              *)
LEMMA SleepNext ==
  ASSUME TypeOK, LoggerInv, [Next]_vars
  PROVE  SleepInv'
<1> USE DEF TypeOK, LoggerInv, SleepInv, Goto, Die
<1>1. ASSUME NEW w \in Writer, log(w) \/ write(w) PROVE SleepInv'
  BY <1>1 DEF log, write, notify, Locked
<1>2. CASE waitForMessages \/ SpuriousWakeup
  BY <1>2 DEF waitForMessages, SpuriousWakeup
<1>3. CASE popMessage \/ checkSize \/ rotate \/ append \/ flush
  BY <1>3 DEF popMessage, checkSize, rotate, append, flush
<1>4. CASE stop \/ destroyLogger
  BY <1>4 DEF stop, destroyLogger, stopNotify, stopJoin, destroyed, notify
<1>5. CASE UNCHANGED vars
  BY <1>5 DEF vars
<1> QED
  BY <1>1, <1>2, <1>3, <1>4, <1>5 DEF Next, logThread

(* No file outgrows the limit by more than the buffer, and one entry for   *)
(* every rotation that failed, whatever limit, buffer and writers.         *)
THEOREM LoggerCorrect == Spec => [](TypeOK /\ LoggerInv)
<1>1. Init => LoggerInv
  BY LoggerAssumption DEF Init, LoggerInv, SizeBound, FileInv, HandInv, Numbered, DrainInv, SleepInv
<1>2. TypeOK /\ LoggerInv /\ [Next]_vars => LoggerInv'
  BY FileNext, HandNext, NumberedNext, DrainNext, SleepNext DEF LoggerInv
<1> QED
  BY <1>1, <1>2, TypeCorrect, PTL DEF Spec

-----------------------------------------------------------------------------
(* What was rotated, and the archives that hold it.                        *)

(* f is the recursive function of Archived, over the archives s; r is what *)
(* every such function makes of s.  Both without induction over s: that    *)
(* they hold of the archives there are is an invariant.                    *)
IsFlat(f, s) == f = [k \in 0..Len(s) |-> IF k = 0 THEN <<>> ELSE f[k - 1] \o s[k].entries]
FlattensTo(s, r) ==
  /\ \E f : IsFlat(f, s)
  /\ \A f : IsFlat(f, s) => f[Len(s)] = r

(* Nothing is archived at the start. *)
LEMMA FlatEmpty == FlattensTo(<<>>, <<>>)
<1> DEFINE e == [k \in 0..0 |-> <<>>]
<1>1. Len(<<>>) = 0
  OBVIOUS
<1>2. e = [k \in 0..0 |-> IF k = 0 THEN <<>> ELSE e[k - 1] \o <<>>[k].entries]
  OBVIOUS
<1>3. IsFlat(e, <<>>)
  BY <1>1, <1>2 DEF IsFlat
<1>4. ASSUME NEW f, IsFlat(f, <<>>) PROVE f[0] = <<>>
  BY <1>1, <1>4 DEF IsFlat
<1> QED
  BY <1>1, <1>3, <1>4 DEF FlattensTo

(* One more archive: the function over the longer sequence is the one over *)
(* the shorter, and one value more.                                        *)
LEMMA FlatAppend ==
  ASSUME NEW S, NEW s \in Seq(S), NEW a \in S, NEW r, FlattensTo(s, r)
  PROVE  FlattensTo(Append(s, a), r \o a.entries)
<1> DEFINE t == Append(s, a)
           n == Len(s)
<1>1. /\ n \in Nat /\ Len(t) = n + 1 /\ t[n + 1] = a
      /\ \A k \in 1..n : t[k] = s[k]
  BY AppendProperties
<1> HIDE DEF t
<1>2. \E g : IsFlat(g, t)
  <2>1. PICK f : IsFlat(f, s)
    BY DEF FlattensTo
  <2> DEFINE g == [k \in 0..(n + 1) |-> IF k = n + 1 THEN f[n] \o a.entries ELSE f[k]]
  <2>2. ASSUME NEW k \in 0..(n + 1)
        PROVE  g[k] = IF k = 0 THEN <<>> ELSE g[k - 1] \o t[k].entries
    <3>1. CASE k = n + 1
      BY <1>1, <3>1
    <3>2. CASE k = 0
      BY <1>1, <2>1, <3>2 DEF IsFlat
    <3>3. CASE k \in 1..n
      <4>1. k - 1 \in 0..n /\ k # n + 1 /\ k - 1 # n + 1 /\ k # 0 /\ k \in 0..n
        BY <1>1, <3>3
      <4>2. f[k] = f[k - 1] \o s[k].entries
        BY <2>1, <4>1 DEF IsFlat
      <4>3. g[k] = f[k] /\ g[k - 1] = f[k - 1] /\ t[k] = s[k]
        <5>1. k \in 0..(n + 1) /\ k - 1 \in 0..(n + 1)
          BY <1>1, <4>1
        <5> QED
          BY <1>1, <3>3, <4>1, <5>1
      <4> HIDE DEF g
      <4> QED
        BY <4>1, <4>2, <4>3
    <3> QED
      BY <1>1, <3>1, <3>2, <3>3
  <2>3. g = [k \in 0..(n + 1) |-> IF k = 0 THEN <<>> ELSE g[k - 1] \o t[k].entries]
    BY <2>2
  <2> QED
    BY <1>1, <2>3 DEF IsFlat
<1>3. ASSUME NEW g, IsFlat(g, t) PROVE g[Len(t)] = r \o a.entries
  <2> DEFINE f == [k \in 0..n |-> g[k]]
  <2>1. g = [k \in 0..(n + 1) |-> IF k = 0 THEN <<>> ELSE g[k - 1] \o t[k].entries]
    BY <1>1, <1>3 DEF IsFlat
  <2>2. ASSUME NEW k \in 0..n PROVE f[k] = IF k = 0 THEN <<>> ELSE f[k - 1] \o s[k].entries
    <3>1. CASE k = 0
      BY <1>1, <2>1, <3>1
    <3>2. CASE k # 0
      <4>1. k \in 1..n /\ k - 1 \in 0..n /\ k \in 0..(n + 1)
        BY <1>1, <3>2
      <4>2. g[k] = g[k - 1] \o t[k].entries
        BY <2>1, <3>2, <4>1
      <4> QED
        BY <1>1, <3>2, <4>1, <4>2
    <3> QED
      BY <3>1, <3>2
  <2>3. IsFlat(f, s)
    BY <2>2 DEF IsFlat
  <2>4. f[n] = r
    BY <2>3 DEF FlattensTo
  <2>5. g[n] = r /\ n + 1 # 0 /\ n + 1 \in 0..(n + 1) /\ (n + 1) - 1 = n
    BY <1>1, <2>4
  <2>6. g[n + 1] = g[n] \o t[n + 1].entries
    BY <2>1, <2>5
  <2> QED
    BY <1>1, <2>5, <2>6
<1> QED
  BY <1>2, <1>3 DEF FlattensTo, t

(* Only a rotation archives anything, and it archives the whole file. *)
LEMMA ArchivesNext ==
  ASSUME TypeOK, FlattensTo(archives, rotated), [Next]_vars
  PROVE  FlattensTo(archives, rotated)'
<1> DEFINE S == [name : Names, entries : Seq(Nat)]
<1>1. ASSUME UNCHANGED <<archives, rotated>> PROVE FlattensTo(archives, rotated)'
  BY <1>1
<1>2. ASSUME NEW name \in Names, Rename(name) PROVE FlattensTo(archives, rotated)'
  <2>1. archives \in Seq(S) /\ Archive(name) \in S /\ Archive(name).entries = disk \o buffer
    BY ConcatProperties DEF TypeOK, Archive
  <2>2. archives' = Append(archives, Archive(name)) /\ rotated' = (rotated \o disk) \o buffer
    BY <1>2 DEF Rename
  <2>3. (rotated \o disk) \o buffer = rotated \o (disk \o buffer)
    BY Associative DEF TypeOK
  <2> QED
    BY <2>1, <2>2, <2>3, FlatAppend
<1>3. CASE rotate
  BY <1>1, <1>2, <1>3 DEF rotate, KeepFile
<1>4. rotate \/ UNCHANGED <<archives, rotated>>
  BY DEF Next, logThread, destroyLogger, log, write, waitForMessages, SpuriousWakeup, popMessage,
         checkSize, append, flush, stop, stopNotify, stopJoin, destroyed, Die, vars
<1> QED
  BY <1>1, <1>3, <1>4

(* However many rotations there are and whichever fail, the archives       *)
(* together hold all that was rotated away, in order.                      *)
THEOREM ArchivesCorrect == Spec => []ArchivesKept
<1>1. Init => FlattensTo(archives, rotated)
  BY FlatEmpty DEF Init
<1>2. FlattensTo(archives, rotated) => ArchivesKept
  <2> DEFINE f == CHOOSE g : IsFlat(g, archives)
  <2>1. Archived = f[Len(archives)]
    BY DEF Archived, IsFlat
  <2> HIDE DEF f
  <2>2. ASSUME FlattensTo(archives, rotated) PROVE IsFlat(f, archives)
    BY <2>2 DEF FlattensTo, f
  <2> QED
    BY <2>1, <2>2 DEF FlattensTo, ArchivesKept
<1> QED
  BY <1>1, <1>2, ArchivesNext, TypeCorrect, PTL DEF Spec

-----------------------------------------------------------------------------
(* The refinement of AbstractLog.                                          *)

(* The refinement mapping, by name. *)
Durable == rotated \o disk
Queued  == buffer \o hand \o m_MessageQueue
Pending == IF dpc = "dead" THEN <<>> ELSE Queued
Status  == IF dpc = "up" THEN "open" ELSE IF dpc = "dead" THEN "closed" ELSE "closing"

(* A concatenation, split where its parts meet. *)
LEMMA Split ==
  ASSUME NEW s \in Seq(Nat), NEW t \in Seq(Nat)
  PROVE  SubSeq(s \o t, 1, Len(s)) = s /\ SubSeq(s \o t, Len(s) + 1, Len(s \o t)) = t
<1> DEFINE c == s \o t
           l == SubSeq(c, 1, Len(s))
           r == SubSeq(c, Len(s) + 1, Len(c))
<1>1. /\ c \in Seq(Nat) /\ Len(c) = Len(s) + Len(t) /\ Len(s) \in Nat /\ Len(t) \in Nat
      /\ \A i \in 1..Len(s) : c[i] = s[i]
      /\ \A j \in 1..Len(t) : c[Len(s) + j] = t[j]
  BY ConcatProperties
<1>2. \A i \in 1..Len(c) : c[i] \in Nat
  BY <1>1, ElementOfSeq
<1> HIDE DEF c
<1>3. l \in Seq(Nat) /\ Len(l) = Len(s) /\ \A i \in 1..Len(s) : l[i] = c[i]
  BY <1>1, <1>2, SubSeqProperties
<1>4. r \in Seq(Nat) /\ Len(r) = Len(t) /\ \A i \in 1..Len(t) : r[i] = c[Len(s) + i]
  <2> DEFINE m == Len(s) + 1
             n == Len(c)
  <2>1. m \in Int /\ n \in Int /\ n - m + 1 = Len(t) /\ (m <= n \/ Len(t) = 0)
    BY <1>1
  <2>2. \A i \in m..n : c[i] \in Nat
    BY <1>1, <1>2
  <2>3. \A i \in 1..Len(t) : m + i - 1 = Len(s) + i
    BY <1>1
  <2>4. r = SubSeq(c, m, n)
    OBVIOUS
  <2> HIDE DEF m, n, r
  <2>5. /\ r \in Seq(Nat) /\ Len(r) = IF m <= n THEN n - m + 1 ELSE 0
        /\ \A i \in 1..(n - m + 1) : r[i] = c[m + i - 1]
    BY <2>1, <2>2, <2>4, SubSeqProperties
  <2> QED
    BY <2>1, <2>3, <2>5
<1> HIDE DEF l, r
<1>5. l = s
  BY <1>1, <1>3, SeqEqual
<1>6. r = t
  <2>1. \A i \in 1..Len(r) : r[i] = t[i]
    BY <1>1, <1>4
  <2> QED
    BY <1>4, <2>1, SeqEqual
<1> QED
  BY <1>5, <1>6 DEF c, l, r

(* A part of what is pending reaches the disk. *)
LEMMA Persisted ==
  ASSUME NEW s \in Seq(Nat), NEW t \in Seq(Nat), s # <<>>,
         Pending = s \o t, Durable' = Durable \o s, Pending' = t,
         (~isOpen)' \in BOOLEAN, UNCHANGED <<accepted, mark, Status>>
  PROVE  Abstract!Persist
<1>1. Len(s) \in 1..Len(s \o t)
  <2>1. Len(s) \in Nat \ {0} /\ Len(t) \in Nat /\ Len(s \o t) = Len(s) + Len(t)
    BY EmptySeq, ConcatProperties
  <2> QED
    BY <2>1
<1>2. /\ Durable' = Durable \o SubSeq(Pending, 1, Len(s))
      /\ Pending' = SubSeq(Pending, Len(s) + 1, Len(Pending))
  BY Split
<1> QED
  BY <1>1, <1>2 DEF Abstract!Persist, Durable, Pending, Queued, Status

(* Stutters, as far as the abstract log can see. *)
Seen == <<Durable, Pending, accepted, mark, Status, ~isOpen>>

LEMMA Unseen ==
  ASSUME UNCHANGED Seen
  PROVE  [Abstract!Next]_(Abstract!vars)
BY DEF Seen, Abstract!vars, Durable, Pending, Queued, Status

(* What is pending, taken apart in the two ways the proofs need. *)
LEMMA PendingParts ==
  ASSUME TypeOK
  PROVE  /\ Queued = buffer \o (hand \o m_MessageQueue)
         /\ buffer \o hand \in Seq(Nat) /\ hand \o m_MessageQueue \in Seq(Nat)
         /\ Queued \in Seq(Nat)
<1>1. buffer \in Seq(Nat) /\ hand \in Seq(Nat) /\ m_MessageQueue \in Seq(Nat)
  BY DEF TypeOK
<1>2. buffer \o hand \in Seq(Nat) /\ hand \o m_MessageQueue \in Seq(Nat)
  BY <1>1, Joined
<1>3. (buffer \o hand) \o m_MessageQueue = buffer \o (hand \o m_MessageQueue)
  BY <1>1, Associative
<1>4. (buffer \o hand) \o m_MessageQueue \in Seq(Nat)
  BY <1>1, <1>2, Joined
<1> QED
  BY <1>2, <1>3, <1>4 DEF Queued

(* A writer queues an entry. *)
LEMMA WriteRefines ==
  ASSUME TypeOK, LoggerInv, NEW w \in Writer, write(w)
  PROVE  [Abstract!Next]_(Abstract!vars)
<1>1. CASE UNCHANGED <<m_MessageQueue, hand, file, dpc, accepted, mark, rotated>>
  BY <1>1, Unseen DEF Seen, Durable, Pending, Queued, Status, file
<1>2. CASE /\ dpc # "dead" /\ accepted' = accepted + 1
           /\ m_MessageQueue' = Append(m_MessageQueue, accepted + 1)
           /\ UNCHANGED <<hand, file, dpc, mark, rotated>>
  <2> DEFINE e == <<accepted + 1>>
  <2>1. m_MessageQueue \in Seq(Nat) /\ accepted + 1 \in Nat /\ e \in Seq(Nat)
        /\ buffer \o hand \in Seq(Nat) /\ Queued \in Seq(Nat)
    BY PendingParts DEF TypeOK
  <2>2. m_MessageQueue' = m_MessageQueue \o e
    BY <1>2, <2>1, AppendIsConcat
  <2>3. Queued' = (buffer \o hand) \o (m_MessageQueue \o e)
    BY <1>2, <2>2 DEF Queued, file
  <2>4. Queued' = Queued \o e
    <3>1. ((buffer \o hand) \o m_MessageQueue) \o e = (buffer \o hand) \o (m_MessageQueue \o e)
      BY <2>1, Associative
    <3> QED
      BY <2>3, <3>1 DEF Queued
  <2>5. Pending' = Append(Pending, accepted + 1)
    BY <1>2, <2>1, <2>4, AppendIsConcat DEF Pending
  <2>6. UNCHANGED <<Durable, mark, Status, ~isOpen>> /\ Status # "closed"
    BY <1>2 DEF Durable, Status, file
  <2> QED
    BY <1>2, <2>5, <2>6 DEF Abstract!Next, Abstract!Accept, Durable, Pending, Queued, Status
<1> QED
  BY <1>1, <1>2 DEF write, Die, file, thread, history

(* The log thread takes an entry in hand. *)
LEMMA PopRefines ==
  ASSUME TypeOK, LoggerInv, popMessage
  PROVE  [Abstract!Next]_(Abstract!vars)
<1>1. CASE m_MessageQueue # <<>> /\ pc = "pop" /\ hand' = <<Head(m_MessageQueue)>>
           /\ m_MessageQueue' = Tail(m_MessageQueue)
  <2>1. hand = <<>>
    BY <1>1, EmptySeq DEF TypeOK, LoggerInv, HandInv
  <2>2. <<Head(m_MessageQueue)>> \o Tail(m_MessageQueue) = m_MessageQueue
    <3> DEFINE q == m_MessageQueue
               h == <<Head(q)>>
    <3>1. q \in Seq(Nat) /\ Head(q) = q[1] /\ Len(q) \in Nat \ {0}
      BY <1>1, EmptySeq DEF TypeOK
    <3>2. /\ Head(q) \in Nat /\ Tail(q) \in Seq(Nat) /\ Len(Tail(q)) = Len(q) - 1
          /\ \A i \in 1..Len(Tail(q)) : Tail(q)[i] = q[i + 1]
      BY <1>1, <3>1, HeadTailProperties
    <3>3. h \in Seq(Nat) /\ Len(h) = 1 /\ h[1] = q[1]
      BY <3>1, <3>2
    <3>4. /\ h \o Tail(q) \in Seq(Nat) /\ Len(h \o Tail(q)) = Len(q)
          /\ \A i \in 1..Len(q) : (h \o Tail(q))[i] = IF i = 1 THEN h[1] ELSE Tail(q)[i - 1]
      BY <3>1, <3>2, <3>3, ConcatProperties
    <3> HIDE DEF q, h
    <3>5. \A i \in 1..Len(q) : (h \o Tail(q))[i] = q[i]
      BY <3>1, <3>2, <3>3, <3>4
    <3>6. h \o Tail(q) = q
      BY <3>1, <3>4, <3>5, SeqEqual
    <3> QED
      BY <3>6 DEF q, h
  <2>3. UNCHANGED <<buffer, isOpen, disk, dpc, accepted, mark, rotated>>
    BY DEF popMessage, file, history
  <2>4. Queued = buffer \o m_MessageQueue
    BY <2>1, ConcatEmptySeq DEF Queued, TypeOK
  <2>5. <<Head(m_MessageQueue)>> \in Seq(Nat) /\ Tail(m_MessageQueue) \in Seq(Nat) /\ buffer \in Seq(Nat)
    BY <1>1, HeadTailProperties DEF TypeOK
  <2>6. Queued' = buffer \o m_MessageQueue
    <3> DEFINE h == <<Head(m_MessageQueue)>>
               t == Tail(m_MessageQueue)
    <3>1. (buffer \o h) \o t = buffer \o (h \o t)
      BY <2>5, Associative
    <3> QED
      BY <1>1, <2>2, <2>3, <3>1 DEF Queued
  <2> QED
    BY <2>3, <2>4, <2>6, Unseen DEF Seen, Durable, Pending, Status
<1>2. CASE UNCHANGED <<hand, m_MessageQueue>>
  BY <1>2, Unseen DEF popMessage, Seen, Durable, Pending, Queued, Status, file, history
<1> QED
  BY <1>1, <1>2 DEF popMessage, Goto

(* A rotation settles what was buffered, and reopens the file. *)
LEMMA RotateRefines ==
  ASSUME TypeOK, LoggerInv, rotate
  PROVE  [Abstract!Next]_(Abstract!vars)
<1> DEFINE rest == hand \o m_MessageQueue
<1>1. /\ pc = "rotate" /\ buffer' = <<>> /\ isOpen' \in BOOLEAN
      /\ UNCHANGED <<hand, m_MessageQueue, dpc, accepted, mark>>
  BY DEF rotate, Goto
<1>2. dpc # "dead" /\ dpc' # "dead"
  BY <1>1 DEF LoggerInv, DrainInv
<1>3. buffer \in Seq(Nat) /\ rotated \in Seq(Nat) /\ disk \in Seq(Nat) /\ rest \in Seq(Nat)
  BY PendingParts DEF TypeOK
<1>4. Pending = buffer \o rest
  BY <1>2, PendingParts DEF Pending
<1>5. Pending' = rest
  <2>1. Queued' = (<<>> \o hand) \o m_MessageQueue
    BY <1>1 DEF Queued
  <2>2. <<>> \o hand = hand
    BY ConcatEmptySeq DEF TypeOK
  <2> QED
    BY <1>2, <2>1, <2>2 DEF Pending
<1>6. Durable' = Durable \o buffer
  <2>1. CASE rotated' = rotated \o disk \o buffer /\ disk' = <<>>
    <3>1. rotated \o disk \in Seq(Nat) /\ rotated \o disk \o buffer \in Seq(Nat)
      BY <1>3, ConcatProperties
    <3> QED
      BY <2>1, <3>1, ConcatEmptySeq DEF Durable
  <2>2. CASE rotated' = rotated /\ disk' = disk \o buffer
    <3>1. (rotated \o disk) \o buffer = rotated \o (disk \o buffer)
      BY <1>3, Associative
    <3> QED
      BY <2>2, <3>1 DEF Durable
  <2> QED
    BY <2>1, <2>2 DEF rotate, Rename, KeepFile
<1>7. UNCHANGED <<accepted, mark, Status>> /\ (~isOpen)' \in BOOLEAN
  BY <1>1 DEF Status
<1>8. CASE buffer = <<>>
  <2>1. Pending' = Pending /\ Durable' = Durable
    <3>1. Durable \in Seq(Nat)
      BY <1>3, ConcatProperties DEF Durable
    <3>2. <<>> \o rest = rest /\ Durable \o <<>> = Durable
      BY <1>3, <3>1, ConcatEmptySeq
    <3> QED
      BY <1>4, <1>5, <1>6, <1>8, <3>2
  <2>2. Abstract!Reopen
    BY <1>7, <2>1 DEF Abstract!Reopen, Durable, Pending, Queued, Status
  <2> QED
    BY <2>2 DEF Abstract!Next
<1>9. CASE buffer # <<>>
  <2>1. Abstract!Persist
    BY <1>3, <1>4, <1>5, <1>6, <1>7, <1>9, Persisted
  <2> QED
    BY <2>1 DEF Abstract!Next
<1> QED
  BY <1>8, <1>9

(* An entry in hand is buffered, written, or lost with the file not open. *)
LEMMA AppendRefines ==
  ASSUME TypeOK, LoggerInv, append
  PROVE  [Abstract!Next]_(Abstract!vars)
<1>1. /\ pc = "append" /\ hand' = <<>>
      /\ UNCHANGED <<m_MessageQueue, isOpen, dpc, accepted, mark, rotated>>
  BY DEF append, Goto, history
<1>2. dpc # "dead" /\ dpc' # "dead" /\ Len(hand) = 1
  BY <1>1 DEF LoggerInv, DrainInv, HandInv
<1>3. /\ buffer \in Seq(Nat) /\ hand \in Seq(Nat) /\ disk \in Seq(Nat) /\ rotated \in Seq(Nat)
      /\ buffer \o hand \in Seq(Nat) /\ m_MessageQueue \in Seq(Nat)
  BY PendingParts DEF TypeOK
<1>4. Pending = buffer \o hand \o m_MessageQueue
  BY <1>2 DEF Pending, Queued
<1>5. Pending' = buffer' \o <<>> \o m_MessageQueue
  BY <1>1, <1>2 DEF Pending, Queued
<1>6. UNCHANGED <<accepted, mark, Status, ~isOpen>>
  BY <1>1 DEF Status
<1>7. CASE buffer' = buffer \o hand /\ disk' = disk
  <2>1. Pending' = Pending
    BY <1>3, <1>4, <1>5, <1>7, ConcatEmptySeq
  <2>2. Durable' = Durable
    BY <1>1, <1>7 DEF Durable
  <2> QED
    BY <1>6, <2>1, <2>2, Unseen DEF Seen
<1>8. CASE disk' = disk \o buffer \o hand /\ buffer' = <<>>
  <2>1. Pending' = m_MessageQueue
    BY <1>3, <1>5, <1>8, ConcatEmptySeq, EmptySeq
  <2>2. disk' = disk \o (buffer \o hand)
    <3>1. (disk \o buffer) \o hand = disk \o (buffer \o hand)
      BY <1>3, Associative
    <3> QED
      BY <1>8, <3>1
  <2>3. Durable' = Durable \o (buffer \o hand)
    <3>1. (rotated \o disk) \o (buffer \o hand) = rotated \o (disk \o (buffer \o hand))
      BY <1>3, Associative
    <3> QED
      BY <1>1, <2>2, <3>1 DEF Durable
  <2>4. buffer \o hand # <<>>
    <3>1. Len(buffer \o hand) = Len(buffer) + 1 /\ Len(buffer) \in Nat
      <4>1. Len(buffer \o hand) = Len(buffer) + Len(hand) /\ Len(buffer) \in Nat
        BY <1>3, Joined
      <4> QED
        BY <1>2, <4>1
    <3> QED
      BY <3>1, EmptySeq
  <2>5. Abstract!Persist
    BY <1>3, <1>4, <1>6, <2>1, <2>3, <2>4, Persisted
  <2> QED
    BY <2>5 DEF Abstract!Next
<1>9. CASE ~isOpen /\ buffer' = buffer /\ disk' = disk
  <2>1. buffer = <<>>
    BY <1>9 DEF LoggerInv, FileInv
  <2>2. Pending = hand \o m_MessageQueue /\ Pending' = m_MessageQueue
    BY <1>3, <1>4, <1>5, <1>9, <2>1, ConcatEmptySeq, EmptySeq
  <2>3. Pending \in Seq(Nat) /\ Len(Pending) = Len(m_MessageQueue) + 1 /\ Len(m_MessageQueue) \in Nat
    <3>1. /\ hand \o m_MessageQueue \in Seq(Nat) /\ Len(m_MessageQueue) \in Nat
          /\ Len(hand \o m_MessageQueue) = Len(hand) + Len(m_MessageQueue)
      BY <1>3, Joined
    <3> QED
      BY <1>2, <2>2, <3>1
  <2>4. Pending # <<>>
    BY <2>3, EmptySeq
  <2>5. Tail(Pending) = m_MessageQueue
    <3>1. Tail(Pending) = SubSeq(Pending, 2, Len(Pending))
      BY <2>3, <2>4, TailIsSubSeq
    <3>2. SubSeq(hand \o m_MessageQueue, Len(hand) + 1, Len(hand \o m_MessageQueue)) = m_MessageQueue
      BY <1>3, Split
    <3> QED
      BY <1>2, <2>2, <3>1, <3>2
  <2>6. Durable' = Durable
    BY <1>1, <1>9 DEF Durable
  <2>7. Abstract!Lose
    BY <1>6, <1>9, <2>2, <2>4, <2>5, <2>6 DEF Abstract!Lose, Durable, Pending, Queued, Status
  <2> QED
    BY <2>7 DEF Abstract!Next
<1> QED
  BY <1>7, <1>8, <1>9 DEF append

(* The last flush settles what is still buffered. *)
LEMMA FlushRefines ==
  ASSUME TypeOK, LoggerInv, flush
  PROVE  [Abstract!Next]_(Abstract!vars)
<1> DEFINE rest == hand \o m_MessageQueue
<1>1. /\ pc = "flush" /\ disk' = disk \o buffer /\ buffer' = <<>>
      /\ UNCHANGED <<hand, m_MessageQueue, isOpen, dpc, accepted, mark, rotated>>
  BY DEF flush, Goto, history
<1>2. dpc # "dead" /\ dpc' # "dead"
  BY <1>1 DEF LoggerInv, DrainInv
<1>3. buffer \in Seq(Nat) /\ rotated \in Seq(Nat) /\ disk \in Seq(Nat) /\ rest \in Seq(Nat)
      /\ hand \in Seq(Nat)
  BY PendingParts DEF TypeOK
<1>4. Pending = buffer \o rest
  BY <1>2, PendingParts DEF Pending
<1>5. Pending' = rest
  BY <1>1, <1>2, <1>3, ConcatEmptySeq DEF Pending, Queued
<1>6. Durable' = Durable \o buffer
  <2>1. (rotated \o disk) \o buffer = rotated \o (disk \o buffer)
    BY <1>3, Associative
  <2> QED
    BY <1>1, <2>1 DEF Durable
<1>7. UNCHANGED <<accepted, mark, Status, ~isOpen>> /\ (~isOpen)' \in BOOLEAN
  BY <1>1 DEF Status
<1>8. CASE buffer = <<>>
  <2>1. Durable \in Seq(Nat)
    BY <1>3, ConcatProperties DEF Durable
  <2>2. Pending' = Pending /\ Durable' = Durable
    BY <1>3, <1>4, <1>5, <1>6, <1>8, <2>1, ConcatEmptySeq
  <2> QED
    BY <1>7, <2>2, Unseen DEF Seen
<1>9. CASE buffer # <<>>
  <2>1. Abstract!Persist
    BY <1>3, <1>4, <1>5, <1>6, <1>7, <1>9, Persisted
  <2> QED
    BY <2>1 DEF Abstract!Next
<1> QED
  BY <1>8, <1>9

(* The file is closed with all that was logged before stop on disk. *)
LEMMA CloseRefines ==
  ASSUME TypeOK, LoggerInv, destroyed
  PROVE  [Abstract!Next]_(Abstract!vars)
<1>1. /\ dpc = "close" /\ dpc' = "dead" /\ disk' = disk \o buffer
      /\ UNCHANGED <<isOpen, accepted, mark, rotated>>
  BY DEF destroyed, history
<1>2. pc = "done" /\ buffer = <<>> /\ hand = <<>>
  BY <1>1, EmptySeq DEF LoggerInv, DrainInv, HandInv, TypeOK
<1>3. buffer \in Seq(Nat) /\ m_MessageQueue \in Seq(Nat) /\ disk \in Seq(Nat)
  BY DEF TypeOK
<1>4. disk' = disk
  BY <1>1, <1>2, <1>3, ConcatEmptySeq
<1>5. Pending = m_MessageQueue
  BY <1>1, <1>2, <1>3, ConcatEmptySeq, EmptySeq DEF Pending, Queued
<1>6. \A i \in 1..Len(Pending) : Pending[i] > mark
  <2>1. /\ mark <= accepted - Len(m_MessageQueue) /\ mark \in Nat /\ accepted \in Nat
        /\ \A i \in 1..Len(m_MessageQueue) : m_MessageQueue[i] = accepted - Len(m_MessageQueue) + i
    BY <1>2 DEF LoggerInv, DrainInv, Numbered, TypeOK
  <2> QED
    BY <1>3, <1>5, <2>1
<1>7. Durable' = Durable /\ Status = "closing" /\ Status' = "closed" /\ Pending' = <<>>
  BY <1>1, <1>4 DEF Durable, Status, Pending
<1>8. Abstract!Close
  BY <1>1, <1>6, <1>7 DEF Abstract!Close, Durable, Pending, Queued, Status
<1> QED
  BY <1>8 DEF Abstract!Next

(* Every step of the logger is a step of the abstract log, or unseen. *)
LEMMA StepRefines ==
  ASSUME TypeOK, LoggerInv, [Next]_vars
  PROVE  [Abstract!Next]_(Abstract!vars)
<1> USE DEF Seen, Durable, Pending, Queued, Status
<1>1. ASSUME NEW w \in Writer, log(w) PROVE [Abstract!Next]_(Abstract!vars)
  BY <1>1, Unseen DEF log, Die, thread, file, history
<1>2. CASE waitForMessages \/ SpuriousWakeup \/ checkSize
  BY <1>2, Unseen DEF waitForMessages, SpuriousWakeup, checkSize, Die, thread, file, history
<1>3. CASE stopNotify \/ stopJoin
  BY <1>3, Unseen DEF stopNotify, stopJoin, thread, file, history
<1>4. CASE stop
  <2>1. Abstract!BeginClose
    BY <1>4 DEF stop, Abstract!BeginClose, thread, file
  <2> QED
    BY <2>1 DEF Abstract!Next
<1>5. CASE UNCHANGED vars
  BY <1>5, Unseen DEF vars, thread, file, history
<1> QED
  BY <1>1, <1>2, <1>3, <1>4, <1>5, WriteRefines, PopRefines, RotateRefines, AppendRefines,
     FlushRefines, CloseRefines DEF Next, logThread, destroyLogger

(* The logger implements AbstractLog: entries reach the disk in order,     *)
(* each once, and destroyLogger returns only with what was logged before   *)
(* it on disk.                                                             *)
THEOREM LogImplemented == Spec => LogIsKept
<1>1. Init => Abstract!Init
  BY ConcatEmptySeq, EmptySeq DEF Init, Abstract!Init
<1>2. TypeOK /\ LoggerInv /\ [Next]_vars => [Abstract!Next]_(Abstract!vars)
  BY StepRefines
<1> QED
  BY <1>1, <1>2, LoggerCorrect, PTL DEF Spec, LogIsKept, Abstract!Spec
=============================================================================
