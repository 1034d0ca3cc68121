------------------------------ MODULE AbstractLog ------------------------------
(***************************************************************************)
(* What the logger promises: the entries accepted reach the disk in the    *)
(* order they were accepted in, each once; while the log file cannot be    *)
(* opened an entry may be lost, in turn; and the logger is closed only     *)
(* when every entry accepted before it was told to close is settled.       *)
(* Entries are numbered as they are accepted.                              *)
(***************************************************************************)
EXTENDS Naturals, Sequences

VARIABLES
  durable,   \* the entries on disk, over all files
  pending,   \* the entries accepted and not settled
  accepted,  \* how many entries were accepted
  mark,      \* how many of them before closing began
  status,    \* "open", "closing" or "closed"
  broken     \* whether the log file is not open

vars == <<durable, pending, accepted, mark, status, broken>>

Init ==
  /\ durable = <<>> /\ pending = <<>> /\ accepted = 0 /\ mark = 0
  /\ status = "open" /\ broken \in BOOLEAN

Accept ==
  /\ status # "closed"
  /\ accepted' = accepted + 1 /\ pending' = Append(pending, accepted + 1)
  /\ UNCHANGED <<durable, mark, status, broken>>

Persist ==
  /\ \E k \in 1..Len(pending) :
       /\ durable' = durable \o SubSeq(pending, 1, k)
       /\ pending' = SubSeq(pending, k + 1, Len(pending))
  /\ broken' \in BOOLEAN
  /\ UNCHANGED <<accepted, mark, status>>

Lose ==
  /\ broken /\ pending # <<>> /\ pending' = Tail(pending)
  /\ UNCHANGED <<durable, accepted, mark, status, broken>>

Reopen ==
  /\ broken' \in BOOLEAN
  /\ UNCHANGED <<durable, pending, accepted, mark, status>>

BeginClose ==
  /\ status = "open" /\ status' = "closing" /\ mark' = accepted
  /\ UNCHANGED <<durable, pending, accepted, broken>>

Close ==
  /\ status = "closing" /\ status' = "closed"
  /\ \A i \in 1..Len(pending) : pending[i] > mark
  /\ pending' = <<>>
  /\ UNCHANGED <<durable, accepted, mark, broken>>

Next == Accept \/ Persist \/ Lose \/ Reopen \/ BeginClose \/ Close

Spec == Init /\ [][Next]_vars
=============================================================================
