----------------------------- MODULE DeleteRecords -----------------------------
(***************************************************************************)
(* delete_last_records.go: Start reads the end offsets of a topic once and *)
(* then moves the start of one partition after the other, while producers  *)
(* go on.                                                                  *)
(***************************************************************************)
EXTENDS Integers, Sequences, SequencesExt

CONSTANTS
  Topic,       \* the partitions of the topic
  Asked,       \* numbers the user may enter for a partition
  NotANumber,  \* any other text, that of a number beyond 64 bits included
  Wrap,        \* 2^32; smaller for TLC, whose integers have 32 bits
  Keep,        \* values of the parameter "X from newest offset"
  MaxChosen,   \* bound on the partitions the user chooses (model only)
  MaxEnd       \* bound on the end offsets (model only)

ASSUME TopicAssumption ==
  /\ Wrap \in Nat \ {0}
  /\ Topic \subseteq 0..(Wrap \div 2) - 1
  /\ Asked \subseteq Int /\ NotANumber \notin Asked
ASSUME OffsetsAssumption == Keep \subseteq Int /\ MaxChosen \in Nat /\ MaxEnd \in Nat

VARIABLES
  logs,      \* partition -> [start, end], the offsets of its first and next record
  first,     \* the first offsets before the attack; they never change
  deletion,  \* how far the agent's calls have come
  offset,    \* state.Offset, the number of records to keep
  chosen,    \* state.Partitions, as the user has entered them
  at,        \* index of the partition the loop has come to
  ends       \* endOffsets, as read by ListEndOffsets

deleteVars == <<logs, first, deletion, offset, chosen, at, ends>>

DeleteInit ==
  /\ first \in [Topic -> 0..MaxEnd]
  /\ logs \in [Topic -> [start : 0..MaxEnd, end : 0..MaxEnd]]
  /\ \A p \in Topic : logs[p].start = first[p] /\ first[p] <= logs[p].end
  /\ deletion = "new"
  /\ offset = 0 /\ chosen = <<>> /\ at = 1
  /\ ends = [p \in Topic |-> 0]

(* int32(partitionInt): the number has been parsed with 64 bits. *)
Int32(n) == ((n + Wrap \div 2) % Wrap) - Wrap \div 2

Larger(a, b) == IF a >= b THEN a ELSE b

(* max(endOffset.Offset-state.Offset, 0), and without the lower bound as a *)
(* seeded fault                                                            *)
NewOffsetUnbounded(end) == end - offset
NewOffset(end) == Larger(end - offset, 0)

(* What the broker makes of a DeleteRecords request: -1 stands for the end *)
(* of the log, an offset outside of the log is refused.                    *)
Requested(log, o) == IF o = -1 THEN log.end ELSE o
Refused(log, o)   == Requested(log, o) \notin 0..log.end
Truncated(log, o) == [log EXCEPT !.start = Larger(@, Requested(log, o))]

DeletePrepare ==
  /\ deletion = "new"
  /\ deletion' = "prepared"
  /\ offset' \in Keep
  /\ chosen' \in SeqOf(Asked \cup {NotANumber}, MaxChosen)
  /\ UNCHANGED <<logs, first, at, ends>>

(* Seeded fault: the end offset is taken for the last record's. *)
DeleteStartPastEnd ==
  /\ deletion = "prepared"
  /\ deletion' = "deleting" /\ ends' = [p \in Topic |-> logs[p].end + 1]
  /\ UNCHANGED <<logs, first, offset, chosen, at>>

(* ListEndOffsets, or any of the errors up to there *)
DeleteStart ==
  /\ deletion = "prepared"
  /\ \/ deletion' = "deleting" /\ ends' = [p \in Topic |-> logs[p].end]
     \/ deletion' = "failed" /\ UNCHANGED ends
  /\ UNCHANGED <<logs, first, offset, chosen, at>>

(* One round of the loop: ParseInt, Lookup and the request.  The request   *)
(* may be lost, and so may its answer.                                     *)
DeletePartition ==
  /\ deletion = "deleting"
  /\ at <= Len(chosen)
  /\ LET p == Int32(chosen[at])
         accepted == /\ chosen[at] # NotANumber /\ p \in Topic
                     /\ ~Refused(logs[p], NewOffset(ends[p]))
         done == [logs EXCEPT ![p] = Truncated(@, NewOffset(ends[p]))]
     IN \/ /\ accepted
           /\ logs' = done
           /\ at' = at + 1
           /\ UNCHANGED deletion
        \/ /\ deletion' = "failed"
           /\ UNCHANGED logs \/ (accepted /\ logs' = done)
           /\ UNCHANGED at
  /\ UNCHANGED <<first, offset, chosen, ends>>

(* Seeded fault: the loop stops one partition short. *)
DeleteEndsEarly ==
  /\ deletion = "deleting"
  /\ at >= Len(chosen)
  /\ deletion' = "deleted"
  /\ UNCHANGED <<logs, first, offset, chosen, at, ends>>

DeleteEnds ==
  /\ deletion = "deleting"
  /\ at > Len(chosen)
  /\ deletion' = "deleted"
  /\ UNCHANGED <<logs, first, offset, chosen, at, ends>>

Produce ==
  /\ \E p \in Topic :
       /\ logs[p].end < MaxEnd
       /\ logs' = [logs EXCEPT ![p].end = @ + 1]
  /\ UNCHANGED <<first, deletion, offset, chosen, at, ends>>

(* The action is instantaneous: there is no Stop. *)
DeleteEnded == deletion \in {"deleted", "failed"} /\ UNCHANGED deleteVars

DeleteNext == DeletePrepare \/ DeleteStart \/ DeletePartition \/ DeleteEnds
                \/ Produce \/ DeleteEnded

DeleteTypeOK ==
  /\ \A p \in Topic : first[p] <= logs[p].start /\ logs[p].start <= logs[p].end
  /\ deletion \in {"new", "prepared", "deleting", "deleted", "failed"}
  /\ at \in 1..Len(chosen) + 1
  /\ \A p \in Topic : ends[p] <= logs[p].end
================================================================================
