------------------------------ MODULE ElectLeader ------------------------------
(***************************************************************************)
(* partition_attack_elect_new_leader.go: Start looks at a partition, makes *)
(* the leader the last of its replicas and asks for an election of the     *)
(* preferred, that is the first replica.  The brokers may change the       *)
(* leader and the replicas in sync between these requests.                 *)
(***************************************************************************)
EXTENDS Integers, FiniteSets, Sequences, SequencesExt

CONSTANTS
  Replicas,      \* ids of the brokers that hold the partition
  StaleMetadata  \* TRUE: the brokers may answer as if it did not exist

ASSUME ReplicasAssumption ==
  Replicas # {} /\ Replicas \subseteq Nat /\ IsFiniteSet(Replicas)
ASSUME StaleAssumption == StaleMetadata \in BOOLEAN

NoLeader == -1

VARIABLES
  replicas,    \* the replicas in the order of preference
  isr,         \* the replicas in sync
  leader,      \* the leader, or NoLeader
  election,    \* how far the attack has come
  seenLeader,  \* partition.Leader, as read by ListTopics
  assignment,  \* the order to assign
  taken        \* history: the brokers have carried out the assignment

partition == <<replicas, isr, leader>>
electVars == <<partition, election, seenLeader, assignment, taken>>

ElectInit ==
  /\ replicas \in SetToSeqs(Replicas)
  /\ isr \in SUBSET Replicas \ {{}}
  /\ leader \in isr \cup {NoLeader}
  /\ election = "new"
  /\ seenLeader = NoLeader
  /\ assignment = <<>> /\ taken = FALSE

(* A loop over the replicas that appends the ones of S to a new slice.  It *)
(* is SelectSeq, as a function that can be reasoned about.                 *)
Among(order, S) ==
  LET brokers[n \in 0..Len(order)] ==
        IF n = 0 THEN <<>>
        ELSE IF order[n] \in S THEN Append(brokers[n - 1], order[n])
        ELSE brokers[n - 1]
  IN brokers[Len(order)]

(* Seeded faults: the leader goes to the wrong end, or the others keep     *)
(* their order.                                                            *)
relegateLeaderFirst(order, inSync, l) ==
  <<l>> \o Among(order, inSync \ {l}) \o Among(order, ToSet(order) \ (inSync \cup {l}))

relegateLeaderUnsorted(order, inSync, l) == Among(order, ToSet(order) \ {l}) \o <<l>>

(* First the other replicas in sync, then the ones not in sync, then the   *)
(* leader.                                                                 *)
relegateLeader(order, inSync, l) ==
  Among(order, inSync \ {l}) \o Among(order, ToSet(order) \ (inSync \cup {l})) \o <<l>>

(* ListTopics, or an error up to there.  A topic or partition that is      *)
(* missing from the answer is the zero value: leader 0 and no replicas.    *)
ElectLook ==
  /\ election = "new"
  /\ \/ /\ election' = "assigning"
        /\ seenLeader' = leader
        /\ assignment' = relegateLeader(replicas, isr, leader)
     \/ /\ StaleMetadata
        /\ election' = "assigning"
        /\ seenLeader' = 0
        /\ assignment' = relegateLeader(<<>>, {}, 0)
     \/ election' = "failed" /\ UNCHANGED <<seenLeader, assignment>>
  /\ UNCHANGED <<partition, taken>>

(* The brokers refuse an assignment that names a broker twice or one that  *)
(* does not exist.                                                         *)
Acceptable(order) == ToSet(order) \subseteq Replicas /\ IsInjective(order)

(* AlterPartitionAssignments.  The brokers may refuse an assignment for    *)
(* other reasons, too, a replica whose broker is down for instance.  The   *)
(* code does not look at the answer for the partition and goes on after a  *)
(* refusal.  If the request fails as a whole, the brokers may have done    *)
(* their part all the same.                                                *)
ElectAssign ==
  /\ election = "assigning"
  /\ \/ Acceptable(assignment) /\ replicas' = assignment /\ taken' = TRUE
     \/ UNCHANGED <<replicas, taken>>
  /\ election' \in {"electing", "failed"}
  /\ UNCHANGED <<isr, leader, seenLeader, assignment>>

(* ElectLeaders with ElectPreferredReplica: an error if the preferred      *)
(* replica leads already or is not in sync.                                *)
ElectPreferred ==
  /\ election = "electing"
  /\ \/ /\ Head(replicas) \in isr \ {leader}
        /\ leader' = Head(replicas)
        /\ election' \in {"elected", "failed"}
     \/ UNCHANGED leader /\ election' = "failed"
  /\ UNCHANGED <<replicas, isr, seenLeader, assignment, taken>>

(* Replicas fall out of sync and come back, leaders fail. *)
PartitionChanges ==
  /\ isr' \in SUBSET ToSet(replicas) \ {{}}
  /\ leader' \in isr' \cup {NoLeader}
  /\ <<isr', leader'>> # <<isr, leader>>
  /\ UNCHANGED <<replicas, election, seenLeader, assignment, taken>>

(* The action is instantaneous: there is no Stop. *)
ElectEnded == election \in {"elected", "failed"} /\ UNCHANGED electVars

ElectNext == ElectLook \/ ElectAssign \/ ElectPreferred \/ PartitionChanges \/ ElectEnded

ElectTypeOK ==
  /\ ToSet(replicas) \subseteq Replicas /\ IsInjective(replicas)
  /\ isr \subseteq Replicas
  /\ leader \in isr \cup {NoLeader}
  /\ taken \in BOOLEAN
  /\ election \in {"new", "assigning", "electing", "elected", "failed"}
================================================================================
