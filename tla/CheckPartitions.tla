---------------------------- MODULE CheckPartitions ----------------------------
(***************************************************************************)
(* check_partitions.go: each poll compares four properties of every        *)
(* partition of the topic with the last ones seen.  Prepare asks nothing;  *)
(* the first poll that sees a partition only remembers it.                 *)
(***************************************************************************)
EXTENDS PolledCheck, FiniteSetsExt

CONSTANTS
  Partitions,      \* partitions the topic has now and then
  PartitionKinds,  \* kinds of change; the code treats the four alike
  Values           \* what a partition may show for each kind

VARIABLE
  previous         \* PreviousLeader, PreviousReplicas...: kind -> partition -> value

(* What ListTopics may answer: a topic that does not exist, or was deleted *)
(* during the check, has no partitions; partitions may be added.           *)
Topics == UNION {[ps -> [PartitionKinds -> Values]] : ps \in SUBSET Partitions}

PartitionsInit == previous = [k \in PartitionKinds |-> << >>]

PartitionsPrepare ==
  /\ CheckPrepare(PartitionKinds)
  /\ UNCHANGED <<observed, previous>>

PartitionChanges(topic) ==
  {k \in PartitionKinds : \E p \in DOMAIN topic \cap DOMAIN previous[k] :
                            topic[p][k] # previous[k][p]}

(* Unlike the check of brokers, this one has nothing to say about a poll   *)
(* without changes, nor when no change is expected.                        *)
PartitionDeviations(changes) ==
  IF expected # {} /\ mode = AllTheTime THEN {{c} : c \in changes \ expected} ELSE {}

(* Seeded fault: the maps hold the partitions of the last answer only. *)
RememberLastOnly(topic) ==
  previous' = [k \in PartitionKinds |-> [p \in DOMAIN topic |-> topic[p][k]]]

(* Partitions that are gone stay in the maps. *)
Remember(topic) ==
  previous' = [k \in PartitionKinds |->
                 [p \in DOMAIN topic \cup DOMAIN previous[k] |->
                    IF p \in DOMAIN topic THEN topic[p][k] ELSE previous[k][p]]]

TopicCheckStatus ==
  \E topic \in Topics :
    /\ Judge(topic, PartitionDeviations(PartitionChanges(topic)),
             PartitionChanges(topic) \cap expected # {})
    /\ Remember(topic)

PartitionsNext ==
  \/ PartitionsPrepare
  \/ TopicCheckStatus
  \/ PollOrClock /\ UNCHANGED previous

-------------------------------------------------------------------------------
(* The last poll up to i that saw the partition; 0: none did. *)
LastSeen(p, i) == Max({j \in 1..i : p \in DOMAIN observed[j]} \cup {0})

(* What changed at a poll, told from the whole history. *)
PartitionsChangedAt(i) ==
  {k \in PartitionKinds : \E p \in DOMAIN observed[i] :
     LET last == LastSeen(p, i - 1)
     IN last > 0 /\ observed[last][p][k] # observed[i][p][k]}

(* All the time: no poll may show a change that is not expected.  A poll   *)
(* that shows nothing is no deviation, although line 125 says that "every  *)
(* poll must detect the change".                                           *)
PartitionsDeviatedAt(i) ==
  mode = AllTheTime /\ ~(PartitionsChangedAt(i) \subseteq expected)

PartitionsFulfilled ==
  \/ mode = AllTheTime /\ \A i \in 1..Len(observed) : ~PartitionsDeviatedAt(i)
  \/ /\ mode = AtLeastOnce
     /\ \E i \in 1..Len(observed) : PartitionsChangedAt(i) \cap expected # {}

(* Without expected changes nothing is ever reported, although line 100    *)
(* says that then "any partition change triggers the check".               *)
PartitionsVerdict ==
  phase # "new" =>
    IF expected = {} THEN ~reported ELSE reported <=> Due /\ ~PartitionsFulfilled

PartitionsFirstKept ==
  expected # {} /\ ~failEarly =>
    /\ (\A i \in 1..Len(observed) : ~PartitionsDeviatedAt(i)) => title = NoTitle
    /\ \A i \in 1..Len(observed) : IsFirst(i, 1..Len(observed), PartitionsDeviatedAt) =>
         title # NoTitle /\ title \subseteq PartitionsChangedAt(i) \ expected
================================================================================
