-------------------------------- MODULE Checks ---------------------------------
(***************************************************************************)
(* The four checks: an execution of any one of them, with any parameters,  *)
(* against a cluster that may change in any way between two polls.         *)
(***************************************************************************)
EXTENDS CheckBrokers, CheckPartitions, CheckConsumers

VARIABLE check  \* the action the agent has called

vars == <<check, checkVars, brokerVars, previous, acceptableLag>>

Init ==
  /\ check \in {"brokers", "partitions", "group", "lag"}
  /\ CheckInit
  /\ BrokersInit
  /\ PartitionsInit
  /\ LagInit

Next ==
  /\ UNCHANGED check
  /\ \/ check = "brokers" /\ BrokersNext /\ UNCHANGED <<previous, acceptableLag>>
     \/ check = "partitions" /\ PartitionsNext /\ UNCHANGED <<brokerVars, acceptableLag>>
     \/ check = "group" /\ GroupNext /\ UNCHANGED <<brokerVars, previous, acceptableLag>>
     \/ check = "lag" /\ LagNext /\ UNCHANGED <<brokerVars, previous>>

Spec == Init /\ [][Next]_vars

-------------------------------------------------------------------------------
(* Every variable has a value the program can give it; what a check        *)
(* remembers of the cluster is what it saw last.                           *)
TypeOK ==
  /\ CheckTypeOK(IF check = "brokers" THEN BrokerKinds
                 ELSE IF check = "partitions" THEN PartitionKinds ELSE States)
  /\ previousController \in Brokers \cup {NoController}
  /\ brokerNodes \subseteq Brokers
  /\ (check = "brokers" /\ observed # << >>) =>
       /\ previousController = observed[Len(observed)].controller
       /\ brokerNodes = observed[1].nodes
  /\ check = "partitions" =>
       \A k \in PartitionKinds :
         /\ DOMAIN previous[k] = {p \in Partitions : LastSeen(p, Len(observed)) > 0}
         /\ \A p \in DOMAIN previous[k] :
              previous[k][p] = observed[LastSeen(p, Len(observed))][p][k]
  /\ acceptableLag \in Lags

(* The agent is told of a failure exactly when the history of the cluster  *)
(* does not fulfil what the user expects and the failure is due: neither a *)
(* change that came and went nor polls that fail in between hide it, and   *)
(* failing early or at the end decides when, never whether.                *)
(* The brokers: every poll or one poll has to show an expected change.     *)
BrokersVerdictIsRight == check = "brokers" => BrokersVerdict

(* The partitions of a topic, however often the topic or some of them      *)
(* vanish and come back with other leaders: all the time means no change   *)
(* but the expected ones, at least once that one of them shows.  This is   *)
(* what check_partitions.go does, and not what its description of the      *)
(* parameters says: a poll without any change does not deviate (line 125:  *)
(* "every poll must detect the change"), and without expected changes no   *)
(* change is ever reported (line 100: "If left empty, any partition change *)
(* triggers the check").                                                   *)
PartitionsVerdictIsRight == check = "partitions" => PartitionsVerdict

(* A consumer group, which has to be in an expected state at every poll or *)
(* at one: a group that is missing from an answer deviates, and without    *)
(* expected states nothing is checked.                                     *)
GroupVerdictIsRight == check = "group" => GroupVerdict

(* The same for the lag: a lag at the threshold or above is reported, also *)
(* when it has recovered by the end; an answer without the topic is no     *)
(* breach, unless the threshold is 0.                                      *)
LagVerdictIsRight == check = "lag" => LagVerdict

(* "Keep the first-seen deviation rather than letting a later one          *)
(* overwrite it": what is reported at the end is what deviated first.      *)
FirstDeviationIsKept ==
  /\ check = "brokers" => BrokersFirstKept
  /\ check = "partitions" => PartitionsFirstKept
  /\ check = "group" => GroupFirstKept
================================================================================
