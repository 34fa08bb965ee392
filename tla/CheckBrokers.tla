----------------------------- MODULE CheckBrokers ------------------------------
(***************************************************************************)
(* check_brokers.go: Prepare reads the controller and the set of brokers;  *)
(* each poll compares the controller with the one of the poll before and   *)
(* the brokers with those of Prepare.                                      *)
(***************************************************************************)
EXTENDS PolledCheck

CONSTANTS
  Brokers,      \* node ids
  NoController  \* the controller id of a cluster that is electing one

ASSUME BrokersAssumption == NoController \notin Brokers

VARIABLES
  previousController,  \* PreviousController
  brokerNodes          \* BrokerNodes

brokerVars == <<previousController, brokerNodes>>

ControllerChanged == "kafka controller changed"
Downtime          == "kafka broker with downtime"
NoChanges         == "No changes"
BrokerKinds == {ControllerChanged, Downtime}

(* What a broker may answer to a metadata request; it knows one broker. *)
Metadata == [controller : Brokers \cup {NoController}, nodes : SUBSET Brokers \ {{}}]

BrokersInit == previousController = NoController /\ brokerNodes = {}

BrokersPrepare ==
  /\ CheckPrepare(BrokerKinds)
  /\ \E answer \in Metadata :
       /\ previousController' = answer.controller
       /\ brokerNodes' = answer.nodes
       /\ observed' = <<answer>>

(* The changes this answer shows.  The node lists are compared as sets: a  *)
(* broker that joined makes a "downtime" too, with nothing missing.        *)
BrokerChanges(answer) ==
  {k \in BrokerKinds :
     \/ k = ControllerChanged /\ answer.controller # previousController
     \/ k = Downtime /\ answer.nodes # brokerNodes}

(* The titles given to recordDeviation: one for each change that is not    *)
(* expected, or one for all of them when nothing is.                       *)
BrokerDeviations(changes) ==
  IF expected = {}
  THEN {c \in {changes} : c # {}}
  ELSE IF mode = AllTheTime
  THEN {{c} : c \in changes \ expected} \cup (IF changes = {} THEN {{NoChanges}} ELSE {})
  ELSE {}

(* Seeded fault: the controller of this poll is not stored. *)
BrokerCheckStatusForgets ==
  \E answer \in Metadata :
    /\ Judge(answer, BrokerDeviations(BrokerChanges(answer)),
             BrokerChanges(answer) \cap expected # {})
    /\ UNCHANGED brokerVars

BrokerCheckStatus ==
  \E answer \in Metadata :
    /\ Judge(answer, BrokerDeviations(BrokerChanges(answer)),
             BrokerChanges(answer) \cap expected # {})
    /\ previousController' = answer.controller
    /\ UNCHANGED brokerNodes

BrokersNext ==
  \/ BrokersPrepare
  \/ BrokerCheckStatus
  \/ PollOrClock /\ UNCHANGED brokerVars

-------------------------------------------------------------------------------
(* What changed at a poll, told from the whole history: the controller     *)
(* since the poll before, the brokers since Prepare.                       *)
BrokersChangedAt(i) ==
  {k \in BrokerKinds :
     \/ k = ControllerChanged /\ observed[i].controller # observed[i - 1].controller
     \/ k = Downtime /\ observed[i].nodes # observed[1].nodes}

BrokersDeviatedAt(i) ==
  IF expected = {} THEN BrokersChangedAt(i) # {}
  ELSE /\ mode = AllTheTime
       /\ BrokersChangedAt(i) = {} \/ ~(BrokersChangedAt(i) \subseteq expected)

BrokerPolls == 2..Len(observed)

BrokersFulfilled ==
  IF MustMatchOnce
  THEN \E i \in BrokerPolls : BrokersChangedAt(i) \cap expected # {}
  ELSE \A i \in BrokerPolls : ~BrokersDeviatedAt(i)

BrokersVerdict == phase # "new" => (reported <=> Due /\ ~BrokersFulfilled)

BrokersFirstKept ==
  ~failEarly =>
    /\ (\A i \in BrokerPolls : ~BrokersDeviatedAt(i)) => title = NoTitle
    /\ \A i \in BrokerPolls : IsFirst(i, BrokerPolls, BrokersDeviatedAt) =>
         IF BrokersChangedAt(i) = {} THEN title = {NoChanges}
         ELSE title # NoTitle /\ title \subseteq BrokersChangedAt(i) \ expected
================================================================================
