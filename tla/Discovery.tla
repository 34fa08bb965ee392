------------------------------- MODULE Discovery -------------------------------
(***************************************************************************)
(* DiscoverTargets of the three discoveries in detail: getAllBrokersMulti- *)
(* Cluster, getAllTopicsMultiCluster and getAllConsumerGroupsMultiCluster. *)
(* ClusterRegistry has what goes before (the retry of pending clusters)    *)
(* and sees of a run only which clusters contributed to it; here is what   *)
(* the report says of them.                                                *)
(*                                                                         *)
(* A run copies the registered clusters, starts a goroutine for each,      *)
(* which asks its cluster once or twice and sends one result, collects as  *)
(* many results as the copy has clusters, and fails only if all of them    *)
(* are errors.  Meanwhile clusters are registered, and what a cluster has  *)
(* comes and goes.                                                         *)
(***************************************************************************)
EXTENDS Integers, FiniteSets

CONSTANTS
  Clusters,     \* clusters that are or will be registered
  Objects,      \* brokers, topics or consumer groups a cluster can have
  Internal,     \* the topics Kafka keeps for itself
  NoController, \* the metadata of a cluster without a controller
  MaxChanges    \* bound on what comes, goes or takes control during a run

ASSUME DiscoveryAssumption ==
  /\ IsFiniteSet(Clusters)
  /\ Internal \subseteq Objects
  /\ NoController \notin Objects
  /\ MaxChanges \in Nat

VARIABLES
  kind,        \* which of the three discoveries this is
  registered,  \* the clusters in Config.Clusters
  existing,    \* what each cluster has
  controller,  \* the controller of each cluster
  running,     \* DiscoverTargets is under way
  clusters,    \* its copy of the registered clusters
  goroutine,   \* what the goroutine of a cluster does next
  result,      \* clusterResult, as far as the goroutine has come with it
  resultChan,  \* clusters whose result is in the channel
  received,    \* clusters whose result has been received
  report,      \* what DiscoverTargets returned last
  seen,        \* history: what a cluster had at some time during the run
  lasting,     \* history: what it had all the time
  ruled,       \* history: its controllers during the run
  changes      \* number of changes during the run

world   == <<registered, existing, controller>>
run     == <<running, clusters, goroutine, result, resultChan, received, report>>
history == <<seen, lasting, ruled, changes>>
vars == <<kind, world, run, history>>

Kinds == {"brokers", "topics", "groups"}

NoResult == [err |-> FALSE, partial |-> FALSE, found |-> {}, controller |-> NoController]

Init ==
  /\ kind \in Kinds
  /\ registered \in SUBSET Clusters
  /\ existing \in [Clusters -> SUBSET Objects]
  /\ controller = [c \in Clusters |-> NoController]
  /\ running = FALSE
  /\ clusters = {}
  /\ goroutine = [c \in Clusters |-> "none"]
  /\ result = [c \in Clusters |-> NoResult]
  /\ resultChan = {}
  /\ received = {}
  /\ report = [failed |-> FALSE, targets |-> {}]
  /\ seen = existing
  /\ lasting = existing
  /\ ruled = [c \in Clusters |-> {NoController}]
  /\ changes = 0

-------------------------------------------------------------------------------
(* GetAllClusterConfigs, the channel and the goroutines *)
DiscoverTargets ==
  /\ ~running
  /\ running' = TRUE
  /\ clusters' = registered
  /\ goroutine' = [c \in Clusters |-> IF c \in registered THEN "list" ELSE "none"]
  /\ result' = [c \in Clusters |-> NoResult]
  /\ resultChan' = {}
  /\ received' = {}
  /\ seen' = existing
  /\ lasting' = existing
  /\ ruled' = [c \in Clusters |-> {controller[c]}]
  /\ changes' = 0
  /\ report' = [failed |-> FALSE, targets |-> {}]
  /\ UNCHANGED <<kind, world>>

Moves(c, from, to) ==
  /\ goroutine[c] = from
  /\ goroutine' = [goroutine EXCEPT ![c] = to]

(* ListBrokers, ListTopics: a second request has to follow. *)
List(c) ==
  /\ kind \in {"brokers", "topics"}
  /\ Moves(c, "list", "metadata")
  /\ result' = [result EXCEPT ![c].found = existing[c]]
  /\ UNCHANGED <<kind, world, running, clusters, resultChan, received, report, history>>

(* DescribeGroups: with ShardErrors some brokers have not answered for     *)
(* their groups, and the groups of the others are the result.              *)
DescribeGroups(c) ==
  /\ kind = "groups"
  /\ Moves(c, "list", "send")
  /\ \/ result' = [result EXCEPT ![c].found = existing[c]]
     \/ \E some \in SUBSET existing[c] :
          result' = [result EXCEPT ![c].found = some, ![c].partial = TRUE]
  /\ UNCHANGED <<kind, world, running, clusters, resultChan, received, report, history>>

(* BrokerMetadata, for the cluster's id and its controller *)
BrokerMetadata(c) ==
  /\ Moves(c, "metadata", "send")
  /\ result' = [result EXCEPT ![c].controller = controller[c]]
  /\ UNCHANGED <<kind, world, running, clusters, resultChan, received, report, history>>

(* No client, or a request that fails: what was listed before is dropped. *)
Fails(c) ==
  /\ goroutine[c] \in {"list", "metadata"}
  /\ goroutine' = [goroutine EXCEPT ![c] = "send"]
  /\ result' = [result EXCEPT ![c] = [NoResult EXCEPT !.err = TRUE]]
  /\ UNCHANGED <<kind, world, running, clusters, resultChan, received, report, history>>

(* Seeded faults. *)
SendAgain(c) ==
  /\ goroutine[c] = "send"
  /\ resultChan' = resultChan \cup {c}
  /\ UNCHANGED <<kind, world, running, clusters, goroutine, result, received, report, history>>

AllReceivedOfRegistry == Cardinality(received) = Cardinality(registered)

AllReceivedButOne == Cardinality(received) + 1 >= Cardinality(clusters)

(* resultChan <- clusterResult{...}: there is room for one of every cluster *)
Send(c) ==
  /\ Cardinality(resultChan) < Cardinality(clusters)
  /\ Moves(c, "send", "none")
  /\ resultChan' = resultChan \cup {c}
  /\ UNCHANGED <<kind, world, running, clusters, result, received, report, history>>

(* The goroutines send in any order; no order of results is observable. *)
Receive ==
  /\ running
  /\ \E c \in resultChan :
       /\ resultChan' = resultChan \ {c}
       /\ received' = received \cup {c}
  /\ UNCHANGED <<kind, world, running, clusters, goroutine, result, report, history>>

Errors == {c \in received : result[c].err}

(* toTopicTarget and toConsumerGroupTarget know no controller *)
toBrokerTarget(c, object) ==
  [cluster |-> c, object |-> object,
   isController |-> kind = "brokers" /\ object = result[c].controller]

(* Seeded fault. *)
TargetsWithInternal(c) == {toBrokerTarget(c, object) : object \in result[c].found}

Targets(c) ==
  {toBrokerTarget(c, object) :
     object \in IF kind = "topics" THEN result[c].found \ Internal ELSE result[c].found}

AllReceived == Cardinality(received) = Cardinality(clusters)

Report ==
  /\ running
  /\ AllReceived
  /\ running' = FALSE
  /\ report' = IF Errors = clusters /\ clusters # {}
               THEN [failed |-> TRUE, targets |-> {}]
               ELSE [failed |-> FALSE,
                     targets |-> UNION {Targets(c) : c \in received \ Errors}]
  /\ UNCHANGED <<kind, world, clusters, goroutine, result, resultChan, received, history>>

-------------------------------------------------------------------------------
(* The world goes on.  Between two runs nobody looks at it, and the next   *)
(* run begins as the first one does, so that changes during a run suffice. *)

(* RegisterCluster, by another discovery *)
RegisterCluster ==
  /\ running
  /\ \E c \in Clusters \ registered : registered' = registered \cup {c}
  /\ UNCHANGED <<kind, existing, controller, run, history>>

Changes ==
  /\ running
  /\ changes < MaxChanges
  /\ changes' = changes + 1

ObjectChanges ==
  /\ Changes
  /\ \E c \in clusters, object \in Objects :
       existing' = [existing EXCEPT ![c] =
                      IF object \in @ THEN @ \ {object} ELSE @ \cup {object}]
  /\ seen' = [c \in Clusters |-> seen[c] \cup existing'[c]]
  /\ lasting' = [c \in Clusters |-> lasting[c] \cap existing'[c]]
  /\ UNCHANGED <<kind, registered, controller, run, ruled>>

ControllerChanges ==
  /\ kind = "brokers"
  /\ Changes
  /\ \E c \in clusters, object \in Objects \cup {NoController} :
       /\ object # controller[c]
       /\ controller' = [controller EXCEPT ![c] = object]
       /\ ruled' = [ruled EXCEPT ![c] = @ \cup {object}]
  /\ UNCHANGED <<kind, registered, existing, run, seen, lasting>>

Goroutine(c) == List(c) \/ DescribeGroups(c) \/ BrokerMetadata(c) \/ Fails(c) \/ Send(c)
Collector == Receive \/ Report

Next ==
  \/ DiscoverTargets
  \/ \E c \in Clusters : Goroutine(c)
  \/ Collector
  \/ RegisterCluster
  \/ ObjectChanges
  \/ ControllerChanges

Spec == Init /\ [][Next]_vars

(* The Go scheduler runs what can run; a request ends, maybe with an error. *)
FairSpec ==
  /\ Spec
  /\ WF_vars(Collector)
  /\ \A c \in Clusters : WF_vars(Goroutine(c))

-------------------------------------------------------------------------------
(* Every variable has a value the program can give it: a goroutine sends   *)
(* one result, and nobody else has sent it.                                *)
TypeOK ==
  /\ kind \in Kinds
  /\ registered \subseteq Clusters
  /\ running => clusters \subseteq registered
  /\ goroutine \in [Clusters -> {"none", "list", "metadata", "send"}]
  /\ resultChan \cap received = {}
  /\ resultChan \cup received \subseteq {c \in clusters : goroutine[c] = "none"}
  /\ \A t \in report.targets : t.cluster \in clusters
  /\ changes \in 0..MaxChanges

Reported(c) == {t.object : t \in {t \in report.targets : t.cluster = c}}
Leaders(c)  == {t.object : t \in {t \in report.targets : t.cluster = c /\ t.isController}}

(* Each target of a report was there during the run, in the cluster whose  *)
(* name it carries, and a broker that is said to be the controller was     *)
(* that during the run, although it was asked for in a second request;     *)
(* internal topics are never reported.                                     *)
NothingInvented ==
  ~running =>
    \A c \in Clusters :
      /\ Reported(c) \subseteq seen[c] \ (IF kind = "topics" THEN Internal ELSE {})
      /\ Leaders(c) \subseteq ruled[c]

(* What a cluster had all the time during the run is in the report if the  *)
(* cluster gave full answers, whatever the other clusters did and whoever  *)
(* else was registered meanwhile; a report has failed only if no cluster   *)
(* answered.  All goroutines of the run are gone by then.                  *)
NothingMissed ==
  ~running =>
    \A c \in clusters :
      /\ goroutine[c] = "none" /\ c \in received
      /\ ~result[c].err =>
           /\ ~report.failed
           /\ result[c].partial
                \/ lasting[c] \ (IF kind = "topics" THEN Internal ELSE {}) \subseteq Reported(c)

(* No run hangs: it collects as many results as it started goroutines,     *)
(* however the registry changes meanwhile.                                 *)
RunsEnd == running ~> ~running
================================================================================
