---------------------------- MODULE ClusterRegistry ----------------------------
(***************************************************************************)
(* The registry of Kafka clusters, config/config.go, its startup in main.go*)
(* and its use by the three discoveries (broker, topic, consumer group),   *)
(* each a goroutine of its own.                                            *)
(*                                                                         *)
(* At startup the indexed clusters are looked up one after the other;      *)
(* those that do not answer become pending.  Every run of a discovery      *)
(* first retries the pending clusters, then asks all registered clusters   *)
(* in parallel and fails only if all of them fail.                         *)
(***************************************************************************)
EXTENDS Integers, Sequences, SequencesExt

CONSTANTS
  Names,        \* the configured names: Names[i] is the name of CLUSTER_(i-1)
  LegacyName,   \* the name a legacy cluster would get, "" if none is configured
  Discoveries   \* the discovery goroutines

ASSUME RegistryAssumption == Names \in Seq(STRING) /\ LegacyName \in STRING

VARIABLES
  up,         \* the clusters that answer
  stage,      \* parsing, testing, running, or fatal once the process has ended
  next,       \* index of the cluster that is parsed next
  indexed,    \* names in clusterIndexMap
  clusters,   \* Config.Clusters: name -> index of its configuration
  pending,    \* pendingClusters
  tested,     \* clusters that testBrokerConnection has asked
  pc,         \* state of each discovery
  todo,       \* its copy of the pending clusters
  snapshot,   \* its copy of Config.Clusters, as a set of indices
  waiting,    \* the clusters whose result it has not received
  answered,   \* the clusters that contributed targets
  outcome     \* what the last run returned: none, targets or error

startup   == <<stage, next, indexed, tested>>
registry  == <<clusters, pending>>
discovery == <<pc, todo, snapshot, waiting, answered, outcome>>
vars == <<up, startup, registry, discovery>>

Indices == 1..Len(Names)
Legacy  == 0
Sources == Indices \cup IF LegacyName = "" THEN {} ELSE {Legacy}

Registered == {clusters[n] : n \in DOMAIN clusters}

Init ==
  /\ up \in SUBSET Sources
  /\ stage = "parsing"
  /\ next = 1
  /\ indexed = {}
  /\ clusters = << >>
  /\ pending = << >>
  /\ tested = [failed |-> {}, ok |-> {}]
  /\ pc = [d \in Discoveries |-> "idle"]
  /\ todo = [d \in Discoveries |-> << >>]
  /\ snapshot = [d \in Discoveries |-> {}]
  /\ waiting = [d \in Discoveries |-> {}]
  /\ answered = [d \in Discoveries |-> {}]
  /\ outcome = [d \in Discoveries |-> "none"]

With(name, i) == [n \in DOMAIN clusters \cup {name} |-> IF n = name THEN i ELSE clusters[n]]
Without(i) == RemoveFirst(pending, i)

-------------------------------------------------------------------------------
(* The operators named ParseUnresolvedSkips, RegisterUnchecked, Register-  *)
(* Requeues, RegisterDropsFirst and ReportFailsOnAny are seeded faults: no *)
(* specification uses them, and each would make a property fail.           *)

(* parseClusterConfigs: one round of its loop.                             *)

(* Only clusters that have answered are in clusterIndexMap. *)
ParseDuplicate ==
  /\ stage = "parsing"
  /\ next \in Indices
  /\ Names[next] \in indexed
  /\ stage' = "fatal"
  /\ UNCHANGED <<up, next, indexed, tested, registry, discovery>>

ParseResolved ==
  /\ stage = "parsing"
  /\ next \in up \cap Indices
  /\ Names[next] \notin indexed
  /\ clusters' = With(Names[next], next)
  /\ indexed' = indexed \cup {Names[next]}
  /\ next' = next + 1
  /\ UNCHANGED <<up, stage, pending, tested, discovery>>

ParseUnresolvedSkips ==
  /\ stage = "parsing"
  /\ next \in Indices \ up
  /\ Names[next] \notin indexed
  /\ next' = next + 1
  /\ UNCHANGED <<up, stage, indexed, tested, registry, discovery>>

ParseUnresolved ==
  /\ stage = "parsing"
  /\ next \in Indices \ up
  /\ Names[next] \notin indexed
  /\ pending' = Append(pending, next)
  /\ next' = next + 1
  /\ UNCHANGED <<up, stage, indexed, clusters, tested, discovery>>

(* ParseConfiguration after the loop: without a cluster that answered the  *)
(* legacy configuration is used, and it has to answer.                     *)
ParseEnds ==
  /\ stage = "parsing"
  /\ next \notin Indices
  /\ IF DOMAIN clusters # {}
     THEN stage' = "testing" /\ UNCHANGED clusters
     ELSE IF LegacyName = "" \/ Legacy \notin up
     THEN stage' = "fatal" /\ UNCHANGED clusters
     ELSE stage' = "testing" /\ clusters' = With(LegacyName, Legacy)
  /\ UNCHANGED <<up, next, indexed, pending, tested, discovery>>

(* testSingleClusterConnection: a client for the cluster, and its Ping *)
Pings(i) == i \in up

(* testBrokerConnection: every registered cluster is pinged by a goroutine *)
(* of its own, and one answer is enough.                                   *)
TestCluster(i) ==
  /\ stage = "testing"
  /\ i \in Registered \ (tested.ok \cup tested.failed)
  /\ tested' = IF Pings(i) THEN [tested EXCEPT !.ok = @ \cup {i}]
                            ELSE [tested EXCEPT !.failed = @ \cup {i}]
  /\ UNCHANGED <<up, stage, next, indexed, registry, discovery>>

TestEnds ==
  /\ stage = "testing"
  /\ Registered \subseteq tested.ok \cup tested.failed
  /\ stage' = IF tested.failed = Registered THEN "fatal" ELSE "running"
  /\ UNCHANGED <<up, next, indexed, tested, registry, discovery>>

-------------------------------------------------------------------------------
(* A discovery run: RetryPendingClusters ...                               *)

DiscoveryBegins(d) ==
  /\ stage = "running"
  /\ pc[d] = "idle"
  /\ pc' = [pc EXCEPT ![d] = "retrying"]
  /\ todo' = [todo EXCEPT ![d] = pending]
  /\ UNCHANGED <<up, startup, registry, snapshot, waiting, answered, outcome>>

(* GetClusterNameFromConfig for the next cluster of the copy *)
Resolve(d) ==
  /\ pc[d] = "retrying"
  /\ todo[d] # << >>
  /\ IF Head(todo[d]) \in up
     THEN pc' = [pc EXCEPT ![d] = "registering"] /\ UNCHANGED todo
     ELSE todo' = [todo EXCEPT ![d] = Tail(@)] /\ UNCHANGED pc
  /\ UNCHANGED <<up, startup, registry, snapshot, waiting, answered, outcome>>

RegisterUnchecked(d) ==
  LET i == Head(todo[d]) IN
  /\ pc[d] = "registering"
  /\ clusters' = With(Names[i], i) /\ pending' = Without(i)
  /\ pc' = [pc EXCEPT ![d] = "retrying"]
  /\ todo' = [todo EXCEPT ![d] = Tail(@)]
  /\ UNCHANGED <<up, startup, snapshot, waiting, answered, outcome>>

RegisterRequeues(d) ==
  LET i == Head(todo[d]) IN
  /\ pc[d] = "registering"
  /\ IF Names[i] \in DOMAIN clusters
     THEN UNCHANGED clusters /\ pending' = Append(pending, i)
     ELSE clusters' = With(Names[i], i) /\ pending' = Without(i)
  /\ pc' = [pc EXCEPT ![d] = "retrying"]
  /\ todo' = [todo EXCEPT ![d] = Tail(@)]
  /\ UNCHANGED <<up, startup, snapshot, waiting, answered, outcome>>

RegisterDropsFirst(d) ==
  LET i == Head(todo[d]) IN
  /\ pc[d] = "registering"
  /\ IF Names[i] \in DOMAIN clusters
     THEN UNCHANGED registry
     ELSE clusters' = With(Names[i], i) /\ pending' = Tail(pending)
  /\ pc' = [pc EXCEPT ![d] = "retrying"]
  /\ todo' = [todo EXCEPT ![d] = Tail(@)]
  /\ UNCHANGED <<up, startup, snapshot, waiting, answered, outcome>>

(* RegisterCluster, under both locks.  A name that is taken is refused,    *)
(* also when another discovery has registered the same cluster meanwhile;  *)
(* the cluster is removed from pending by its index.                       *)
Register(d) ==
  LET i == Head(todo[d]) IN
  /\ pc[d] = "registering"
  /\ IF Names[i] \in DOMAIN clusters
     THEN UNCHANGED registry
     ELSE clusters' = With(Names[i], i) /\ pending' = Without(i)
  /\ pc' = [pc EXCEPT ![d] = "retrying"]
  /\ todo' = [todo EXCEPT ![d] = Tail(@)]
  /\ UNCHANGED <<up, startup, snapshot, waiting, answered, outcome>>

-------------------------------------------------------------------------------
(* ... and the parallel discovery from all clusters.                       *)

(* GetAllClusterConfigs, and one goroutine per cluster of the copy *)
FanOut(d) ==
  /\ pc[d] = "retrying"
  /\ todo[d] = << >>
  /\ pc' = [pc EXCEPT ![d] = "collecting"]
  /\ snapshot' = [snapshot EXCEPT ![d] = Registered]
  /\ waiting' = [waiting EXCEPT ![d] = Registered]
  /\ answered' = [answered EXCEPT ![d] = {}]
  /\ UNCHANGED <<up, startup, registry, todo, outcome>>

(* The goroutine of cluster i has its result, and the collector takes it   *)
(* from the channel: there is room for all of them.                        *)
Collect(d, i) ==
  /\ pc[d] = "collecting"
  /\ i \in waiting[d]
  /\ waiting' = [waiting EXCEPT ![d] = @ \ {i}]
  /\ answered' = [answered EXCEPT ![d] = IF i \in up THEN @ \cup {i} ELSE @]
  /\ UNCHANGED <<up, startup, registry, pc, todo, snapshot, outcome>>

ReportFailsOnAny(d) ==
  /\ pc[d] = "collecting"
  /\ waiting[d] = {}
  /\ pc' = [pc EXCEPT ![d] = "idle"]
  /\ outcome' = [outcome EXCEPT ![d] =
       IF answered[d] # snapshot[d] THEN "error" ELSE "targets"]
  /\ UNCHANGED <<up, startup, registry, todo, snapshot, waiting, answered>>

Report(d) ==
  /\ pc[d] = "collecting"
  /\ waiting[d] = {}
  /\ pc' = [pc EXCEPT ![d] = "idle"]
  /\ outcome' = [outcome EXCEPT ![d] =
       IF answered[d] = {} /\ snapshot[d] # {} THEN "error" ELSE "targets"]
  /\ UNCHANGED <<up, startup, registry, todo, snapshot, waiting, answered>>

Retry(d) == DiscoveryBegins(d) \/ Resolve(d) \/ Register(d)
Discover(d) == FanOut(d) \/ (\E i \in Sources : Collect(d, i)) \/ Report(d)

(* Clusters come and go. *)
ClusterChanges ==
  /\ \E i \in Sources : up' = IF i \in up THEN up \ {i} ELSE up \cup {i}
  /\ UNCHANGED <<startup, registry, discovery>>

(* log.Fatal has ended the process. *)
Ended == stage = "fatal" /\ UNCHANGED vars

Startup == ParseDuplicate \/ ParseResolved \/ ParseUnresolved \/ ParseEnds
             \/ (\E i \in Sources : TestCluster(i)) \/ TestEnds

Next ==
  \/ Startup
  \/ \E d \in Discoveries : Retry(d) \/ Discover(d)
  \/ ClusterChanges
  \/ Ended

Spec == Init /\ [][Next]_vars

(* Startup goes on, and the SDK runs every discovery again and again; a    *)
(* request to a cluster ends, with an error if need be.                    *)
FairSpec ==
  /\ Spec
  /\ WF_vars(Startup)
  /\ \A d \in Discoveries : WF_vars(Retry(d) \/ Discover(d))

-------------------------------------------------------------------------------
(* Every variable has a value the program can give it; the pending list    *)
(* names no cluster twice.                                                 *)
TypeOK ==
  /\ up \subseteq Sources
  /\ stage \in {"parsing", "testing", "running", "fatal"}
  /\ next \in 1..Len(Names) + 1
  /\ DOMAIN clusters \subseteq {Names[i] : i \in Indices} \cup {LegacyName}
  /\ Registered \subseteq Sources
  /\ ToSet(pending) \subseteq Indices /\ IsInjective(pending)
  /\ pc \in [Discoveries -> {"idle", "retrying", "registering", "collecting"}]
  /\ \A d \in Discoveries : ToSet(todo[d]) \subseteq Indices
  /\ \A d \in Discoveries : answered[d] \cup waiting[d] \subseteq snapshot[d]
  /\ outcome \in [Discoveries -> {"none", "targets", "error"}]

(* No configured cluster is lost: each one that was parsed is registered   *)
(* or pending and never both, whichever discoveries retry it at the same   *)
(* time and whether or not its name is taken.                              *)
NothingLost ==
  \A i \in 1..next - 1 : (i \in Registered) # (i \in ToSet(pending))

(* The registry implements RegistryPromise.  In particular a name, once    *)
(* registered, keeps its configuration (executions look it up again by     *)
(* name in every call), and no discovery registers a cluster from its copy *)
(* of the pending list that is not pending any more.                       *)
Promise == INSTANCE RegistryPromise WITH
  looked  <- next - 1,
  book    <- clusters,
  missing <- ToSet(pending)

ImplementsPromise == Promise!Spec

(* One cluster that answers is enough for the discoveries: if it stays up, *)
(* they end up failing no more, however the other clusters behave and      *)
(* whether or not it was up at startup.                                    *)
OneClusterSuffices ==
  \A i \in Indices :
    (\A j \in Indices \ {i} : Names[j] # Names[i]) =>
      (<>[](i \in up) /\ <>(stage = "running")
         => <>[](\A d \in Discoveries : outcome[d] # "error"))

-------------------------------------------------------------------------------
(* What a comment says and the program does not do.                        *)

(* "clustersMutex protects concurrent access": no discovery reads the      *)
(* configuration of a cluster (the consumer group discovery reads its id   *)
(* without the lock) while another is about to write its id.               *)
NoConfigRace ==
  \A d1, d2 \in Discoveries :
    pc[d1] = "registering" /\ pc[d2] = "collecting"
      => Head(todo[d1]) \notin waiting[d2]
================================================================================
