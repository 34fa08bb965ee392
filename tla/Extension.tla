------------------------------- MODULE Extension -------------------------------
(***************************************************************************)
(* The process as a whole: the registry with its discoveries, the targets  *)
(* they give to the agent, executions of an attack on those targets (the   *)
(* calls are those of broker_deny_user.go; the attacks that change a       *)
(* configuration have the same), and restarts.                             *)
(*                                                                         *)
(* A target carries the name of its cluster (kafka.cluster.name).  Prepare *)
(* looks the name up and keeps it, and the seed brokers it finds, in the   *)
(* state the agent holds for the execution; Start and Stop look the name   *)
(* up once more, for the credentials, and connect to the brokers that were *)
(* kept.  The registry is in memory only, so that a restart may come       *)
(* between any two of these and finds other clusters up than the start     *)
(* before.                                                                 *)
(***************************************************************************)
EXTENDS Integers, Sequences

CONSTANTS
  Names, LegacyName, Discoveries,  \* as in ClusterRegistry
  Config,      \* the security settings of each configuration: saslMechanism,
               \* saslUser, certificates (all three files are given), useTLS
  Executions,  \* executions of an attack with Start and Stop
  MaxCrashes   \* bound on the crashes of a running process

ASSUME ExtensionAssumption ==
  /\ Names \in Seq(STRING) /\ LegacyName \in STRING
  /\ DOMAIN Config = 0..Len(Names)
  /\ MaxCrashes \in Nat

VARIABLES
  up, stage, next, indexed, clusters, pending, tested,
  pc, todo, snapshot, waiting, answered, outcome,
  crashes,   \* number of crashes
  targets,   \* the agent's targets, by the cluster they came from
  phase,     \* how far the agent's calls of an execution have come
  source,    \* the cluster its target came from; the target has its name
  hosts,     \* BrokerHosts: the cluster with these seed brokers
  affected   \* the executions whose effect is in their cluster

Registry == INSTANCE ClusterRegistry

registryVars  == <<stage, next, indexed, clusters, pending, tested,
                   pc, todo, snapshot, waiting, answered, outcome>>
executionVars == <<phase, source, hosts, affected>>
vars == <<up, registryVars, crashes, targets, executionVars>>

Sources == Registry!Sources
Nowhere == -1  \* no cluster yet

NameOf(i) == IF i = Registry!Legacy THEN LegacyName ELSE Names[i]

Init ==
  /\ Registry!Init
  /\ crashes = 0
  /\ targets = {}
  /\ phase = [e \in Executions |-> "new"]
  /\ source = [e \in Executions |-> Nowhere]
  /\ hosts = [e \in Executions |-> Nowhere]
  /\ affected = {}

-------------------------------------------------------------------------------
(* The registry goes on by itself; a report with targets goes to the agent,*)
(* which keeps the targets, also those of clusters that fail later.        *)

Startup ==
  /\ Registry!Startup
  /\ UNCHANGED <<crashes, targets, executionVars>>

Discovers(d) ==
  /\ \/ Registry!Retry(d)
     \/ Registry!FanOut(d)
     \/ \E i \in Sources : Registry!Collect(d, i)
  /\ UNCHANGED <<crashes, targets, executionVars>>

Delivers(d) ==
  /\ Registry!Report(d)
  /\ targets' = targets \cup IF outcome'[d] = "targets" THEN answered[d] ELSE {}
  /\ UNCHANGED <<crashes, executionVars>>

ClusterChanges ==
  /\ Registry!ClusterChanges
  /\ UNCHANGED <<crashes, targets, executionVars>>

-------------------------------------------------------------------------------
(* The calls of the agent.  One that finds no process, or no configuration *)
(* for the name, returns an error and changes nothing in the cluster.      *)

(* GetClusterConfig(state.ClusterName) *)
Found(i) == stage = "running" /\ NameOf(i) \in DOMAIN clusters
Lookup(i) == clusters[NameOf(i)]

(* How a configuration has a client authenticate, any unknown mechanism    *)
(* meaning PLAIN, and connect.                                             *)
Sasl(config) ==
  CASE config.saslMechanism = "" -> <<"none">>
    [] config.saslMechanism \in {"SCRAM-SHA-256", "SCRAM-SHA-512"} ->
         <<config.saslMechanism, config.saslUser>>
    [] OTHER -> <<"PLAIN", config.saslUser>>

Transport(config) ==
  CASE config.certificates -> "mutual TLS"
    [] ~config.certificates /\ config.useTLS -> "TLS"
    [] OTHER -> "plaintext"

ClientOf(seeds, config) ==
  [hosts |-> seeds, sasl |-> Sasl(config), transport |-> Transport(config)]

(* Seeded fault: createNewClient takes the security settings from the      *)
(* variables of the single cluster.                                        *)
ClientOfSingleCluster(e) == ClientOf(hosts[e], Config[Registry!Legacy])

(* createNewClientWithConfig(state.BrokerHosts, clusterConfig) *)
Client(e) == ClientOf(hosts[e], Config[Lookup(source[e])])

(* A cluster answers if it is up and the client is secured as it asks,     *)
(* which is what its own configuration says.                               *)
Answers(client) ==
  client.hosts \in up /\ client = ClientOf(client.hosts, Config[client.hosts])

Prepare(e) ==
  /\ phase[e] = "new"
  /\ \E i \in targets :
       /\ Found(i)
       /\ source' = [source EXCEPT ![e] = i]
       /\ hosts' = [hosts EXCEPT ![e] = Lookup(i)]
  /\ phase' = [phase EXCEPT ![e] = "prepared"]
  /\ UNCHANGED <<up, registryVars, crashes, targets, affected>>

(* The answer may be lost when the cluster has done what it was asked for. *)
Start(e) ==
  /\ phase[e] = "prepared"
  /\ \/ /\ Found(source[e]) /\ Answers(Client(e))
        /\ affected' = affected \cup {e}
        /\ phase' \in {[phase EXCEPT ![e] = "started"], [phase EXCEPT ![e] = "startFailed"]}
     \/ /\ ~(Found(source[e]) /\ Answers(Client(e)))
        /\ phase' = [phase EXCEPT ![e] = "startFailed"]
        /\ UNCHANGED affected
  /\ UNCHANGED <<up, registryVars, crashes, targets, source, hosts>>

(* Seeded fault: a Stop that finds no configuration has nothing to do. *)
StopIfRegistered(e) ==
  /\ phase[e] \in {"prepared", "started", "startFailed"}
  /\ stage = "running"
  /\ Found(source[e]) => Answers(Client(e))
  /\ affected' = IF Found(source[e]) THEN affected \ {e} ELSE affected
  /\ phase' = [phase EXCEPT ![e] = "stopped"]
  /\ UNCHANGED <<up, registryVars, crashes, targets, source, hosts>>

(* One that fails may be repeated; the answer may be lost here as well. *)
Stop(e) ==
  /\ phase[e] \in {"prepared", "started", "startFailed"}
  /\ Found(source[e]) /\ Answers(Client(e))
  /\ affected' = affected \ {e}
  /\ phase' \in {[phase EXCEPT ![e] = "stopped"], phase}
  /\ UNCHANGED <<up, registryVars, crashes, targets, source, hosts>>

-------------------------------------------------------------------------------
(* systemd and Kubernetes start a process again that has ended; it knows   *)
(* nothing of the one before.                                              *)

Boot ==
  /\ stage' = "parsing"
  /\ next' = 1
  /\ indexed' = {}
  /\ clusters' = << >>
  /\ pending' = << >>
  /\ tested' = [failed |-> {}, ok |-> {}]
  /\ pc' = [d \in Discoveries |-> "idle"]
  /\ todo' = [d \in Discoveries |-> << >>]
  /\ snapshot' = [d \in Discoveries |-> {}]
  /\ waiting' = [d \in Discoveries |-> {}]
  /\ answered' = [d \in Discoveries |-> {}]
  /\ outcome' = [d \in Discoveries |-> "none"]
  /\ UNCHANGED <<up, targets, executionVars>>

Crash ==
  /\ stage # "fatal"
  /\ crashes < MaxCrashes
  /\ crashes' = crashes + 1
  /\ Boot

RestartAfterFatal ==
  /\ stage = "fatal"
  /\ UNCHANGED crashes
  /\ Boot

Next ==
  \/ Startup
  \/ \E d \in Discoveries : Discovers(d) \/ Delivers(d)
  \/ ClusterChanges
  \/ \E e \in Executions : Prepare(e) \/ Start(e) \/ Stop(e)
  \/ Crash
  \/ RestartAfterFatal

Spec == Init /\ [][Next]_vars

(* As for the registry; the supervisor restarts what has ended, and the    *)
(* agent repeats a Stop until it succeeds.                                 *)
FairSpec ==
  /\ Spec
  /\ WF_vars(Startup)
  /\ \A d \in Discoveries : WF_vars(Discovers(d) \/ Delivers(d))
  /\ WF_vars(RestartAfterFatal)
  /\ \A e \in Executions : WF_vars(Stop(e))

-------------------------------------------------------------------------------
OwnName(i) == \A j \in Sources \ {i} : NameOf(j) # NameOf(i)

(* Every variable has a value the program can give it; an execution keeps  *)
(* its target's cluster and its seed brokers, whoever restarts.            *)
TypeOK ==
  /\ Registry!TypeOK
  /\ crashes \in 0..MaxCrashes
  /\ targets \subseteq Sources
  /\ phase \in [Executions -> {"new", "prepared", "started", "startFailed", "stopped"}]
  /\ \A e \in Executions : source[e] \in IF phase[e] = "new" THEN {Nowhere} ELSE targets
  /\ \A e \in affected : phase[e] \in {"started", "startFailed"}

(* A call of an execution goes to the cluster its target came from and     *)
(* with that cluster's credentials, also after a restart that has found    *)
(* other clusters up: "each target includes a kafka.cluster.name attribute *)
(* to identify which cluster it belongs to".  Two clusters with one name   *)
(* are excluded; the second is refused as long as the process lives.       *)
OwnCluster ==
  \A e \in Executions :
    /\ phase[e] # "new" => (OwnName(source[e]) => hosts[e] = source[e])
    /\ phase[e] # "new" /\ OwnName(source[e]) /\ Found(source[e]) =>
         Client(e) = ClientOf(source[e], Config[source[e]])

(* A cluster that is configured under a name of its own and stays up is    *)
(* registered in the end and for good, whether or not it was up when the   *)
(* process was started, and whatever made that process end: it is enough   *)
(* that crashes end.                                                       *)
RegisteredForGood ==
  \A i \in 1..Len(Names) :
    OwnName(i) => (<>[](i \in up) => <>[](Found(i) /\ Lookup(i) = i))

(* One cluster that answers is enough for the discoveries, as              *)
(* ClusterRegistry has it, across restarts.                                *)
OneClusterSuffices == Registry!OneClusterSuffices

(* No attack on such a cluster outlives it: as long as the agent repeats   *)
(* its Stop, it is undone, although neither the process nor the registry   *)
(* need be what they were at Start.                                        *)
AttackUndone ==
  \A i \in 1..Len(Names), e \in Executions :
    OwnName(i) => (<>[](i \in up) => (e \in affected /\ source[e] = i ~> e \notin affected))
================================================================================
