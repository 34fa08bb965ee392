--------------------------- MODULE ExtensionProofs -----------------------------
(***************************************************************************)
(* Proofs about Extension: any configuration, any number of discoveries,   *)
(* executions and crashes.  What the registry does between two restarts is *)
(* proved in ClusterRegistryProofs, which is instantiated here.            *)
(***************************************************************************)
EXTENDS Extension, TLAPS

Proved == INSTANCE ClusterRegistryProofs

-------------------------------------------------------------------------------
(* The steps of the registry are the ones the proofs are about.            *)

LEMMA SameStartup == Registry!Startup => Proved!Next
<1> USE DEF Registry!startup, Registry!registry, Registry!discovery, Registry!Registered,
            Registry!Sources, Registry!Indices, Registry!Legacy, Registry!With,
            Proved!startup, Proved!registry, Proved!discovery, Proved!Registered,
            Proved!Sources, Proved!Indices, Proved!Legacy, Proved!With
<1>1. Registry!ParseDuplicate => Proved!ParseDuplicate
  BY DEF Registry!ParseDuplicate, Proved!ParseDuplicate
<1>2. Registry!ParseResolved => Proved!ParseResolved
  BY DEF Registry!ParseResolved, Proved!ParseResolved
<1>3. Registry!ParseUnresolved => Proved!ParseUnresolved
  BY DEF Registry!ParseUnresolved, Proved!ParseUnresolved
<1>4. Registry!ParseEnds => Proved!ParseEnds
  BY DEF Registry!ParseEnds, Proved!ParseEnds
<1>5. \A i : Registry!TestCluster(i) => Proved!TestCluster(i)
  BY DEF Registry!TestCluster, Registry!Pings, Proved!TestCluster, Proved!Pings
<1>6. Registry!TestEnds => Proved!TestEnds
  BY DEF Registry!TestEnds, Proved!TestEnds
<1> QED
  BY <1>1, <1>2, <1>3, <1>4, <1>5, <1>6 DEF Registry!Startup, Proved!Startup, Proved!Next

LEMMA SameDiscovery ==
  ASSUME NEW d \in Discoveries
  PROVE  /\ Registry!Retry(d) => Proved!Next
         /\ Registry!FanOut(d) => Proved!Next
         /\ \A i \in Registry!Sources : Registry!Collect(d, i) => Proved!Next
         /\ Registry!Report(d) => Proved!Next
<1> USE DEF Registry!startup, Registry!registry, Registry!discovery, Registry!Registered,
            Registry!Sources, Registry!Indices, Registry!Legacy, Registry!With, Registry!Without,
            Proved!startup, Proved!registry, Proved!discovery, Proved!Registered,
            Proved!Sources, Proved!Indices, Proved!Legacy, Proved!With, Proved!Without
<1>1. Registry!DiscoveryBegins(d) => Proved!DiscoveryBegins(d)
  BY DEF Registry!DiscoveryBegins, Proved!DiscoveryBegins
<1>2. Registry!Resolve(d) => Proved!Resolve(d)
  BY DEF Registry!Resolve, Proved!Resolve
<1>3. Registry!Register(d) => Proved!Register(d)
  BY DEF Registry!Register, Registry!RemoveFirst, Registry!SelectInSeq, Registry!RemoveAt,
         Registry!Min, Proved!Register, Proved!RemoveFirst, Proved!SelectInSeq,
         Proved!RemoveAt, Proved!Min
<1>4. Registry!FanOut(d) => Proved!FanOut(d)
  BY DEF Registry!FanOut, Proved!FanOut
<1>5. \A i : Registry!Collect(d, i) => Proved!Collect(d, i)
  BY DEF Registry!Collect, Proved!Collect
<1>6. Registry!Report(d) => Proved!Report(d)
  BY DEF Registry!Report, Proved!Report
<1> QED
  BY <1>1, <1>2, <1>3, <1>4, <1>5, <1>6
     DEF Registry!Retry, Proved!Retry, Proved!Discover, Proved!Next

LEMMA SameClusterChanges == Registry!ClusterChanges => Proved!Next
  BY DEF Registry!ClusterChanges, Registry!startup, Registry!registry, Registry!discovery,
         Registry!Sources, Registry!Indices, Registry!Legacy,
         Proved!ClusterChanges, Proved!startup, Proved!registry, Proved!discovery,
         Proved!Sources, Proved!Indices, Proved!Legacy, Proved!Next

LEMMA SameStates ==
  /\ Registry!Init => Proved!Init
  /\ Proved!TypeOK => Registry!TypeOK
  /\ Registry!Sources = Proved!Sources
<1> USE DEF Registry!Registered, Registry!Sources, Registry!Indices, Registry!Legacy,
            Proved!Registered, Proved!Sources, Proved!Indices, Proved!Legacy
<1>1. Registry!Init => Proved!Init
  BY DEF Registry!Init, Proved!Init
<1>2. Proved!TypeOK => Registry!TypeOK
  BY DEF Registry!TypeOK, Registry!ToSet, Registry!IsInjective,
         Proved!TypeOK, Proved!ToSet, Proved!IsInjective
<1> QED
  BY <1>1, <1>2

-------------------------------------------------------------------------------
(* The invariant.                                                          *)

Shapes ==
  /\ source \in [Executions -> Sources \cup {Nowhere}]
  /\ hosts \in [Executions -> Sources \cup {Nowhere}]
  /\ affected \subseteq Executions

(* The seed brokers an execution keeps are those of its target's cluster. *)
OwnHosts ==
  \A e \in Executions : phase[e] # "new" /\ OwnName(source[e]) => hosts[e] = source[e]

IInv == Proved!IInv /\ TypeOK /\ Shapes /\ OwnHosts

(* What is proved of the registry, under its assumption on the names. *)
LEMMA RegistryStarts == Proved!Init => Proved!IInv
  BY ExtensionAssumption, Proved!InitIInv

LEMMA RegistryGoes == Proved!IInv /\ [Proved!Next]_Proved!vars => Proved!IInv'
  BY ExtensionAssumption, Proved!IInvStep

(* Under a name of its own a cluster finds its own configuration, whatever *)
(* the registry has gone through. *)
LEMMA OwnLookup ==
  ASSUME Proved!IInv, NEW i \in Sources, Found(i)
  PROVE  Lookup(i) \in Sources /\ (OwnName(i) => Lookup(i) = i)
<1>1. NameOf(i) \in DOMAIN clusters
  BY DEF Found
<1>2. clusters[NameOf(i)] \in Sources
  BY <1>1, SameStates DEF Proved!IInv, Proved!Shapes, Sources
<1>3. NameOf(clusters[NameOf(i)]) = NameOf(i)
  BY <1>1 DEF Proved!IInv, Proved!OwnName, NameOf, Registry!Legacy, Proved!Legacy
<1> QED
  BY <1>2, <1>3 DEF Lookup, OwnName

(* The registry goes a step, or starts anew; the executions stay, and the  *)
(* targets become more.                                                    *)
LEMMA ExecutionsStay ==
  ASSUME IInv, Proved!IInv', UNCHANGED executionVars,
         crashes' \in 0..MaxCrashes, targets \subseteq targets', targets' \subseteq Sources
  PROVE  IInv'
<1> USE DEF IInv, executionVars
<1>1. TypeOK'
  <2>1. Registry!TypeOK'
    BY SameStates DEF Proved!IInv, Registry!TypeOK, Registry!ToSet, Registry!IsInjective,
       Registry!Registered, Registry!Sources, Registry!Indices, Registry!Legacy,
       Proved!TypeOK, Proved!ToSet, Proved!IsInjective,
       Proved!Registered, Proved!Sources, Proved!Indices, Proved!Legacy
  <2> QED
    BY <2>1 DEF TypeOK
<1>2. Shapes' /\ OwnHosts'
  BY DEF Shapes, OwnHosts
<1> QED
  BY <1>1, <1>2

LEMMA RegistryGoesOn ==
  ASSUME IInv, Proved!Next, UNCHANGED executionVars, UNCHANGED crashes,
         targets \subseteq targets', targets' \subseteq Sources
  PROVE  IInv'
<1>1. Proved!IInv'
  BY RegistryGoes DEF IInv
<1>2. crashes' \in 0..MaxCrashes
  BY DEF IInv, TypeOK
<1> QED
  BY <1>1, <1>2, ExecutionsStay

LEMMA ProcessBoots ==
  ASSUME IInv, Boot, crashes' \in 0..MaxCrashes
  PROVE  IInv'
<1>1. up \subseteq Proved!Sources
  BY DEF IInv, Proved!IInv, Proved!TypeOK
<1>2. Proved!Init'
  BY <1>1 DEF Boot, Proved!Init, Proved!Sources, Proved!Indices, Proved!Legacy
<1>3. (Proved!Init => Proved!IInv)'
  BY RegistryStarts, PTL
<1>4. Proved!IInv'
  BY <1>2, <1>3
<1> QED
  BY <1>4, ExecutionsStay DEF Boot, IInv, TypeOK

LEMMA DiscoversStep ==
  ASSUME IInv, NEW d \in Discoveries, Discovers(d)
  PROVE  IInv'
<1>1. Proved!Next
  BY SameDiscovery DEF Discovers, Sources
<1>2. targets \subseteq Sources
  BY DEF IInv, TypeOK
<1> QED
  BY <1>1, <1>2, RegistryGoesOn DEF Discovers, executionVars

(* A report makes targets of clusters that have answered. *)
LEMMA DeliversStep ==
  ASSUME IInv, NEW d \in Discoveries, Delivers(d)
  PROVE  IInv'
<1>1. Proved!Next
  BY SameDiscovery DEF Delivers
<1>2. targets \subseteq Sources /\ answered[d] \subseteq Sources
  BY SameStates DEF IInv, TypeOK, Proved!IInv, Proved!Shapes, Sources
<1> QED
  BY <1>1, <1>2, RegistryGoesOn DEF Delivers

(* A call of the agent leaves the registry alone. *)
LEMMA RegistryStays ==
  ASSUME IInv, UNCHANGED <<up, registryVars, crashes, targets>>
  PROVE  Proved!IInv' /\ Registry!TypeOK' /\ crashes' \in 0..MaxCrashes /\ targets' \subseteq Sources
<1>1. UNCHANGED Proved!vars
  BY DEF registryVars, Proved!vars, Proved!startup, Proved!registry, Proved!discovery
<1>2. Proved!IInv'
  BY <1>1, RegistryGoes DEF IInv
<1>3. Registry!TypeOK'
  BY DEF IInv, TypeOK, registryVars, Registry!TypeOK, Registry!Registered
<1> QED
  BY <1>2, <1>3 DEF IInv, TypeOK

LEMMA PrepareStep ==
  ASSUME IInv, NEW e \in Executions, Prepare(e)
  PROVE  IInv'
<1>1. PICK i \in targets : /\ Found(i)
                           /\ source' = [source EXCEPT ![e] = i]
                           /\ hosts' = [hosts EXCEPT ![e] = Lookup(i)]
  BY DEF Prepare
<1>2. /\ phase[e] = "new" /\ phase' = [phase EXCEPT ![e] = "prepared"]
      /\ UNCHANGED <<up, registryVars, crashes, targets, affected>>
  BY DEF Prepare
<1>3. i \in Sources /\ Lookup(i) \in Sources /\ (OwnName(i) => Lookup(i) = i)
  BY <1>1, OwnLookup DEF IInv, TypeOK
<1>4. Proved!IInv' /\ Registry!TypeOK' /\ crashes' \in 0..MaxCrashes /\ targets' \subseteq Sources
  BY <1>2, RegistryStays
<1>5. e \notin affected
  BY <1>2 DEF IInv, TypeOK
<1>6. TypeOK' /\ Shapes'
  BY <1>1, <1>2, <1>3, <1>4, <1>5 DEF IInv, TypeOK, Shapes
<1>7. OwnHosts'
  BY <1>1, <1>2, <1>3 DEF IInv, TypeOK, Shapes, OwnHosts
<1> QED
  BY <1>4, <1>6, <1>7 DEF IInv

(* Start and Stop change an execution's phase, and its effect with it. *)
LEMMA PhaseStep ==
  ASSUME IInv, NEW e \in Executions, phase[e] # "new",
         NEW p \in {"started", "startFailed", "stopped"},
         phase' = [phase EXCEPT ![e] = p],
         UNCHANGED <<up, registryVars, crashes, targets, source, hosts>>,
         affected' \subseteq affected \cup {e},
         e \in affected' => p # "stopped"
  PROVE  IInv'
<1>1. Proved!IInv' /\ Registry!TypeOK' /\ crashes' \in 0..MaxCrashes /\ targets' \subseteq Sources
  BY RegistryStays
<1>2. TypeOK'
  BY <1>1 DEF IInv, TypeOK, Shapes
<1>3. Shapes' /\ OwnHosts'
  BY DEF IInv, TypeOK, Shapes, OwnHosts
<1> QED
  BY <1>1, <1>2, <1>3 DEF IInv

LEMMA StartStep ==
  ASSUME IInv, NEW e \in Executions, Start(e)
  PROVE  IInv'
<1>1. PICK p \in {"started", "startFailed"} : phase' = [phase EXCEPT ![e] = p]
  BY DEF Start
<1> QED
  BY <1>1, PhaseStep DEF Start

LEMMA StopStep ==
  ASSUME IInv, NEW e \in Executions, Stop(e)
  PROVE  IInv'
<1>1. /\ phase[e] \in {"prepared", "started", "startFailed"}
      /\ affected' = affected \ {e}
      /\ UNCHANGED <<up, registryVars, crashes, targets, source, hosts>>
  BY DEF Stop
<1>2. CASE phase' = [phase EXCEPT ![e] = "stopped"]
  BY <1>1, <1>2, PhaseStep
<1>3. CASE phase' = phase
  <2>1. Proved!IInv' /\ Registry!TypeOK' /\ crashes' \in 0..MaxCrashes /\ targets' \subseteq Sources
    BY <1>1, RegistryStays
  <2> QED
    BY <1>1, <1>3, <2>1 DEF IInv, TypeOK, Shapes, OwnHosts
<1> QED
  BY <1>2, <1>3 DEF Stop

LEMMA Inductive ==
  ASSUME IInv, [Next]_vars
  PROVE  IInv'
<1>0. targets \subseteq Sources /\ crashes \in 0..MaxCrashes /\ MaxCrashes \in Nat
  BY ExtensionAssumption DEF IInv, TypeOK
<1>1. CASE Startup
  BY <1>0, <1>1, SameStartup, RegistryGoesOn DEF Startup
<1>2. ASSUME NEW d \in Discoveries, Discovers(d) \/ Delivers(d)
      PROVE  IInv'
  BY <1>2, DiscoversStep, DeliversStep
<1>3. CASE ClusterChanges
  BY <1>0, <1>3, SameClusterChanges, RegistryGoesOn DEF ClusterChanges
<1>4. ASSUME NEW e \in Executions, Prepare(e) \/ Start(e) \/ Stop(e)
      PROVE  IInv'
  BY <1>4, PrepareStep, StartStep, StopStep
<1>5. CASE Crash
  BY <1>0, <1>5, ProcessBoots DEF Crash
<1>6. CASE RestartAfterFatal
  BY <1>0, <1>6, ProcessBoots DEF RestartAfterFatal
<1>7. CASE UNCHANGED vars
  <2>1. Proved!IInv' /\ Registry!TypeOK' /\ crashes' \in 0..MaxCrashes /\ targets' \subseteq Sources
    BY <1>7, RegistryStays DEF vars
  <2> QED
    BY <1>7, <2>1 DEF vars, executionVars, IInv, TypeOK, Shapes, OwnHosts
<1> QED
  BY <1>1, <1>2, <1>3, <1>4, <1>5, <1>6, <1>7 DEF Next

LEMMA Initially ==
  ASSUME Init
  PROVE  IInv
<1>1. Proved!IInv
  BY SameStates, RegistryStarts DEF Init
<1>2. Registry!TypeOK
  BY <1>1, SameStates DEF Proved!IInv
<1> QED
  BY <1>1, <1>2, ExtensionAssumption DEF Init, IInv, TypeOK, Shapes, OwnHosts

LEMMA Invariance == Spec => []IInv
<1>1. Init => IInv
  BY Initially
<1>2. IInv /\ [Next]_vars => IInv'
  BY Inductive
<1> QED
  BY <1>1, <1>2, PTL DEF Spec

(* Every variable of the process and of the agent's executions has a value *)
(* they can have, across any number of restarts.                           *)
THEOREM TypeCorrect == Spec => []TypeOK
<1>1. IInv => TypeOK
  BY DEF IInv
<1> QED
  BY <1>1, Invariance, PTL

(* kafka.cluster.name leads every call of an execution to the cluster its  *)
(* target came from, with the credentials of that cluster, for any number  *)
(* of clusters, discoveries and restarts, if no other cluster has the name.*)
THEOREM CallsGoToOwnCluster == Spec => []OwnCluster
<1>1. ASSUME IInv
      PROVE  OwnCluster
  <2> SUFFICES ASSUME NEW e \in Executions, phase[e] # "new", OwnName(source[e])
               PROVE  /\ hosts[e] = source[e]
                      /\ Found(source[e]) =>
                           Client(e) = ClientOf(source[e], Config[source[e]])
    BY DEF OwnCluster
  <2>1. hosts[e] = source[e] /\ source[e] \in Sources
    BY <1>1 DEF IInv, OwnHosts, TypeOK
  <2>2. Found(source[e]) => Lookup(source[e]) = source[e]
    BY <1>1, <2>1, OwnLookup DEF IInv
  <2> QED
    BY <2>1, <2>2 DEF Client
<1> QED
  BY <1>1, Invariance, PTL

================================================================================
