--------------------------- MODULE DiscoveryProofs -----------------------------
(***************************************************************************)
(* Proofs about Discovery: any finite set of clusters, any objects and any *)
(* number of changes during a run.                                         *)
(***************************************************************************)
EXTENDS Discovery, FiniteSetTheorems, TLAPS

-------------------------------------------------------------------------------
(* The invariant.                                                          *)

Results == [err : BOOLEAN, partial : BOOLEAN, found : SUBSET Objects,
            controller : Objects \cup {NoController}]

Shapes ==
  /\ existing \in [Clusters -> SUBSET Objects]
  /\ controller \in [Clusters -> Objects \cup {NoController}]
  /\ seen \in [Clusters -> SUBSET Objects]
  /\ lasting \in [Clusters -> SUBSET Objects]
  /\ ruled \in [Clusters -> SUBSET (Objects \cup {NoController})]
  /\ result \in [Clusters -> Results]
  /\ clusters \subseteq Clusters

(* What is there now has been seen, and so has been what was there all the *)
(* time.                                                                   *)
Window ==
  \A c \in Clusters : /\ lasting[c] \subseteq existing[c]
                      /\ existing[c] \subseteq seen[c]
                      /\ controller[c] \in ruled[c]

(* Goroutines run for the clusters of the copy, and only during a run. *)
Goroutines ==
  \A c \in Clusters : goroutine[c] # "none" => running /\ c \in clusters

(* A goroutine that has got its answers has a result that is true of some  *)
(* time during the run; the second answer may be of another time than the  *)
(* first.                                                                  *)
TrueResult(c) ==
  /\ result[c].found \subseteq seen[c]
  /\ ~result[c].partial => lasting[c] \subseteq result[c].found
  /\ kind = "brokers" /\ goroutine[c] # "metadata" => result[c].controller \in ruled[c]

TrueResults ==
  \A c \in clusters : goroutine[c] = "list" \/ result[c].err \/ TrueResult(c)

IInv ==
  /\ TypeOK /\ Shapes /\ Window /\ Goroutines /\ TrueResults
  /\ NothingInvented /\ NothingMissed

-------------------------------------------------------------------------------
(* The copy is finite, so that counting results tells when all are there.  *)
LEMMA AllReceivedMeansAll ==
  ASSUME TypeOK, Shapes, AllReceived
  PROVE  received = clusters
<1>1. IsFiniteSet(clusters)
  BY DiscoveryAssumption, FS_Subset DEF Shapes
<1>2. received \in SUBSET clusters
  BY DEF TypeOK
<1> QED
  BY <1>1, <1>2, FS_Subset DEF AllReceived

LEMMA Initially ==
  ASSUME Init
  PROVE  IInv
<1> USE DEF Init
<1>1. TypeOK
  BY DiscoveryAssumption DEF TypeOK
<1>2. Shapes /\ Window /\ Goroutines /\ TrueResults
  BY DEF Shapes, Results, NoResult, Window, Goroutines, TrueResults
<1>3. NothingInvented /\ NothingMissed
  BY DEF NothingInvented, NothingMissed, Reported, Leaders
<1> QED
  BY <1>1, <1>2, <1>3 DEF IInv

LEMMA RunBegins ==
  ASSUME IInv, DiscoverTargets
  PROVE  IInv'
<1> USE DEF IInv, DiscoverTargets, world
<1>1. TypeOK'
  BY DiscoveryAssumption DEF TypeOK
<1>2. Shapes'
  BY DEF TypeOK, Shapes, Results, NoResult
<1>3. Window' /\ Goroutines' /\ TrueResults'
  BY <1>1, <1>2 DEF Window, Goroutines, TrueResults, Shapes, TypeOK
<1>4. NothingInvented' /\ NothingMissed'
  BY DEF NothingInvented, NothingMissed
<1> QED
  BY <1>1, <1>2, <1>3, <1>4

(* A step of one goroutine leaves the world, the history and the results   *)
(* of the others alone; what its own result then has to be is all there is *)
(* to see.                                                                 *)
LEMMA GoroutineStep ==
  ASSUME IInv, NEW c \in Clusters, NEW to \in {"metadata", "send"}, NEW r \in Results,
         goroutine[c] \in {"list", "metadata"},
         goroutine' = [goroutine EXCEPT ![c] = to],
         result' = [result EXCEPT ![c] = r],
         UNCHANGED <<kind, world, running, clusters, resultChan, received, report, history>>,
         \/ r.err
         \/ /\ r.found \subseteq seen[c]
            /\ ~r.partial => lasting[c] \subseteq r.found
            /\ kind = "brokers" /\ to # "metadata" => r.controller \in ruled[c]
  PROVE  IInv'
<1> USE DEF IInv, world, history
<1>1. /\ running /\ c \in clusters
      /\ c \notin resultChan /\ c \notin received
  BY DEF Goroutines, TypeOK
<1>2. TypeOK'
  BY <1>1 DEF TypeOK
<1>3. Shapes' /\ Window' /\ Goroutines'
  BY <1>1 DEF Shapes, Window, Goroutines, TypeOK
<1>4. TrueResults'
  <2> SUFFICES ASSUME NEW d \in clusters
               PROVE  goroutine'[d] = "list" \/ result'[d].err \/ TrueResult(d)'
    BY DEF TrueResults
  <2>1. CASE d = c
    <3>1. result'[d] = r /\ goroutine'[d] = to
      BY <2>1, <1>1 DEF Shapes, TypeOK
    <3> QED
      BY <2>1, <3>1 DEF TrueResult
  <2>2. CASE d # c
    <3>1. result'[d] = result[d] /\ goroutine'[d] = goroutine[d]
      BY <2>2 DEF Shapes, TypeOK
    <3> QED
      BY <3>1 DEF TrueResult, TrueResults
  <2> QED
    BY <2>1, <2>2
<1>5. NothingInvented' /\ NothingMissed'
  BY <1>1 DEF NothingInvented, NothingMissed
<1> QED
  BY <1>2, <1>3, <1>4, <1>5

LEMMA ListStep ==
  ASSUME IInv, NEW c \in Clusters, List(c)
  PROVE  IInv'
<1> DEFINE r == [result[c] EXCEPT !.found = existing[c]]
<1>1. /\ result[c] \in Results /\ existing[c] \in SUBSET Objects
      /\ lasting[c] \subseteq existing[c] /\ existing[c] \subseteq seen[c]
  BY DEF IInv, Shapes, Window
<1>2. r \in Results /\ r.found = existing[c]
  BY <1>1 DEF Results
<1>3. result' = [result EXCEPT ![c] = r]
  BY DEF List
<1> HIDE DEF r
<1> QED
  BY <1>1, <1>2, <1>3, GoroutineStep DEF List, Moves

LEMMA DescribeGroupsStep ==
  ASSUME IInv, NEW c \in Clusters, DescribeGroups(c)
  PROVE  IInv'
<1>1. /\ result[c] \in Results /\ existing[c] \in SUBSET Objects
      /\ lasting[c] \subseteq existing[c] /\ existing[c] \subseteq seen[c]
  BY DEF IInv, Shapes, Window
<1>2. CASE result' = [result EXCEPT ![c].found = existing[c]]
  <2> DEFINE r == [result[c] EXCEPT !.found = existing[c]]
  <2>1. r \in Results /\ r.found = existing[c]
    BY <1>1 DEF Results
  <2>2. result' = [result EXCEPT ![c] = r]
    BY <1>2
  <2> HIDE DEF r
  <2> QED
    BY <1>1, <2>1, <2>2, GoroutineStep DEF DescribeGroups, Moves
<1>3. ASSUME NEW some \in SUBSET existing[c],
             result' = [result EXCEPT ![c].found = some, ![c].partial = TRUE]
      PROVE  IInv'
  <2> DEFINE r == [result[c] EXCEPT !.found = some, !.partial = TRUE]
  <2>1. r \in Results /\ r.found = some /\ r.partial
    BY <1>1 DEF Results
  <2>2. result' = [result EXCEPT ![c] = r]
    BY <1>1, <1>3 DEF IInv, Shapes, Results
  <2> HIDE DEF r
  <2> QED
    BY <1>1, <2>1, <2>2, GoroutineStep DEF DescribeGroups, Moves
<1> QED
  BY <1>2, <1>3 DEF DescribeGroups

LEMMA BrokerMetadataStep ==
  ASSUME IInv, NEW c \in Clusters, BrokerMetadata(c)
  PROVE  IInv'
<1> DEFINE r == [result[c] EXCEPT !.controller = controller[c]]
<1>1. /\ result[c] \in Results /\ controller[c] \in Objects \cup {NoController}
      /\ controller[c] \in ruled[c]
  BY DEF IInv, Shapes, Window
<1>2. /\ r \in Results /\ r.controller = controller[c]
      /\ r.err = result[c].err /\ r.found = result[c].found /\ r.partial = result[c].partial
  BY <1>1 DEF Results
<1>3. result' = [result EXCEPT ![c] = r]
  BY DEF BrokerMetadata
<1>4. c \in clusters /\ goroutine[c] = "metadata"
  BY DEF IInv, Goroutines, BrokerMetadata, Moves
<1>5. result[c].err \/ TrueResult(c)
  BY <1>4 DEF IInv, TrueResults
<1> HIDE DEF r
<1> QED
  BY <1>1, <1>2, <1>3, <1>4, <1>5, GoroutineStep DEF BrokerMetadata, Moves, TrueResult

LEMMA FailsStep ==
  ASSUME IInv, NEW c \in Clusters, Fails(c)
  PROVE  IInv'
<1> DEFINE r == [NoResult EXCEPT !.err = TRUE]
<1>1. r \in Results /\ r.err
  BY DEF NoResult, Results
<1>2. result' = [result EXCEPT ![c] = r]
  BY DEF Fails
<1> HIDE DEF r
<1> QED
  BY <1>1, <1>2, GoroutineStep DEF Fails

LEMMA SendStep ==
  ASSUME IInv, NEW c \in Clusters, Send(c)
  PROVE  IInv'
<1> USE DEF IInv, Send, Moves, world, history
<1>1. /\ running /\ c \in clusters
      /\ c \notin resultChan /\ c \notin received
  BY DEF Goroutines, TypeOK
<1>2. TypeOK'
  BY <1>1 DEF TypeOK
<1>3. Shapes' /\ Window' /\ Goroutines' /\ TrueResults'
  BY <1>1 DEF Shapes, Window, Goroutines, TypeOK, TrueResults, TrueResult
<1>4. NothingInvented' /\ NothingMissed'
  BY <1>1 DEF NothingInvented, NothingMissed
<1> QED
  BY <1>2, <1>3, <1>4

LEMMA ReceiveStep ==
  ASSUME IInv, Receive
  PROVE  IInv'
<1> USE DEF IInv, Receive, world, history
<1>1. TypeOK'
  BY DEF TypeOK
<1>2. Shapes' /\ Window' /\ Goroutines' /\ TrueResults'
  BY DEF Shapes, Window, Goroutines, TrueResults, TrueResult
<1>3. NothingInvented' /\ NothingMissed'
  BY DEF NothingInvented, NothingMissed
<1> QED
  BY <1>1, <1>2, <1>3

(* The collector has a result of each cluster of its copy, and makes the   *)
(* targets of those that are no errors.                                    *)
LEMMA ReportStep ==
  ASSUME IInv, Report
  PROVE  IInv'
<1> USE DEF IInv
<1> DEFINE hidden == IF kind = "topics" THEN Internal ELSE {}
<1>1. /\ received = clusters
      /\ clusters \subseteq Clusters
      /\ \A c \in clusters : goroutine[c] = "none"
  BY AllReceivedMeansAll DEF Report, TypeOK, Shapes
<1>2. /\ running' = FALSE
      /\ UNCHANGED <<kind, registered, existing, controller, clusters, goroutine,
                     result, resultChan, received, seen, lasting, ruled, changes>>
  BY DEF Report, world, history
<1>3. /\ report'.failed <=> Errors = clusters /\ clusters # {}
      /\ report'.targets = IF Errors = clusters /\ clusters # {} THEN {}
                           ELSE UNION {Targets(c) : c \in clusters \ Errors}
  BY <1>1 DEF Report
<1>4. \A t \in report'.targets :
        \E c \in clusters \ Errors :
          \E object \in result[c].found \ hidden :
            t = toBrokerTarget(c, object)
  BY <1>3 DEF Targets
<1>5. TypeOK'
  BY <1>1, <1>2, <1>4 DEF TypeOK, toBrokerTarget
<1>6. Shapes' /\ Window' /\ TrueResults'
  BY <1>2 DEF Shapes, Window, TrueResults, TrueResult
<1>7. Goroutines'
  BY <1>1, <1>2 DEF Goroutines
<1>8. \A c \in clusters \ Errors : TrueResult(c) /\ goroutine[c] # "metadata" /\ ~result[c].err
  BY <1>1 DEF TrueResults, Errors
<1>9. NothingInvented'
  <2> SUFFICES ASSUME NEW t \in report'.targets
               PROVE  /\ t.object \in seen[t.cluster] \ hidden
                      /\ t.isController => t.object \in ruled[t.cluster]
    BY <1>2 DEF NothingInvented, Reported, Leaders
  <2>1. PICK c \in clusters \ Errors :
          \E object \in result[c].found \ hidden : t = toBrokerTarget(c, object)
    BY <1>4
  <2>2. PICK object \in result[c].found \ hidden : t = toBrokerTarget(c, object)
    BY <2>1
  <2>3. /\ t.cluster = c /\ t.object = object
        /\ t.isController <=> kind = "brokers" /\ object = result[c].controller
    BY <2>2 DEF toBrokerTarget
  <2> QED
    BY <1>8, <2>2, <2>3 DEF TrueResult
<1>10. NothingMissed'
  <2> SUFFICES ASSUME NEW c \in clusters, ~result[c].err
               PROVE  /\ ~report'.failed
                      /\ result[c].partial \/ lasting[c] \ hidden \subseteq Reported(c)'
    BY <1>1, <1>2 DEF NothingMissed
  <2>1. c \in clusters \ Errors /\ Errors # clusters
    BY <1>1 DEF Errors
  <2>2. ASSUME NEW object \in result[c].found \ hidden
        PROVE  object \in Reported(c)'
    <3> DEFINE t == toBrokerTarget(c, object)
    <3>1. t \in Targets(c)
      BY DEF Targets
    <3>2. t \in report'.targets
      BY <1>3, <2>1, <3>1
    <3>3. t.cluster = c /\ t.object = object
      BY DEF toBrokerTarget
    <3> HIDE DEF t
    <3> QED
      BY <3>2, <3>3 DEF Reported
  <2> QED
    BY <1>3, <1>8, <2>1, <2>2 DEF TrueResult
<1> QED
  BY <1>5, <1>6, <1>7, <1>9, <1>10

LEMMA RegisterStep ==
  ASSUME IInv, RegisterCluster
  PROVE  IInv'
<1> USE DEF IInv, RegisterCluster, run, history
<1>1. TypeOK'
  BY DEF TypeOK
<1>2. Shapes' /\ Window' /\ Goroutines' /\ TrueResults'
  BY DEF Shapes, Window, Goroutines, TrueResults, TrueResult
<1>3. NothingInvented' /\ NothingMissed'
  BY DEF NothingInvented, NothingMissed
<1> QED
  BY <1>1, <1>2, <1>3

(* What comes or goes during the run makes more seen and less lasting. *)
LEMMA ObjectStep ==
  ASSUME IInv, ObjectChanges
  PROVE  IInv'
<1> USE DEF IInv
<1>1. /\ running
      /\ UNCHANGED <<kind, registered, controller, running, clusters, goroutine,
                     result, resultChan, received, report, ruled>>
      /\ changes \in Int /\ changes < MaxChanges /\ changes' = changes + 1
  BY DEF ObjectChanges, Changes, run, TypeOK
<1>2. existing' \in [Clusters -> SUBSET Objects]
  BY DEF ObjectChanges, Shapes
<1>3. /\ seen' = [c \in Clusters |-> seen[c] \cup existing'[c]]
      /\ lasting' = [c \in Clusters |-> lasting[c] \cap existing'[c]]
  BY DEF ObjectChanges
<1>4. TypeOK'
  BY <1>1, DiscoveryAssumption DEF TypeOK
<1>5. Shapes'
  BY <1>1, <1>2, <1>3 DEF Shapes
<1>6. \A c \in Clusters : /\ seen[c] \subseteq seen'[c]
                          /\ lasting'[c] \subseteq lasting[c]
  BY <1>3
<1>7. Window' /\ Goroutines'
  BY <1>1, <1>3 DEF Window, Goroutines
<1>8. TrueResults'
  BY <1>1, <1>6 DEF TrueResults, TrueResult, Shapes
<1>9. NothingInvented' /\ NothingMissed'
  BY <1>1 DEF NothingInvented, NothingMissed
<1> QED
  BY <1>4, <1>5, <1>7, <1>8, <1>9

LEMMA ControllerStep ==
  ASSUME IInv, ControllerChanges
  PROVE  IInv'
<1> USE DEF IInv
<1>1. /\ running
      /\ UNCHANGED <<kind, registered, existing, running, clusters, goroutine,
                     result, resultChan, received, report, seen, lasting>>
      /\ changes \in Int /\ changes < MaxChanges /\ changes' = changes + 1
  BY DEF ControllerChanges, Changes, run, TypeOK
<1>2. PICK c \in clusters, object \in Objects \cup {NoController} :
        /\ controller' = [controller EXCEPT ![c] = object]
        /\ ruled' = [ruled EXCEPT ![c] = @ \cup {object}]
  BY DEF ControllerChanges
<1>3. TypeOK'
  BY <1>1, DiscoveryAssumption DEF TypeOK
<1>4. Shapes'
  BY <1>1, <1>2 DEF Shapes
<1>5. \A d \in Clusters : ruled[d] \subseteq ruled'[d]
  BY <1>2 DEF Shapes
<1>6. Window' /\ Goroutines'
  BY <1>1, <1>2 DEF Window, Goroutines, Shapes
<1>7. TrueResults'
  BY <1>1, <1>5 DEF TrueResults, TrueResult, Shapes
<1>8. NothingInvented' /\ NothingMissed'
  BY <1>1 DEF NothingInvented, NothingMissed
<1> QED
  BY <1>3, <1>4, <1>6, <1>7, <1>8

LEMMA Inductive ==
  ASSUME IInv, [Next]_vars
  PROVE  IInv'
<1>1. CASE DiscoverTargets
  BY <1>1, RunBegins
<1>2. ASSUME NEW c \in Clusters, Goroutine(c)
      PROVE  IInv'
  BY <1>2, ListStep, DescribeGroupsStep, BrokerMetadataStep, FailsStep, SendStep
     DEF Goroutine
<1>3. CASE Collector
  BY <1>3, ReceiveStep, ReportStep DEF Collector
<1>4. CASE RegisterCluster
  BY <1>4, RegisterStep
<1>5. CASE ObjectChanges
  BY <1>5, ObjectStep
<1>6. CASE ControllerChanges
  BY <1>6, ControllerStep
<1>7. CASE UNCHANGED vars
  BY <1>7 DEF vars, world, run, history, IInv, TypeOK, Shapes, Window, Goroutines,
              TrueResults, TrueResult, NothingInvented, NothingMissed, Reported, Leaders
<1> QED
  BY <1>1, <1>2, <1>3, <1>4, <1>5, <1>6, <1>7 DEF Next

LEMMA Invariance == Spec => []IInv
<1>1. Init => IInv
  BY Initially
<1>2. IInv /\ [Next]_vars => IInv'
  BY Inductive
<1> QED
  BY <1>1, <1>2, PTL DEF Spec

(* Every variable has a value the program can give it; a goroutine sends   *)
(* its result once, for any number of clusters.                            *)
THEOREM TypeCorrect == Spec => []TypeOK
<1>1. IInv => TypeOK
  BY DEF IInv
<1> QED
  BY <1>1, Invariance, PTL

(* What the three DiscoverTargets report was there during the run, in the  *)
(* cluster whose name it has, and a reported controller was one during the *)
(* run, for any clusters and objects and whatever changes in between.      *)
THEOREM ReportsAreTrue == Spec => []NothingInvented
<1>1. IInv => NothingInvented
  BY DEF IInv
<1> QED
  BY <1>1, Invariance, PTL

(* They miss nothing a cluster that answered had all the time, and fail    *)
(* only if no cluster answered; counting as many results as the copy has   *)
(* clusters is as good as waiting for each of them.                        *)
THEOREM ReportsAreComplete == Spec => []NothingMissed
<1>1. IInv => NothingMissed
  BY DEF IInv
<1> QED
  BY <1>1, Invariance, PTL

================================================================================
