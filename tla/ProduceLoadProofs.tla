--------------------------- MODULE ProduceLoadProofs ---------------------------
(***************************************************************************)
(* Proofs about ProduceLoad, for every number of workers, every parameter  *)
(* of the action and every combination of broker states and faults.        *)
(***************************************************************************)
EXTENDS ProduceLoad, FiniteSetTheorems, TLAPS

(* The workers in a given state. *)
In(f, s) == {v \in Workers : f[v] = s}

(* Sets of workers are finite: their number is a natural number, at most   *)
(* MaxConcurrent.                                                          *)
LEMMA WorkersFinite ==
  /\ MaxConcurrent \in Nat \ {0}
  /\ \A S \in SUBSET Workers :
       /\ IsFiniteSet(S)
       /\ Cardinality(S) \in Nat
       /\ Cardinality(S) <= MaxConcurrent
<1>1. IsFiniteSet(Workers) /\ Workers # {}
  BY WorkersAssumption
<1>2. MaxConcurrent \in Nat /\ MaxConcurrent # 0
  BY <1>1, FS_CardinalityType, FS_EmptySet DEF MaxConcurrent
<1>3. ASSUME NEW S \in SUBSET Workers
      PROVE  IsFiniteSet(S) /\ Cardinality(S) \in Nat /\ Cardinality(S) <= MaxConcurrent
  <2>1. IsFiniteSet(S) /\ Cardinality(S) <= Cardinality(Workers)
    BY <1>1, FS_Subset
  <2>2. Cardinality(S) \in Nat
    BY <2>1, FS_CardinalityType
  <2> QED
    BY <2>1, <2>2 DEF MaxConcurrent
<1> QED
  BY <1>2, <1>3

Moved(f, w, to) == [f EXCEPT ![w] = to]

(* A worker that moves from one state to another is one less in the first, *)
(* one more in the second, and changes no other number.                    *)
LEMMA MoveCounts ==
  ASSUME NEW f \in [Workers -> WorkerStates], NEW w \in Workers,
         NEW to \in WorkerStates, to # f[w]
  PROVE  /\ Cardinality(In(Moved(f, w, to), to)) = Cardinality(In(f, to)) + 1
         /\ Cardinality(In(Moved(f, w, to), f[w])) = Cardinality(In(f, f[w])) - 1
         /\ Cardinality(In(f, f[w])) >= 1
         /\ \A s : s # to /\ s # f[w] => In(Moved(f, w, to), s) = In(f, s)
<1>2. \A s : In(f, s) \in SUBSET Workers /\ In(Moved(f, w, to), s) \in SUBSET Workers
  BY DEF In, Moved
<1>3. \A s : IsFiniteSet(In(f, s)) /\ IsFiniteSet(In(Moved(f, w, to), s))
             /\ Cardinality(In(f, s)) \in Nat /\ Cardinality(In(Moved(f, w, to), s)) \in Nat
  BY <1>2, WorkersFinite
<1>4. In(Moved(f, w, to), to) = In(f, to) \cup {w} /\ w \notin In(f, to)
  BY DEF In, Moved
<1>5. Cardinality(In(Moved(f, w, to), to)) = Cardinality(In(f, to)) + 1
  BY <1>3, <1>4, FS_AddElement
<1>6. In(f, f[w]) = In(Moved(f, w, to), f[w]) \cup {w} /\ w \notin In(Moved(f, w, to), f[w])
  BY DEF In, Moved
<1>7. Cardinality(In(f, f[w])) = Cardinality(In(Moved(f, w, to), f[w])) + 1
  BY <1>3, <1>6, FS_AddElement
<1>8. \A s : s # to /\ s # f[w] => In(Moved(f, w, to), s) = In(f, s)
  BY DEF In, Moved
<1>9. Cardinality(In(f, f[w])) \in Nat /\ Cardinality(In(Moved(f, w, to), f[w])) \in Nat
  BY <1>3
<1>10. Cardinality(In(Moved(f, w, to), f[w])) = Cardinality(In(f, f[w])) - 1
       /\ Cardinality(In(f, f[w])) >= 1
  BY <1>7, <1>9
<1> QED
  BY <1>5, <1>8, <1>10

-------------------------------------------------------------------------------
(* Type correctness.                                                       *)

LEMMA TypeInit == Init => TypeOK
<1>1. MaxConcurrent \in Nat \ {0}
  BY WorkersFinite
<1>2. ASSUME Init PROVE jobs \in 0..MaxConcurrent
  BY <1>1, <1>2 DEF Init
<1>3. ASSUME Init
      PROVE  /\ stored \in BOOLEAN /\ cancelled \in BOOLEAN
             /\ ticking \in BOOLEAN /\ completed \in BOOLEAN
  BY <1>3 DEF Init
<1>4. ASSUME Init
      PROVE  /\ phase \in Phases /\ scheduler \in SchedulerStates
             /\ worker \in [Workers -> WorkerStates]
  BY <1>4 DEF Init, Phases, WorkerStates, SchedulerStates
<1>5. ASSUME Init
      PROVE  /\ requestCounter \in Nat /\ requestSuccessCounter \in Nat
             /\ broker \in BrokerStates /\ requestCount \in Nat
             /\ verdict \in {"none", "success", "failure"}
  BY <1>5 DEF Init
<1> QED
  BY <1>2, <1>3, <1>4, <1>5 DEF TypeOK

LEMMA TypeStep == TypeOK /\ [Next]_vars => TypeOK'
<1> SUFFICES ASSUME TypeOK, [Next]_vars PROVE TypeOK'
  OBVIOUS
<1>w. MaxConcurrent \in Nat \ {0}
  BY WorkersFinite
<1> USE DEF TypeOK, Phases, WorkerStates, SchedulerStates, agentVars, poolVars, counters
<1>1. CASE PrepareRejected
  BY <1>1 DEF PrepareRejected
<1>2. CASE Prepare
  BY <1>2 DEF Prepare
<1>3. CASE StartPanics
  BY <1>3 DEF StartPanics
<1>4. CASE Start
  BY <1>4, <1>w DEF Start
<1>5. CASE Status
  BY <1>5 DEF Status
<1>6. CASE Stop
  BY <1>6 DEF Stop
<1>7. CASE StopWithoutData
  BY <1>7 DEF StopWithoutData
<1>8. CASE StopReadsRequests
  BY <1>8 DEF StopReadsRequests
<1>9. CASE StopReadsSuccesses
  BY <1>9 DEF StopReadsSuccesses
<1>10. CASE Tick
  BY <1>10 DEF Tick
<1>11. CASE Send
  BY <1>11, <1>w DEF Send
<1>12. CASE SchedulerExits
  BY <1>12 DEF SchedulerExits
<1>13. ASSUME NEW w \in Workers, Worker(w) PROVE TypeOK'
  <2>1. CASE WorkerStarts(w)
    BY <2>1 DEF WorkerStarts, MoveWorker
  <2>2. CASE WorkerFails(w)
    BY <2>2 DEF WorkerFails, MoveWorker
  <2>3. CASE Receive(w)
    BY <2>3, <1>w DEF Receive, MoveWorker
  <2>4. CASE WorkerExits(w)
    BY <2>4 DEF WorkerExits, MoveWorker
  <2>5. CASE BeginProduce(w)
    BY <2>5 DEF BeginProduce, MoveWorker
  <2>6. CASE ProduceSucceeds(w)
    BY <2>6 DEF ProduceSucceeds, MoveWorker
  <2>7. CASE ProduceErrs(w)
    BY <2>7 DEF ProduceErrs, MoveWorker
  <2>8. CASE CountSuccess(w)
    BY <2>8 DEF CountSuccess, MoveWorker
  <2> QED
    BY <1>13, <2>1, <2>2, <2>3, <2>4, <2>5, <2>6, <2>7, <2>8 DEF Worker
<1>14. CASE BrokerChanges
  BY <1>14 DEF BrokerChanges
<1>15. CASE Restart
  <2>1. jobs' \in 0..MaxConcurrent
    BY <1>15, <1>w DEF Restart
  <2>2. worker' \in [Workers -> WorkerStates] /\ scheduler' \in SchedulerStates
    BY <1>15 DEF Restart
  <2>3. phase' \in Phases /\ UNCHANGED <<requestCount, verdict, completed, cancelled, counters, broker>>
    BY <1>15 DEF Restart
  <2>4. stored' \in BOOLEAN /\ ticking' \in BOOLEAN
    BY <1>15 DEF Restart
  <2> QED
    BY <2>1, <2>2, <2>3, <2>4
<1>16. CASE UNCHANGED vars
  BY <1>16 DEF vars
<1> HIDE DEF TypeOK, Phases, WorkerStates, SchedulerStates, agentVars, poolVars, counters
<1> QED
  BY <1>1, <1>2, <1>3, <1>4, <1>5, <1>6, <1>7, <1>8, <1>9, <1>10, <1>11, <1>12,
     <1>13, <1>14, <1>15, <1>16 DEF Next, Agent, Scheduler, Finished, vars

(* The variables keep their types; the job channel never exceeds its       *)
(* capacity, MaxConcurrent.                                                *)
THEOREM TypeCorrect == Spec => []TypeOK
  BY TypeInit, TypeStep, PTL DEF Spec

-------------------------------------------------------------------------------
(* The safety invariants.                                                  *)

(* A step either leaves workers and counters alone, or sets all workers to *)
(* the same idle state, or is a step of one worker.                        *)
LEMMA StepShape ==
  ASSUME [Next]_vars
  PROVE  \/ worker' = worker /\ UNCHANGED counters
         \/ /\ UNCHANGED counters
            /\ \/ Prepare /\ worker' = [w \in Workers |-> "starting"]
               \/ Restart /\ worker' = [w \in Workers |-> "absent"]
         \/ \E w \in Workers : Worker(w)
<1> USE DEF agentVars, poolVars, counters
<1>1. CASE PrepareRejected \/ StartPanics \/ Start \/ Status \/ Stop
           \/ StopWithoutData \/ StopReadsRequests \/ StopReadsSuccesses
  BY <1>1 DEF PrepareRejected, StartPanics, Start, Status, Stop, StopWithoutData,
              StopReadsRequests, StopReadsSuccesses
<1>2. CASE Prepare \/ Restart
  BY <1>2 DEF Prepare, Restart
<1>3. CASE Scheduler \/ BrokerChanges \/ UNCHANGED vars
  BY <1>3 DEF Scheduler, Tick, Send, SchedulerExits, BrokerChanges, vars
<1> HIDE DEF agentVars, poolVars, counters
<1> QED
  BY <1>1, <1>2, <1>3 DEF Next, Agent, Finished

(* Workers that are not producing, or do not hold a counted success,       *)
(* contribute nothing.                                                     *)
LEMMA NobodyInState ==
  ASSUME NEW c, NEW s, c # s
  PROVE  In([w \in Workers |-> c], s) = {} /\ Cardinality(In([w \in Workers |-> c], s)) = 0
  BY FS_EmptySet DEF In

(* What a move of one worker does to the numbers that the invariants use.  *)
LEMMA MoveEffect ==
  ASSUME TypeOK, NEW w \in Workers,
         NEW from \in WorkerStates, NEW to \in WorkerStates, from # to,
         MoveWorker(w, from, to)
  PROVE  /\ from # "producing" /\ to # "producing" => Producing' = Producing
         /\ from # "counted" /\ to # "counted" => Counted' = Counted
         /\ from # "received" /\ to # "received" => Received' = Received
         /\ to = "producing" => Cardinality(Producing') = Cardinality(Producing) + 1
         /\ to = "counted" => Cardinality(Counted') = Cardinality(Counted) + 1
         /\ to = "received" => Cardinality(Received') = Cardinality(Received) + 1
         /\ from = "producing" => Cardinality(Producing') = Cardinality(Producing) - 1
         /\ from = "counted" => Cardinality(Counted') = Cardinality(Counted) - 1
         /\ from = "received" => /\ Cardinality(Received') = Cardinality(Received) - 1
                                /\ Cardinality(Received) >= 1
         /\ from = "producing" => Cardinality(Producing) >= 1
<1>1. /\ worker \in [Workers -> WorkerStates]
      /\ worker[w] = from
      /\ worker' = [worker EXCEPT ![w] = to]
  BY DEF TypeOK, MoveWorker
<1>2. /\ Cardinality(In(worker', to)) = Cardinality(In(worker, to)) + 1
      /\ Cardinality(In(worker', from)) = Cardinality(In(worker, from)) - 1
      /\ Cardinality(In(worker, from)) >= 1
      /\ \A s : s # to /\ s # from => In(worker', s) = In(worker, s)
  <2>1. to # worker[w] /\ worker' = Moved(worker, w, to)
    BY <1>1 DEF Moved
  <2>2. /\ Cardinality(In(Moved(worker, w, to), to)) = Cardinality(In(worker, to)) + 1
        /\ Cardinality(In(Moved(worker, w, to), worker[w])) = Cardinality(In(worker, worker[w])) - 1
        /\ Cardinality(In(worker, worker[w])) >= 1
        /\ \A s : s # to /\ s # worker[w] => In(Moved(worker, w, to), s) = In(worker, s)
    BY <1>1, <2>1, MoveCounts
  <2> QED
    BY <1>1, <2>1, <2>2
<1>3. /\ Producing = In(worker, "producing") /\ Producing' = In(worker', "producing")
      /\ Counted = In(worker, "counted") /\ Counted' = In(worker', "counted")
      /\ Received = In(worker, "received") /\ Received' = In(worker', "received")
  BY DEF Producing, Counted, Received, In
<1>4. /\ from # "producing" /\ to # "producing" => Producing' = Producing
      /\ from # "counted" /\ to # "counted" => Counted' = Counted
      /\ from # "received" /\ to # "received" => Received' = Received
  BY <1>2, <1>3, Zenon
<1>5. /\ to = "producing" => Cardinality(Producing') = Cardinality(Producing) + 1
      /\ to = "counted" => Cardinality(Counted') = Cardinality(Counted) + 1
      /\ to = "received" => Cardinality(Received') = Cardinality(Received) + 1
  BY <1>2, <1>3, Zenon
<1>6. /\ from = "producing" => /\ Cardinality(Producing') = Cardinality(Producing) - 1
                              /\ Cardinality(Producing) >= 1
      /\ from = "counted" => Cardinality(Counted') = Cardinality(Counted) - 1
      /\ from = "received" => /\ Cardinality(Received') = Cardinality(Received) - 1
                             /\ Cardinality(Received) >= 1
  BY <1>2, <1>3, Zenon
<1> QED
  BY <1>4, <1>5, <1>6, Zenon

(* A worker's step: how it changes the counters and the number of workers  *)
(* that produce or hold a counted success.                                 *)
LEMMA WorkerEffect ==
  ASSUME TypeOK, NEW w \in Workers, Worker(w)
  PROVE  \/ /\ UNCHANGED counters
            /\ Producing' = Producing
            /\ Counted' = Counted
         \/ /\ UNCHANGED counters
            /\ ~CheckEnded
            /\ Cardinality(Producing') = Cardinality(Producing) + 1
            /\ Counted' = Counted
         \/ /\ requestCounter' = requestCounter + 1
            /\ requestSuccessCounter' = requestSuccessCounter
            /\ Cardinality(Producing') = Cardinality(Producing) - 1
            /\ Cardinality(Counted') \in {Cardinality(Counted), Cardinality(Counted) + 1}
         \/ /\ requestCounter' = requestCounter
            /\ requestSuccessCounter' = requestSuccessCounter + 1
            /\ Producing' = Producing
            /\ Cardinality(Counted') = Cardinality(Counted) - 1
<1> USE DEF counters
<1>t. \A s \in {"starting", "failed", "idle", "received", "producing", "counted", "exited"} : s \in WorkerStates
  BY DEF WorkerStates
<1>1. CASE WorkerStarts(w)
  <2>1. MoveWorker(w, "starting", "idle")
    BY <1>1 DEF WorkerStarts
  <2> QED
    BY <1>1, <2>1, <1>t, MoveEffect DEF WorkerStarts
<1>2. CASE WorkerFails(w)
  <2>1. MoveWorker(w, "starting", "failed")
    BY <1>2 DEF WorkerFails
  <2> QED
    BY <1>2, <2>1, <1>t, MoveEffect DEF WorkerFails
<1>3. CASE Receive(w)
  <2>1. MoveWorker(w, "idle", "received")
    BY <1>3 DEF Receive
  <2> QED
    BY <1>3, <2>1, <1>t, MoveEffect DEF Receive
<1>4. CASE WorkerExits(w)
  <2>1. MoveWorker(w, "idle", "exited")
    BY <1>4 DEF WorkerExits
  <2> QED
    BY <1>4, <2>1, <1>t, MoveEffect DEF WorkerExits
<1>5. CASE BeginProduce(w) /\ CheckEnded
  <2>1. MoveWorker(w, "received", "idle")
    BY <1>5 DEF BeginProduce
  <2> QED
    BY <1>5, <2>1, <1>t, MoveEffect DEF BeginProduce
<1>6. CASE BeginProduce(w) /\ ~CheckEnded
  <2>1. MoveWorker(w, "received", "producing")
    BY <1>6 DEF BeginProduce
  <2> QED
    BY <1>6, <2>1, <1>t, MoveEffect DEF BeginProduce
<1>7. CASE ProduceSucceeds(w)
  <2>1. MoveWorker(w, "producing", "counted")
    BY <1>7 DEF ProduceSucceeds
  <2> QED
    BY <1>7, <2>1, <1>t, MoveEffect DEF ProduceSucceeds
<1>8. CASE ProduceErrs(w)
  <2>1. MoveWorker(w, "producing", "idle")
    BY <1>8 DEF ProduceErrs
  <2> QED
    BY <1>8, <2>1, <1>t, MoveEffect DEF ProduceErrs
<1>9. CASE CountSuccess(w)
  <2>1. MoveWorker(w, "counted", "idle")
    BY <1>9 DEF CountSuccess
  <2> QED
    BY <1>9, <2>1, <1>t, MoveEffect DEF CountSuccess
<1> QED
  BY <1>1, <1>2, <1>3, <1>4, <1>5, <1>6, <1>7, <1>8, <1>9 DEF Worker

(* The inductive invariant.                                                *)
IInv == TypeOK /\ OvershootBound /\ SuccessesAreRequests /\ NoGoroutineLeaks /\ LifecycleOrder

LEMMA InitIInv == Init => IInv
<1> SUFFICES ASSUME Init PROVE IInv
  OBVIOUS
<1>1. worker = [w \in Workers |-> "absent"]
  BY DEF Init
<1>2. Producing = In(worker, "producing") /\ Counted = In(worker, "counted")
  BY DEF Producing, Counted, In
<1>3. Producing = {} /\ Cardinality(Counted) = 0
  BY <1>1, <1>2, NobodyInState
<1>4. OvershootBound /\ SuccessesAreRequests
  BY <1>3 DEF Init, OvershootBound, SuccessesAreRequests
<1>5. NoGoroutineLeaks /\ LifecycleOrder
  BY <1>1 DEF Init, NoGoroutineLeaks, LifecycleOrder, Gone
<1> QED
  BY <1>4, <1>5, TypeInit DEF IInv

(* The number of requests counted and in flight: a worker that begins one  *)
(* has seen the counter below NumberOfRecords, and at most MaxConcurrent   *)
(* workers are in flight then.                                             *)
LEMMA OvershootStep == TypeOK /\ OvershootBound /\ [Next]_vars => OvershootBound'
<1> SUFFICES ASSUME TypeOK, OvershootBound, [Next]_vars PROVE OvershootBound'
  OBVIOUS
<1>1. /\ MaxConcurrent \in Nat \ {0} /\ NumberOfRecords \in Nat
      /\ requestCounter \in Nat /\ requestCounter' \in Nat
  BY WorkersFinite, RequestAssumption, TypeStep DEF TypeOK
<1>2. /\ Cardinality(Producing) \in Nat
      /\ Cardinality(Producing') \in Nat /\ Cardinality(Producing') <= MaxConcurrent
  BY WorkersFinite DEF Producing
<1>3. CASE worker' = worker /\ UNCHANGED counters
  BY <1>3 DEF OvershootBound, Producing, counters
<1>4. CASE /\ UNCHANGED counters
           /\ \/ Prepare /\ worker' = [w \in Workers |-> "starting"]
              \/ Restart /\ worker' = [w \in Workers |-> "absent"]
  <2>1. Producing' = In(worker', "producing")
    BY DEF Producing, In
  <2>2. Producing' = {}
    BY <1>4, <2>1, NobodyInState
  <2>3. Cardinality(Producing') = 0
    BY <2>2, FS_EmptySet
  <2> QED
    BY <1>1, <1>2, <1>4, <2>2, <2>3 DEF OvershootBound, counters
<1>5. ASSUME NEW w \in Workers, Worker(w)
      PROVE  OvershootBound'
  <2> SUFFICES ASSUME FixedAmount
               PROVE  \/ requestCounter' = 0 /\ Producing' = {}
                      \/ requestCounter' + Cardinality(Producing')
                           <= NumberOfRecords + MaxConcurrent - 1
    BY DEF OvershootBound
  <2>1. Producing = {} => Cardinality(Producing) = 0
    BY FS_EmptySet
  <2>2. CASE UNCHANGED counters /\ Producing' = Producing
    BY <2>2 DEF OvershootBound, counters
  <2>3. CASE UNCHANGED counters /\ ~CheckEnded
    BY <1>1, <1>2, <2>3 DEF CheckEnded, counters
  <2>4. CASE /\ requestCounter' = requestCounter + 1
             /\ Cardinality(Producing') = Cardinality(Producing) - 1
    BY <1>1, <1>2, <2>1, <2>4 DEF OvershootBound
  <2>5. CASE requestCounter' = requestCounter /\ Producing' = Producing
    BY <2>5 DEF OvershootBound
  <2> QED
    BY <1>5, <2>2, <2>3, <2>4, <2>5, WorkerEffect
<1> QED
  BY <1>3, <1>4, <1>5, StepShape

LEMMA SuccessStep == TypeOK /\ SuccessesAreRequests /\ [Next]_vars => SuccessesAreRequests'
<1> SUFFICES ASSUME TypeOK, SuccessesAreRequests, [Next]_vars PROVE SuccessesAreRequests'
  OBVIOUS
<1>1. /\ requestCounter \in Nat /\ requestSuccessCounter \in Nat
      /\ Cardinality(Counted) \in Nat /\ Cardinality(Counted') \in Nat
  BY WorkersFinite DEF TypeOK, Counted
<1>2. CASE worker' = worker /\ UNCHANGED counters
  BY <1>2 DEF SuccessesAreRequests, Counted, counters
<1>3. CASE /\ UNCHANGED counters
           /\ \/ Prepare /\ worker' = [w \in Workers |-> "starting"]
              \/ Restart /\ worker' = [w \in Workers |-> "absent"]
  <2>1. Counted' = In(worker', "counted")
    BY DEF Counted, In
  <2>2. Cardinality(Counted') = 0
    BY <1>3, <2>1, NobodyInState
  <2> QED
    BY <1>1, <1>3, <2>2 DEF SuccessesAreRequests, counters
<1>4. ASSUME NEW w \in Workers, Worker(w)
      PROVE  SuccessesAreRequests'
  BY <1>1, <1>4, WorkerEffect DEF SuccessesAreRequests, counters
<1> QED
  BY <1>2, <1>3, <1>4, StepShape

(* Goroutines come to life only under an entry in the map, and the entry   *)
(* goes only together with the cancellation or with all goroutines.        *)
LEMMA LeakStep == TypeOK /\ NoGoroutineLeaks /\ [Next]_vars => NoGoroutineLeaks'
<1> SUFFICES ASSUME TypeOK, NoGoroutineLeaks, [Next]_vars PROVE NoGoroutineLeaks'
  OBVIOUS
<1> USE DEF NoGoroutineLeaks, Gone, agentVars, poolVars, counters
<1>1. CASE PrepareRejected \/ StartPanics \/ StopWithoutData \/ StopReadsRequests
           \/ StopReadsSuccesses \/ BrokerChanges \/ UNCHANGED vars
  BY <1>1 DEF PrepareRejected, StartPanics, StopWithoutData, StopReadsRequests,
              StopReadsSuccesses, BrokerChanges, vars
<1>2. CASE Prepare
  BY <1>2 DEF Prepare
<1>3. CASE Start
  BY <1>3 DEF Start
<1>4. CASE Status \/ Stop
  BY <1>4 DEF Status, Stop
<1>5. CASE Tick \/ Send \/ SchedulerExits
  BY <1>5 DEF Tick, Send, SchedulerExits
<1>6. ASSUME NEW w \in Workers, Worker(w)
      PROVE  NoGoroutineLeaks'
  <2>1. stored' = stored /\ cancelled' = cancelled /\ worker[w] \notin Gone
    BY <1>6 DEF Worker, WorkerStarts, WorkerFails, Receive, WorkerExits, BeginProduce,
                ProduceSucceeds, ProduceErrs, CountSuccess, MoveWorker
  <2> QED
    BY <2>1
<1>7. CASE Restart
  BY <1>7 DEF Restart
<1> HIDE DEF NoGoroutineLeaks, Gone, agentVars, poolVars, counters
<1> QED
  BY <1>1, <1>2, <1>3, <1>4, <1>5, <1>6, <1>7 DEF Next, Agent, Scheduler, Finished

LEMMA OrderStep == TypeOK /\ LifecycleOrder /\ [Next]_vars => LifecycleOrder'
<1> SUFFICES ASSUME TypeOK, LifecycleOrder, [Next]_vars PROVE LifecycleOrder'
  OBVIOUS
<1> USE DEF LifecycleOrder, agentVars, poolVars, counters
<1>1. CASE PrepareRejected \/ StartPanics \/ StopWithoutData \/ StopReadsRequests
           \/ StopReadsSuccesses \/ BrokerChanges \/ UNCHANGED vars
  BY <1>1 DEF PrepareRejected, StartPanics, StopWithoutData, StopReadsRequests,
              StopReadsSuccesses, BrokerChanges, vars
<1>2. CASE Prepare \/ Start
  BY <1>2 DEF Prepare, Start
<1>3. CASE Status \/ Stop
  BY <1>3 DEF Status, Stop
<1>4. CASE Tick \/ Send \/ SchedulerExits
  BY <1>4 DEF Tick, Send, SchedulerExits
<1>5. ASSUME NEW w \in Workers, Worker(w)
      PROVE  LifecycleOrder'
  <2>1. /\ UNCHANGED <<phase, cancelled, ticking, scheduler>>
        /\ worker[w] # "absent"
    BY <1>5 DEF Worker, WorkerStarts, WorkerFails, Receive, WorkerExits, BeginProduce,
                ProduceSucceeds, ProduceErrs, CountSuccess, MoveWorker
  <2>2. phase # "new"
    BY <2>1
  <2> QED
    BY <2>1, <2>2
<1>6. CASE Restart
  BY <1>6 DEF Restart
<1> HIDE DEF LifecycleOrder, agentVars, poolVars, counters
<1> QED
  BY <1>1, <1>2, <1>3, <1>4, <1>5, <1>6 DEF Next, Agent, Scheduler, Finished

LEMMA InvariantHolds == Spec => []IInv
<1>1. Init => IInv
  BY InitIInv
<1>2. IInv /\ [Next]_vars => IInv'
  BY TypeStep, OvershootStep, SuccessStep, LeakStep, OrderStep DEF IInv
<1> QED
  BY <1>1, <1>2, PTL DEF Spec

(* However the workers interleave, a fixed amount execution makes fewer    *)
(* than NumberOfRecords + MaxConcurrent requests.                          *)
THEOREM Overshoot == Spec => []OvershootBound
<1>1. IInv => OvershootBound
  BY DEF IInv
<1> QED
  BY <1>1, InvariantHolds, PTL

(* Successes never outnumber requests, whenever the two are read together. *)
THEOREM Successes == Spec => []SuccessesAreRequests
<1>1. IInv => SuccessesAreRequests
  BY DEF IInv
<1> QED
  BY <1>1, InvariantHolds, PTL

(* No worker or scheduler outlives the entry that Stop needs to end it     *)
(* without having been cancelled.                                          *)
THEOREM NoLeaks == Spec => []NoGoroutineLeaks
<1>1. IInv => NoGoroutineLeaks
  BY DEF IInv
<1> QED
  BY <1>1, InvariantHolds, PTL

(* Before each call the execution is where the calls so far have left it. *)
THEOREM Order == Spec => []LifecycleOrder
<1>1. IInv => LifecycleOrder
  BY DEF IInv
<1> QED
  BY <1>1, InvariantHolds, PTL

-------------------------------------------------------------------------------
(* The execution implements LoadPromise.                                   *)

(* The mapped values are natural numbers before and after every step.      *)
LEMMA GrantTypes ==
  ASSUME TypeOK, TypeOK'
  PROVE  /\ jobs \in Nat /\ jobs' \in Nat
         /\ Cardinality(Received) \in Nat /\ Cardinality(Received') \in Nat
         /\ Cardinality(Producing) \in Nat /\ Cardinality(Producing') \in Nat
         /\ Cardinality(Producing') <= MaxConcurrent
         /\ MaxConcurrent \in Nat
         /\ Grants \in Nat /\ Grants' \in Nat
<1>1. /\ Received \in SUBSET Workers /\ Producing \in SUBSET Workers
      /\ Received' \in SUBSET Workers /\ Producing' \in SUBSET Workers
  BY DEF Received, Producing
<1>2. /\ Cardinality(Received) \in Nat /\ Cardinality(Received') \in Nat
      /\ Cardinality(Producing) \in Nat /\ Cardinality(Producing') \in Nat
      /\ Cardinality(Producing') <= MaxConcurrent
      /\ MaxConcurrent \in Nat
  BY <1>1, WorkersFinite
<1>3. MaxConcurrent' = MaxConcurrent
  BY DEF MaxConcurrent
<1>4. jobs \in Nat /\ jobs' \in Nat
  BY <1>2, <1>3 DEF TypeOK
<1> QED
  BY <1>2, <1>4 DEF Grants

LEMMA PromiseInit == Init => Promise!Init
<1> SUFFICES ASSUME Init PROVE Promise!Init
  OBVIOUS
<1>1. /\ Received = In([w \in Workers |-> "absent"], "received")
      /\ Producing = In([w \in Workers |-> "absent"], "producing")
  BY DEF Init, Received, Producing, In
<1>2. Cardinality(Received) = 0 /\ Cardinality(Producing) = 0
  BY <1>1, NobodyInState
<1> QED
  BY <1>2 DEF Init, Promise!Init, Grants

(* Nothing happens to the abstract state.                                  *)
LEMMA Stutter ==
  ASSUME UNCHANGED <<cancelled, requestCounter>>, Grants' = Grants,
         Cardinality(Producing') = Cardinality(Producing)
  PROVE  UNCHANGED Promise!vars
  BY DEF Promise!vars

LEMMA WorkerRefines ==
  ASSUME TypeOK, TypeOK', NEW w \in Workers, Worker(w)
  PROVE  [Promise!Next]_(Promise!vars)
<1>t. /\ \A s \in {"starting", "failed", "idle", "received", "producing", "counted", "exited"} :
            s \in WorkerStates
      /\ requestCounter \in Nat
  BY DEF WorkerStates, TypeOK
<1> USE DEF counters
<1>1. CASE WorkerStarts(w) \/ WorkerFails(w) \/ WorkerExits(w) \/ CountSuccess(w)
  <2>1. \E from, to \in WorkerStates \ {"received", "producing"} :
           from # to /\ MoveWorker(w, from, to)
    BY <1>1, <1>t DEF WorkerStarts, WorkerFails, WorkerExits, CountSuccess
  <2>2. Received' = Received /\ Producing' = Producing
    BY <2>1, MoveEffect
  <2>3. UNCHANGED <<cancelled, requestCounter, jobs, scheduler>>
    BY <1>1 DEF WorkerStarts, WorkerFails, WorkerExits, CountSuccess
  <2> QED
    BY <2>2, <2>3, Stutter DEF Grants
<1>2. CASE Receive(w)
  <2>1. MoveWorker(w, "idle", "received")
    BY <1>2 DEF Receive
  <2>2. /\ Cardinality(Received') = Cardinality(Received) + 1
        /\ Producing' = Producing
    BY <1>t, <2>1, MoveEffect
  <2>3. jobs' = jobs - 1 /\ UNCHANGED <<cancelled, requestCounter, scheduler>>
    BY <1>2 DEF Receive
  <2>4. Grants' = Grants
    BY <2>2, <2>3, GrantTypes DEF Grants
  <2> QED
    BY <2>2, <2>3, <2>4, Stutter
<1>3. CASE BeginProduce(w)
  <2>1. UNCHANGED <<cancelled, requestCounter, jobs, scheduler>>
    BY <1>3 DEF BeginProduce
  <2>2. CASE CheckEnded
    <3>1. MoveWorker(w, "received", "idle")
      BY <1>3, <2>2 DEF BeginProduce
    <3>2. /\ Cardinality(Received') = Cardinality(Received) - 1
          /\ Cardinality(Received) >= 1
          /\ Producing' = Producing
      BY <1>t, <3>1, MoveEffect
    <3>3. Grants' = Grants - 1 /\ Grants > 0
      BY <2>1, <3>2, GrantTypes DEF Grants
    <3> QED
      BY <2>1, <2>2, <3>2, <3>3 DEF CheckEnded, Promise!Next, Promise!Discard, Promise!Exhausted
  <2>3. CASE ~CheckEnded
    <3>1. MoveWorker(w, "received", "producing")
      BY <1>3, <2>3 DEF BeginProduce
    <3>2. /\ Cardinality(Received') = Cardinality(Received) - 1
          /\ Cardinality(Received) >= 1
          /\ Cardinality(Producing') = Cardinality(Producing) + 1
      BY <1>t, <3>1, MoveEffect
    <3>3. Grants' = Grants - 1 /\ Grants > 0
      BY <2>1, <3>2, GrantTypes DEF Grants
    <3>4. Cardinality(Producing) < MaxConcurrent
      BY <3>2, GrantTypes
    <3> QED
      BY <2>1, <2>3, <3>2, <3>3, <3>4 DEF CheckEnded, Promise!Next, Promise!Begin, Promise!Exhausted
  <2> QED
    BY <2>2, <2>3
<1>4. CASE ProduceSucceeds(w) \/ ProduceErrs(w)
  <2>1. \E to \in WorkerStates \ {"received", "producing"} : MoveWorker(w, "producing", to)
    BY <1>4, <1>t DEF ProduceSucceeds, ProduceErrs
  <2>2. /\ Cardinality(Producing') = Cardinality(Producing) - 1
        /\ Cardinality(Producing) >= 1
        /\ Received' = Received
    BY <1>t, <2>1, MoveEffect
  <2>3. UNCHANGED <<cancelled, jobs, scheduler>> /\ requestCounter' = requestCounter + 1
    BY <1>4 DEF ProduceSucceeds, ProduceErrs
  <2> QED
    BY <2>2, <2>3, GrantTypes DEF Grants, Promise!Next, Promise!Count
<1> HIDE DEF counters
<1> QED
  BY <1>1, <1>2, <1>3, <1>4 DEF Worker

LEMMA StepRefines ==
  ASSUME TypeOK, TypeOK', LifecycleOrder, [Next]_vars
  PROVE  [Promise!Next]_(Promise!vars)
<1> USE DEF agentVars, poolVars, counters
<1>1. CASE PrepareRejected \/ StartPanics \/ StopWithoutData \/ StopReadsRequests
           \/ StopReadsSuccesses \/ BrokerChanges \/ UNCHANGED vars
  <2>1. UNCHANGED <<cancelled, jobs, scheduler, worker, requestCounter>>
    BY <1>1 DEF PrepareRejected, StartPanics, StopWithoutData, StopReadsRequests,
                StopReadsSuccesses, BrokerChanges, vars
  <2> QED
    BY <2>1, Stutter DEF Grants, Received, Producing
<1>2. CASE Prepare
  <2>1. /\ UNCHANGED <<cancelled, jobs, scheduler, requestCounter>>
        /\ worker = [w \in Workers |-> "absent"]
        /\ worker' = [w \in Workers |-> "starting"]
    BY <1>2 DEF Prepare, LifecycleOrder
  <2>2. /\ Received = In(worker, "received") /\ Received' = In(worker', "received")
        /\ Producing = In(worker, "producing") /\ Producing' = In(worker', "producing")
    BY DEF Received, Producing, In
  <2>3. Received' = Received /\ Producing' = Producing
    BY <2>1, <2>2, NobodyInState
  <2> QED
    BY <2>1, <2>3, Stutter DEF Grants
<1>3. CASE Start
  <2>1. /\ UNCHANGED <<cancelled, worker, requestCounter>>
        /\ jobs' = jobs + 1
        /\ ~cancelled /\ scheduler # "sending" /\ scheduler' # "sending"
    BY <1>3 DEF Start, LifecycleOrder
  <2>2. Received' = Received /\ Producing' = Producing
    BY <2>1 DEF Received, Producing
  <2>3. Grants' = Grants + 1
    BY <2>1, <2>2, GrantTypes DEF Grants
  <2> QED
    BY <2>1, <2>2, <2>3 DEF Promise!Next, Promise!Grant
<1>4. CASE Status \/ Stop
  <2>1. UNCHANGED <<jobs, scheduler, worker, requestCounter>> /\ cancelled' = TRUE
    BY <1>4 DEF Status, Stop
  <2> QED
    BY <2>1 DEF Promise!Next, Promise!Close, Grants, Received, Producing
<1>5. CASE Tick
  <2>1. /\ UNCHANGED <<cancelled, worker, jobs, requestCounter>>
        /\ ~cancelled /\ scheduler # "sending" /\ scheduler' = "sending"
    BY <1>5 DEF Tick, LifecycleOrder
  <2>2. Received' = Received /\ Producing' = Producing
    BY <2>1 DEF Received, Producing
  <2>3. Grants' = Grants + 1
    BY <2>1, <2>2, GrantTypes DEF Grants
  <2> QED
    BY <2>1, <2>2, <2>3 DEF Promise!Next, Promise!Grant
<1>6. CASE Send
  <2>1. /\ UNCHANGED <<cancelled, worker, requestCounter>>
        /\ jobs' = jobs + 1 /\ scheduler = "sending" /\ scheduler' # "sending"
    BY <1>6 DEF Send
  <2>2. Received' = Received /\ Producing' = Producing
    BY <2>1 DEF Received, Producing
  <2>3. Grants' = Grants
    BY <2>1, <2>2, GrantTypes DEF Grants
  <2> QED
    BY <2>1, <2>2, <2>3, Stutter
<1>7. CASE SchedulerExits
  <2>1. /\ UNCHANGED <<cancelled, worker, jobs, requestCounter>>
        /\ cancelled /\ scheduler' # "sending"
    BY <1>7 DEF SchedulerExits
  <2>2. Received' = Received /\ Producing' = Producing
    BY <2>1 DEF Received, Producing
  <2>3. CASE scheduler = "sending"
    <3>1. Grants' = Grants - 1 /\ Grants > 0
      BY <2>1, <2>2, <2>3, GrantTypes DEF Grants
    <3> QED
      BY <2>1, <2>2, <3>1 DEF Promise!Next, Promise!Discard
  <2>4. CASE scheduler # "sending"
    BY <2>1, <2>2, <2>4, Stutter DEF Grants
  <2> QED
    BY <2>3, <2>4
<1>8. ASSUME NEW w \in Workers, Worker(w)
      PROVE  [Promise!Next]_(Promise!vars)
  BY <1>8, WorkerRefines
<1>9. CASE Restart
  <2>1. /\ UNCHANGED <<cancelled, requestCounter>>
        /\ jobs' = 0 /\ scheduler' # "sending"
        /\ worker' = [w \in Workers |-> "absent"]
    BY <1>9 DEF Restart
  <2>2. Received' = In(worker', "received") /\ Producing' = In(worker', "producing")
    BY DEF Received, Producing, In
  <2>3. Cardinality(Received') = 0 /\ Cardinality(Producing') = 0
    BY <2>1, <2>2, NobodyInState
  <2>4. Grants' = 0
    BY <2>1, <2>3 DEF Grants
  <2> QED
    BY <2>1, <2>3, <2>4 DEF Promise!Next, Promise!Abandon
<1> HIDE DEF agentVars, poolVars, counters
<1> QED
  BY <1>1, <1>2, <1>3, <1>4, <1>5, <1>6, <1>7, <1>8, <1>9 DEF Next, Agent, Scheduler, Finished

(* Every behaviour of channel, ticker and goroutines is one of the         *)
(* abstract promise: bounded concurrency, each begun request counted once, *)
(* nothing begun once the limit is counted, nothing granted once closed.   *)
THEOREM Implementation == Spec => ImplementsPromise
<1>1. Init => Promise!Init
  BY PromiseInit
<1>2. IInv /\ IInv' /\ [Next]_vars => [Promise!Next]_(Promise!vars)
  BY StepRefines DEF IInv
<1> QED
  BY <1>1, <1>2, InvariantHolds, PTL DEF Spec, ImplementsPromise, Promise!Spec

(* After the cancellation requests are used up, never added.               *)
THEOREM Drains == Spec => CancelledOnlyDrains
<1>1. IInv /\ IInv' /\ [Next]_vars => [cancelled => Work' <= Work]_vars
  <2> SUFFICES ASSUME IInv, IInv', [Next]_vars, cancelled
               PROVE  Work' <= Work
    OBVIOUS
  <2>1. [Promise!Next]_(Promise!vars)
    BY StepRefines DEF IInv
  <2>2. /\ Grants \in Nat /\ Grants' \in Nat
        /\ Cardinality(Producing) \in Nat /\ Cardinality(Producing') \in Nat
    BY GrantTypes DEF IInv
  <2>3. \/ Grants' = Grants /\ Cardinality(Producing') = Cardinality(Producing)
        \/ Grants' = Grants - 1 /\ Cardinality(Producing') = Cardinality(Producing) + 1
        \/ Grants' = Grants - 1 /\ Cardinality(Producing') = Cardinality(Producing)
        \/ Grants' = Grants /\ Cardinality(Producing') = Cardinality(Producing) - 1
        \/ Grants' = 0 /\ Cardinality(Producing') = 0
    BY <2>1 DEF Promise!Next, Promise!vars, Promise!Grant, Promise!Begin, Promise!Discard,
                Promise!Count, Promise!Close, Promise!Abandon
  <2> QED
    BY <2>2, <2>3 DEF Work
<1> QED
  BY <1>1, InvariantHolds, PTL DEF Spec, CancelledOnlyDrains
================================================================================
