------------------------------ MODULE ProduceLoad ------------------------------
(***************************************************************************)
(* One execution of a "produce messages" action: extkafka/produce.go with  *)
(* its two front ends produceFixAmount.go (FixedAmount) and                *)
(* producePeriodically.go (~FixedAmount).                                  *)
(*                                                                         *)
(* The agent calls Prepare, Start, Status* and Stop, one at a time.        *)
(* Prepare starts a pool of worker goroutines, Start a ticker and a        *)
(* scheduler goroutine that puts jobs into a bounded channel; a worker     *)
(* takes a job, looks at the shared counter, produces one record and       *)
(* counts the request, then the success.  Status and Stop cancel the       *)
(* context that all goroutines share but do not wait for them.             *)
(***************************************************************************)
EXTENDS Integers, FiniteSets

CONSTANTS
  Workers,          \* one element per worker, MaxConcurrent of them
  FixedAmount,      \* TRUE: "fixed amount" front end, FALSE: "periodically"
  NumberOfRecords,  \* parameter of the fixed amount action
  Duration,         \* its duration in milliseconds
  RecordsPerSecond, \* parameter of the periodic action
  SuccessRate,      \* required percentage of successful requests
  BrokerStates,     \* what the brokers may do: {"accepting", "rejecting", "unreachable"}
  Faults,           \* what may go wrong: {"crash", "retry", "client"}
  MaxRequests       \* bound on the requests of a periodic execution (model only)

ASSUME WorkersAssumption == IsFiniteSet(Workers) /\ Workers # {}
ASSUME RequestAssumption ==
  /\ FixedAmount \in BOOLEAN
  /\ NumberOfRecords \in Nat
  /\ Duration \in Nat \ {0}
  /\ RecordsPerSecond \in Nat
  /\ SuccessRate \in 0..100
ASSUME EnvironmentAssumption ==
  /\ BrokerStates \subseteq {"accepting", "rejecting", "unreachable"}
  /\ BrokerStates # {}
  /\ Faults \subseteq {"crash", "retry", "client"}
  /\ MaxRequests \in Nat

VARIABLES
  phase,                  \* how far the agent's calls have come
  stored,                 \* the execution has an entry in ExecutionRunDataMap
  jobs,                   \* number of jobs in the buffered channel
  cancelled,              \* the context of the execution is cancelled
  ticking,                \* the ticker runs
  scheduler,              \* state of the scheduler goroutine
  worker,                 \* state of each worker goroutine
  requestCounter,
  requestSuccessCounter,
  broker,                 \* what the brokers do with a produce request
  requestCount,           \* Stop's local copy of requestCounter
  verdict,                \* what the agent learned from Stop
  completed               \* Status has reported Completed

agentVars == <<phase, requestCount, verdict, completed>>
poolVars  == <<jobs, scheduler, worker>>
counters  == <<requestCounter, requestSuccessCounter>>
vars == <<agentVars, stored, cancelled, ticking, poolVars, counters, broker>>

Phases == {"new", "rejected", "prepared", "started", "panicked",
           "stopping", "reading", "stopped"}
WorkerStates == {"absent", "starting", "failed", "idle", "received",
                 "producing", "counted", "exited"}
SchedulerStates == {"absent", "waiting", "sending", "exited"}

MaxConcurrent == Cardinality(Workers)
Received  == {w \in Workers : worker[w] = "received"}
Producing == {w \in Workers : worker[w] = "producing"}
Counted   == {w \in Workers : worker[w] = "counted"}
Gone      == {"absent", "failed", "exited"}

Init ==
  /\ phase = "new"
  /\ stored = FALSE
  /\ jobs = 0
  /\ cancelled = FALSE
  /\ ticking = FALSE
  /\ scheduler = "absent"
  /\ worker = [w \in Workers |-> "absent"]
  /\ requestCounter = 0
  /\ requestSuccessCounter = 0
  /\ broker \in BrokerStates
  /\ requestCount = 0
  /\ verdict = "none"
  /\ completed = FALSE

-------------------------------------------------------------------------------
MoveWorker(w, from, to) ==
  /\ worker[w] = from
  /\ worker' = [worker EXCEPT ![w] = to]

(* Seeded faults: single definitions as a plausible bug would change them. *)
(* No specification uses them; each makes a property below fail.           *)

CheckEndedNever == FALSE

StopForgetsCancel ==
  /\ phase \in {"prepared", "started", "panicked"}
  /\ stored
  /\ phase' = "stopping"
  /\ ticking' = FALSE
  /\ stored' = FALSE
  /\ UNCHANGED <<requestCount, verdict, completed, cancelled, poolVars, counters, broker>>

StopLeavesTicker ==
  /\ phase \in {"prepared", "started", "panicked"}
  /\ stored
  /\ phase' = "stopping"
  /\ cancelled' = TRUE
  /\ stored' = FALSE
  /\ UNCHANGED <<requestCount, verdict, completed, ticking, poolVars, counters, broker>>

SchedulerExitsOuterOnly ==
  /\ scheduler = "waiting"
  /\ cancelled
  /\ scheduler' = "exited"
  /\ UNCHANGED <<agentVars, stored, cancelled, ticking, jobs, worker, counters, broker>>

ReceiveFromEmpty(w) ==
  /\ jobs' = jobs - 1
  /\ MoveWorker(w, "idle", "received")
  /\ UNCHANGED <<agentVars, stored, cancelled, ticking, scheduler, counters, broker>>

ProduceErrorUncounted(w) ==
  /\ broker = "rejecting" \/ cancelled
  /\ MoveWorker(w, "producing", "idle")
  /\ UNCHANGED <<agentVars, stored, cancelled, ticking, jobs, scheduler,
                 counters, broker>>

CountSuccessTwice(w) ==
  /\ MoveWorker(w, "counted", "idle")
  /\ requestSuccessCounter' = requestSuccessCounter + 2
  /\ UNCHANGED <<agentVars, stored, cancelled, ticking, jobs, scheduler,
                 requestCounter, broker>>

-------------------------------------------------------------------------------
(* Integer divisions of the two getDelayBetweenRequestsInMs functions.     *)
Delay ==
  IF FixedAmount
  THEN IF NumberOfRecords > 0 THEN Duration \div NumberOfRecords ELSE 1000
  ELSE IF RecordsPerSecond > 0 THEN 1000 \div RecordsPerSecond ELSE 1000

(* checkEndedProduceFixedAmount; the periodic action passes a constant     *)
(* FALSE.                                                                  *)
CheckEnded == FixedAmount /\ requestCounter >= NumberOfRecords

-------------------------------------------------------------------------------
(* The agent's calls.                                                      *)

(* Every error return of prepare comes before the run data is stored and   *)
(* the pool is started.                                                    *)
PrepareRejected ==
  /\ phase = "new"
  /\ phase' = "rejected"
  /\ UNCHANGED <<requestCount, verdict, completed, stored, cancelled, ticking,
                 poolVars, counters, broker>>

Prepare ==
  /\ phase = "new"
  /\ phase' = "prepared"
  /\ stored' = TRUE
  /\ worker' = [w \in Workers |-> "starting"]
  /\ UNCHANGED <<requestCount, verdict, completed, cancelled, ticking, jobs,
                 scheduler, counters, broker>>

(* time.NewTicker panics when the delay is not positive, and a missing     *)
(* entry is dereferenced although the error was noticed; the HTTP layer    *)
(* turns both panics into an error response.                               *)
StartPanics ==
  /\ phase = "prepared"
  /\ ~stored \/ Delay = 0
  /\ phase' = "panicked"
  /\ UNCHANGED <<requestCount, verdict, completed, stored, cancelled, ticking,
                 poolVars, counters, broker>>

Start ==
  /\ phase = "prepared"
  /\ stored
  /\ Delay > 0
  /\ jobs < MaxConcurrent
  /\ phase' = "started"
  /\ ticking' = TRUE
  /\ jobs' = jobs + 1
  /\ scheduler' = "waiting"
  /\ UNCHANGED <<requestCount, verdict, completed, stored, cancelled, worker,
                 counters, broker>>

(* The Status of the fixed amount action cancels the execution once the    *)
(* counter has reached the number of records; without run data it returns  *)
(* an error and changes nothing.                                           *)
Status ==
  /\ phase = "started"
  /\ stored
  /\ CheckEnded
  /\ completed' = TRUE
  /\ ticking' = FALSE
  /\ cancelled' = TRUE
  /\ UNCHANGED <<phase, requestCount, verdict, stored, poolVars, counters, broker>>

(* stop up to the deletion of the entry: stopExecution stops the ticker,   *)
(* cancels the context and returns without waiting for any goroutine.      *)
Stop ==
  /\ phase \in {"prepared", "started", "panicked"}
  /\ stored
  /\ phase' = "stopping"
  /\ ticking' = FALSE
  /\ cancelled' = TRUE
  /\ stored' = FALSE
  /\ UNCHANGED <<requestCount, verdict, completed, poolVars, counters, broker>>

(* Without an entry ("stop was already called") Stop succeeds, after a     *)
(* restart of the extension as well as on a retry of the call.             *)
StopWithoutData ==
  /\ \/ phase \in {"prepared", "started", "panicked"}
     \/ phase = "stopped" /\ "retry" \in Faults
  /\ ~stored
  /\ phase' = "stopped"
  /\ verdict' = "success"
  /\ UNCHANGED <<requestCount, completed, stored, cancelled, ticking, poolVars,
                 counters, broker>>

StopReadsRequests ==
  /\ phase = "stopping"
  /\ phase' = "reading"
  /\ requestCount' = requestCounter
  /\ UNCHANGED <<verdict, completed, stored, cancelled, ticking, poolVars,
                 counters, broker>>

RateReached(successes, requests) ==
  IF requests > 0 THEN successes * 100 >= SuccessRate * requests ELSE SuccessRate = 0

StopReadsSuccesses ==
  /\ phase = "reading"
  /\ phase' = "stopped"
  /\ verdict' = IF RateReached(requestSuccessCounter, requestCount)
                THEN "success" ELSE "failure"
  /\ UNCHANGED <<requestCount, completed, stored, cancelled, ticking, poolVars,
                 counters, broker>>

-------------------------------------------------------------------------------
(* The scheduler goroutine of start.                                       *)

(* It receives a tick; a stopped ticker delivers none (Go 1.23 and later). *)
Tick ==
  /\ scheduler = "waiting"
  /\ ticking
  /\ FixedAmount
       \/ requestCounter + jobs + Cardinality(Received \cup Producing) < MaxRequests
  /\ scheduler' = "sending"
  /\ UNCHANGED <<agentVars, stored, cancelled, ticking, jobs, worker, counters, broker>>

(* jobs <- t, one branch of the inner select, possible while there is room *)
Send ==
  /\ scheduler = "sending"
  /\ jobs < MaxConcurrent
  /\ jobs' = jobs + 1
  /\ scheduler' = "waiting"
  /\ UNCHANGED <<agentVars, stored, cancelled, ticking, worker, counters, broker>>

(* <-ctx.Done(), the other branch of both selects *)
SchedulerExits ==
  /\ scheduler \in {"waiting", "sending"}
  /\ cancelled
  /\ scheduler' = "exited"
  /\ UNCHANGED <<agentVars, stored, cancelled, ticking, jobs, worker, counters, broker>>

-------------------------------------------------------------------------------
(* The worker goroutines, requestProducerWorker.                           *)

WorkerStarts(w) ==
  /\ MoveWorker(w, "starting", "idle")
  /\ UNCHANGED <<agentVars, stored, cancelled, ticking, jobs, scheduler, counters, broker>>

(* The client cannot be created: the worker logs it and is gone. *)
WorkerFails(w) ==
  /\ "client" \in Faults
  /\ MoveWorker(w, "starting", "failed")
  /\ UNCHANGED <<agentVars, stored, cancelled, ticking, jobs, scheduler, counters, broker>>

(* <-jobs.  When the context is cancelled too, select picks either branch. *)
Receive(w) ==
  /\ jobs > 0
  /\ jobs' = jobs - 1
  /\ MoveWorker(w, "idle", "received")
  /\ UNCHANGED <<agentVars, stored, cancelled, ticking, scheduler, counters, broker>>

WorkerExits(w) ==
  /\ cancelled
  /\ MoveWorker(w, "idle", "exited")
  /\ UNCHANGED <<agentVars, stored, cancelled, ticking, jobs, scheduler, counters, broker>>

(* if checkEnded { continue }, else the worker enters ProduceSync *)
BeginProduce(w) ==
  /\ MoveWorker(w, "received", IF CheckEnded THEN "idle" ELSE "producing")
  /\ UNCHANGED <<agentVars, stored, cancelled, ticking, jobs, scheduler, counters, broker>>

(* ProduceSync returns a nil error and the request is counted *)
ProduceSucceeds(w) ==
  /\ broker = "accepting"
  /\ MoveWorker(w, "producing", "counted")
  /\ requestCounter' = requestCounter + 1
  /\ UNCHANGED <<agentVars, stored, cancelled, ticking, jobs, scheduler,
                 requestSuccessCounter, broker>>

(* ProduceSync returns an error, because the brokers refused the record or *)
(* because the context was cancelled while it was in flight, and the       *)
(* request is counted all the same.  Unreachable brokers alone return      *)
(* nothing: the client retries without limit.                              *)
ProduceErrs(w) ==
  /\ broker = "rejecting" \/ cancelled
  /\ MoveWorker(w, "producing", "idle")
  /\ requestCounter' = requestCounter + 1
  /\ UNCHANGED <<agentVars, stored, cancelled, ticking, jobs, scheduler,
                 requestSuccessCounter, broker>>

CountSuccess(w) ==
  /\ MoveWorker(w, "counted", "idle")
  /\ requestSuccessCounter' = requestSuccessCounter + 1
  /\ UNCHANGED <<agentVars, stored, cancelled, ticking, jobs, scheduler,
                 requestCounter, broker>>

-------------------------------------------------------------------------------
(* The environment.                                                        *)

BrokerChanges ==
  /\ broker' \in BrokerStates \ {broker}
  /\ UNCHANGED <<agentVars, stored, cancelled, ticking, poolVars, counters>>

(* The extension restarts: the map and all goroutines are gone.  A Stop    *)
(* call that was under way failed, the agent calls it again.               *)
Restart ==
  /\ "crash" \in Faults
  /\ phase \in {"prepared", "started", "panicked", "stopping", "reading"}
  /\ stored' = FALSE
  /\ phase' = IF phase \in {"stopping", "reading"} THEN "started" ELSE phase
  /\ worker' = [w \in Workers |-> "absent"]
  /\ scheduler' = "absent"
  /\ jobs' = 0
  /\ ticking' = FALSE
  /\ UNCHANGED <<requestCount, verdict, completed, cancelled, counters, broker>>

(* The execution is over and no goroutine is left. *)
Finished ==
  /\ phase \in {"rejected", "stopped"}
  /\ scheduler \in {"absent", "exited"}
  /\ \A w \in Workers : worker[w] \in Gone
  /\ UNCHANGED vars

Agent == PrepareRejected \/ Prepare \/ StartPanics \/ Start \/ Status \/ Stop
           \/ StopWithoutData \/ StopReadsRequests \/ StopReadsSuccesses
Scheduler == Tick \/ Send \/ SchedulerExits
Worker(w) == WorkerStarts(w) \/ WorkerFails(w) \/ Receive(w) \/ WorkerExits(w)
               \/ BeginProduce(w) \/ ProduceSucceeds(w) \/ ProduceErrs(w) \/ CountSuccess(w)

Next ==
  \/ Agent
  \/ Scheduler
  \/ \E w \in Workers : Worker(w)
  \/ BrokerChanges
  \/ Restart
  \/ Finished

Spec == Init /\ [][Next]_vars

(* Goroutines run whenever they can, the agent polls Status every second,  *)
(* and a Stop handler runs to its end.  Nothing obliges the agent to call  *)
(* Stop, the brokers to recover, or the extension to crash.                *)
Fairness ==
  /\ WF_vars(Scheduler)
  /\ \A w \in Workers : WF_vars(Worker(w))
  /\ WF_vars(Status)
  /\ WF_vars(StopReadsRequests \/ StopReadsSuccesses)

FairSpec == Spec /\ Fairness

-------------------------------------------------------------------------------
(* Properties.                                                             *)

(* Every variable has a value the program can give it; in particular the   *)
(* job channel never holds more than MaxConcurrent jobs.                   *)
TypeOK ==
  /\ phase \in Phases
  /\ stored \in BOOLEAN
  /\ jobs \in 0..MaxConcurrent
  /\ cancelled \in BOOLEAN
  /\ ticking \in BOOLEAN
  /\ scheduler \in SchedulerStates
  /\ worker \in [Workers -> WorkerStates]
  /\ requestCounter \in Nat
  /\ requestSuccessCounter \in Nat
  /\ broker \in BrokerStates
  /\ requestCount \in Nat
  /\ verdict \in {"none", "success", "failure"}
  /\ completed \in BOOLEAN

(* The workers look at the counter before they produce and raise it after, *)
(* so a fixed amount execution can produce more records than asked for:    *)
(* at most one for every other worker.                                     *)
OvershootBound ==
  FixedAmount => \/ requestCounter = 0 /\ Producing = {}
                 \/ requestCounter + Cardinality(Producing)
                      <= NumberOfRecords + MaxConcurrent - 1

(* Every success that was or is about to be counted belongs to a request   *)
(* that is counted already: a rate taken from one snapshot is at most 100. *)
SuccessesAreRequests ==
  requestSuccessCounter + Cardinality(Counted) <= requestCounter

(* No goroutine is out of reach: as long as one lives, either the agent    *)
(* still finds the execution in the map or the goroutine has been told to  *)
(* end.                                                                    *)
NoGoroutineLeaks ==
  (\/ \E w \in Workers : worker[w] \notin Gone
   \/ scheduler \in {"waiting", "sending"}) => stored \/ cancelled

(* What an execution has before each call: nothing before Prepare, no      *)
(* scheduler and a live context until Start, and a ticker only as long as  *)
(* the context is alive.                                                   *)
LifecycleOrder ==
  /\ phase = "new" => jobs = 0 /\ worker = [w \in Workers |-> "absent"]
  /\ phase \in {"new", "prepared"} => scheduler = "absent" /\ ~cancelled
  /\ ticking => ~cancelled

(* Requests that can still be made: queued, on their way into the queue,   *)
(* taken by a worker or in flight.                                         *)
Grants == jobs + Cardinality(Received) + IF scheduler = "sending" THEN 1 ELSE 0
Work == Grants + Cardinality(Producing)

(* From the moment the context is cancelled no new work arises, although   *)
(* workers and scheduler may still pick a job instead of the cancellation. *)
CancelledOnlyDrains == [][cancelled => Work' <= Work]_vars

(* Whoever cancels an execution gets rid of all its goroutines, whatever   *)
(* the brokers do.                                                         *)
CancelEndsAll ==
  cancelled ~> /\ scheduler \in {"absent", "exited"}
               /\ \A w \in Workers : worker[w] \in Gone

(* If some worker has a client, the extension does not restart meanwhile   *)
(* and the brokers answer in the end, be it with an error, a started fixed *)
(* amount execution is reported completed unless the agent stops it first. *)
FixedAmountCompletes ==
  (/\ <>[](broker # "unreachable")
   /\ [](\E w \in Workers : worker[w] # "failed")
   /\ [](phase = "started" => stored))
  => (FixedAmount /\ phase = "started" ~> completed \/ phase # "started")

(* The execution implements LoadPromise: queued jobs, the tick the         *)
(* scheduler is about to queue and the jobs taken by a worker are grants.  *)
Promise == INSTANCE LoadPromise WITH
  Limited  <- FixedAmount,
  Limit    <- NumberOfRecords,
  Width    <- MaxConcurrent,
  open     <- ~cancelled,
  grants   <- Grants,
  inflight <- Cardinality(Producing),
  counted  <- requestCounter

ImplementsPromise == Promise!Spec

-------------------------------------------------------------------------------
(* What documentation and tests say of the program and the program does    *)
(* not do.                                                                 *)

(* Brokers that accept every record: a completed execution does not fail.  *)
CompletedSucceeds ==
  BrokerStates = {"accepting"} /\ completed => verdict # "failure"
================================================================================
