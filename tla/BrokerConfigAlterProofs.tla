------------------------ MODULE BrokerConfigAlterProofs ------------------------
(***************************************************************************)
(* Proofs about BrokerConfigAlter, for every set of configuration values,  *)
(* every combination of faults and, where nothing else is said, every      *)
(* number of overlapping executions.                                       *)
(***************************************************************************)
EXTENDS BrokerConfigAlter, TLAPS

-------------------------------------------------------------------------------
(* The invariant.                                                          *)

(* b is on the way from c to a; it may be at either end. *)
OnTheWay(a, b, c) == (a <= b /\ b <= c) \/ (c <= b /\ b <= a)

(* A handler is under way exactly while its call is; the parameters are    *)
(* known from Prepare on; only the thread attacks read first, and the      *)
(* direct ones write what they want at once.                               *)
Handlers ==
  \A e \in Executions :
    /\ pc[e] # "idle" <=> phase[e] \in {"starting", "stopping"}
    /\ phase[e] \notin {"new", "rejected"} => target[e] \in Values /\ initial[e] >= 1
    /\ pc[e] = "reading" => Stepwise
    /\ ~Stepwise /\ pc[e] # "idle" => value[e] = Goal(e)

(* A change that is still to be applied belongs to a call under way, or    *)
(* to one that has failed.                                                 *)
PendingWriter ==
  ~unsettled /\ accepted # applied =>
    \E e \in Executions : pc[e] \in {"sending", "polling"} /\ value[e] = accepted

(* Executions that will still, or did in the end, write something other    *)
(* than the original value; Owes leaves out those whose last write was the *)
(* original value.                                                         *)
Open(e) ==
  \/ phase[e] \in {"starting", "started", "startFailed", "stopping", "stopFailed"}
  \/ phase[e] = "stopped" /\ initial[e] # original

Owes(e) ==
  Open(e) /\ ~(phase[e] = "stopping" /\ pc[e] = "polling" /\ value[e] = original)

Settles == Stepwise => ~unsettled

SomebodyOwes == Settles /\ accepted # original => \E e \in Executions : Owes(e)
SomebodyOpen == Settles /\ applied # original => \E e \in Executions : Open(e)

IInv == TypeOK /\ Handlers /\ PendingWriter /\ SomebodyOwes /\ SomebodyOpen

(* A thread attack that is alone with its broker: the broker's values stay *)
(* between the original value and the target, each change is one the       *)
(* broker permits, and every write is on the way from the last one.        *)
OneAtATime == Stepwise => \A d, e \in Executions : d = e

Reach == Stepwise => Permitted(accepted)

StepByStep(e) ==
  /\ phase[e] \in {"new", "rejected", "prepared"} => accepted = applied
  /\ phase[e] = "starting" /\ pc[e] = "reading" => accepted = applied
  /\ phase[e] = "prepared" => applied = initial[e]
  /\ phase[e] \notin {"new", "rejected"} =>
       /\ OnTheWay(initial[e], accepted, target[e])
       /\ OnTheWay(initial[e], applied, target[e])
  /\ pc[e] \in {"sending", "polling"} => OnTheWay(Goal(e), value[e], accepted)
  /\ pc[e] = "polling" => accepted = value[e]

SizeOfSteps == Stepwise => \A e \in Executions : StepByStep(e)

Alone == IInv /\ NeverRefused /\ Reach /\ SizeOfSteps

-------------------------------------------------------------------------------
(* The size of a step.                                                     *)

(* max(min(targetValue, currentValue*2), currentValue/2) is a size of at   *)
(* least one, on the way to the target, nearer to it unless there already, *)
(* and at most twice and at least half the current one.                    *)
LEMMA NextValueFacts ==
  ASSUME NEW current \in Nat \ {0}, NEW goal \in Nat \ {0}
  PROVE  /\ NextValue(current, goal) \in Nat \ {0}
         /\ OnTheWay(goal, NextValue(current, goal), current)
         /\ current # goal => NextValue(current, goal) # current
         /\ NextValue(current, goal) >= current \div 2
         /\ NextValue(current, goal) <= current * 2
<1>1. /\ current \div 2 \in Nat /\ current \div 2 < current
      /\ current * 2 \in Nat /\ current < current * 2
  OBVIOUS
<1>2. CASE goal > current
  BY <1>1, <1>2 DEF NextValue, Larger, Smaller, OnTheWay
<1>3. CASE goal <= current
  BY <1>1, <1>3 DEF NextValue, Larger, Smaller, OnTheWay
<1> QED
  BY <1>2, <1>3

(* A value the broker has accepted within its limits is not beyond the     *)
(* next step to a goal that lies on one side of everything.                *)
LEMMA NextValueIsNotBehind ==
  ASSUME NEW a \in Nat \ {0}, NEW c \in Nat \ {0}, NEW g \in Nat \ {0},
         c >= a \div 2, c <= a * 2, (g <= a /\ g <= c) \/ (a <= g /\ c <= g)
  PROVE  OnTheWay(g, NextValue(a, g), c)
<1>1. /\ a \div 2 \in Nat /\ a \div 2 < a
      /\ a * 2 \in Nat /\ a < a * 2
  OBVIOUS
<1>2. CASE g <= a /\ g <= c
  BY <1>1, <1>2 DEF NextValue, Larger, Smaller, OnTheWay
<1>3. CASE a <= g /\ c <= g
  BY <1>1, <1>3 DEF NextValue, Larger, Smaller, OnTheWay
<1> QED
  BY <1>2, <1>3

-------------------------------------------------------------------------------
(* What the steps do.                                                      *)

(* The end of a handler. *)
LEMMA ReturnsEffect ==
  ASSUME TypeOK, Handlers, NEW e \in Executions, NEW ok \in BOOLEAN,
         pc[e] # "idle", Returns(e, ok)
  PROVE  /\ phase[e] = "starting" \/ phase[e] = "stopping"
         /\ phase' \in [Executions -> Phases]
         /\ pc' \in [Executions -> {"idle", "reading", "sending", "polling"}]
         /\ pc'[e] = "idle"
         /\ phase[e] = "starting" => phase'[e] = IF ok THEN "started" ELSE "startFailed"
         /\ phase[e] = "stopping" => phase'[e] = IF ok THEN "stopped" ELSE "stopFailed"
         /\ \A d \in Executions \ {e} : phase'[d] = phase[d] /\ pc'[d] = pc[d]
         /\ unsettled' \in BOOLEAN
         /\ unsettled => unsettled'
         /\ ~ok /\ accepted # applied => unsettled'
         /\ ok => unsettled' = unsettled
<1>1. /\ phase \in [Executions -> Phases]
      /\ pc \in [Executions -> {"idle", "reading", "sending", "polling"}]
      /\ unsettled \in BOOLEAN
      /\ phase[e] = "starting" \/ phase[e] = "stopping"
  BY DEF TypeOK, Handlers
<1>2. /\ phase[e] = "starting" => Outcome(e, ok) = IF ok THEN "started" ELSE "startFailed"
      /\ phase[e] = "stopping" => Outcome(e, ok) = IF ok THEN "stopped" ELSE "stopFailed"
  BY DEF Outcome
<1>3. Outcome(e, ok) \in Phases
  BY <1>1, <1>2 DEF Phases
<1>4. /\ phase' = [phase EXCEPT ![e] = Outcome(e, ok)]
      /\ pc' = [pc EXCEPT ![e] = "idle"]
      /\ unsettled' = (unsettled \/ (~ok /\ accepted # applied))
  BY DEF Returns
<1>5. /\ phase' \in [Executions -> Phases] /\ phase'[e] = Outcome(e, ok)
      /\ pc' \in [Executions -> {"idle", "reading", "sending", "polling"}] /\ pc'[e] = "idle"
      /\ \A d \in Executions \ {e} : phase'[d] = phase[d] /\ pc'[d] = pc[d]
  BY <1>1, <1>3, <1>4
<1>6. /\ unsettled' \in BOOLEAN
      /\ unsettled => unsettled'
      /\ ~ok /\ accepted # applied => unsettled'
      /\ ok => unsettled' = unsettled
  BY <1>1, <1>4
<1> QED
  BY <1>1, <1>2, <1>5, <1>6

LEMMA GoalIsASize ==
  ASSUME TypeOK, Handlers, NEW e \in Executions, phase[e] \notin {"new", "rejected"}
  PROVE  /\ target[e] \in Nat \ {0} /\ target[e] \in Values
         /\ initial[e] \in Nat \ {0}
         /\ Goal(e) \in Nat \ {0}
<1>1. target[e] \in Values /\ initial[e] >= 1
  BY DEF Handlers
<1>2. initial[e] \in Nat
  BY DEF TypeOK
<1>3. target[e] \in Nat \ {0}
  BY <1>1, ConfigAssumption
<1> QED
  BY <1>1, <1>2, <1>3 DEF Goal

(* The steps of one execution, gathered by what they do to the others and  *)
(* to the broker: every step but Crash, Apply and a stutter is one of them.*)
Call(e) ==
  Prepare(e) \/ PrepareFails(e)
    \/ StartDirect(e) \/ StopDirect(e) \/ StartStepwise(e) \/ StopStepwise(e)

Step(e) == Call(e) \/ Handler(e) \/ TransientError(e)

LEMMA StepShape ==
  ASSUME [Next]_vars
  PROVE  (\E e \in Executions : Step(e)) \/ Crash \/ Apply \/ UNCHANGED vars
  BY DEF Next, Step, Call, Finished

(* A handler that goes on writes its next value. *)
GoesOn(e, current) ==
  /\ current # Goal(e)
  /\ attempt' = [attempt EXCEPT ![e] = 0]
  /\ pc' = [pc EXCEPT ![e] = "sending"]
  /\ value' = [value EXCEPT ![e] = NextValue(current, Goal(e))]
  /\ UNCHANGED <<phase, unsettled>>

LEMMA ContinueIs ==
  ASSUME NEW e \in Executions, NEW current, Continue(e, current)
  PROVE  \/ GoesOn(e, current)
         \/ /\ current = Goal(e)
            /\ Returns(e, TRUE)
            /\ UNCHANGED value
            /\ attempt' = [attempt EXCEPT ![e] = 0]
  BY DEF Continue, GoesOn

(* A handler that retries starts its request over. *)
Retries(e) ==
  /\ attempt[e] + 1 < MaxAttempts
  /\ attempt' = [attempt EXCEPT ![e] = @ + 1]
  /\ pc' = [pc EXCEPT ![e] = IF @ = "reading" THEN "reading" ELSE "sending"]
  /\ UNCHANGED <<phase, unsettled>>

LEMMA TransientErrorIs ==
  ASSUME NEW e \in Executions, TransientError(e)
  PROVE  /\ pc[e] # "idle"
         /\ UNCHANGED <<requested, initial, value, accepted, applied>>
         /\ Retries(e) \/ (Returns(e, FALSE) /\ UNCHANGED attempt)
  BY DEF TransientError, Retries

-------------------------------------------------------------------------------
(* Types.                                                                  *)

LEMMA InitIInv == Init => IInv
<1> SUFFICES ASSUME Init PROVE IInv
  OBVIOUS
<1>1. original \in Nat \ {0}
  BY ConfigAssumption DEF Init
<1>2. TypeOK
  <2>1. original \in Values /\ faults \subseteq Faults
    BY DEF Init
  <2>2. /\ phase \in [Executions -> Phases]
        /\ pc = [e \in Executions |-> "idle"]
        /\ pc \in [Executions -> {"idle", "reading", "sending", "polling"}]
    BY DEF Init, Phases
  <2>3. /\ target \in [Executions -> Values \cup {0}]
        /\ initial \in [Executions -> Nat]
        /\ value \in [Executions -> Nat]
        /\ attempt \in [Executions -> 0..MaxAttempts - 1]
    BY DEF Init, MaxAttempts
  <2>4. accepted \in Nat \ {0} /\ applied \in Nat \ {0} /\ unsettled \in BOOLEAN
    BY <1>1 DEF Init
  <2> QED
    BY <2>1, <2>2, <2>3, <2>4 DEF TypeOK
<1>3. Handlers /\ PendingWriter /\ SomebodyOwes /\ SomebodyOpen
  BY DEF Init, Handlers, PendingWriter, SomebodyOwes, SomebodyOpen
<1> QED
  BY <1>2, <1>3 DEF IInv

LEMMA TypeStep == TypeOK /\ Handlers /\ [Next]_vars => TypeOK'
<1> SUFFICES ASSUME TypeOK, Handlers, [Next]_vars PROVE TypeOK'
  OBVIOUS
<1> USE DEF requested, localVars, MaxAttempts
<1>1. ASSUME NEW e \in Executions, Call(e) PROVE TypeOK'
  <2>1. CASE Prepare(e)
    BY <2>1 DEF Prepare, TypeOK, Phases
  <2>2. CASE PrepareFails(e)
    BY <2>2 DEF PrepareFails, TypeOK, Phases
  <2>3. CASE StartDirect(e)
    <3>1. target[e] \in Nat \ {0}
      BY <2>3, GoalIsASize DEF StartDirect
    <3> QED
      BY <2>3, <3>1 DEF StartDirect, TypeOK, Phases
  <2>4. CASE StopDirect(e)
    <3>1. initial[e] \in Nat \ {0}
      BY <2>4, GoalIsASize DEF StopDirect
    <3> QED
      BY <2>4, <3>1 DEF StopDirect, TypeOK, Phases
  <2>5. CASE StartStepwise(e)
    BY <2>5 DEF StartStepwise, TypeOK, Phases
  <2>6. CASE StopStepwise(e)
    BY <2>6 DEF StopStepwise, TypeOK, Phases
  <2> QED
    BY <1>1, <2>1, <2>2, <2>3, <2>4, <2>5, <2>6 DEF Call
<1>2. ASSUME NEW e \in Executions, NEW ok \in BOOLEAN, pc[e] # "idle", Returns(e, ok),
             UNCHANGED <<requested, initial, value, accepted, applied>>,
             attempt' = attempt \/ attempt' = [attempt EXCEPT ![e] = 0]
      PROVE  TypeOK'
  <2>1. /\ phase' \in [Executions -> Phases]
        /\ pc' \in [Executions -> {"idle", "reading", "sending", "polling"}]
        /\ pc'[e] = "idle"
        /\ \A d \in Executions \ {e} : pc'[d] = pc[d]
        /\ unsettled' \in BOOLEAN
    BY <1>2, ReturnsEffect
  <2> QED
    BY <1>2, <2>1 DEF TypeOK
<1>3. ASSUME NEW e \in Executions, NEW current \in Nat \ {0}, pc[e] # "idle",
             Continue(e, current), UNCHANGED <<requested, initial, accepted, applied>>
      PROVE  TypeOK'
  <2>1. CASE GoesOn(e, current)
    <3>1. Goal(e) \in Nat \ {0}
      BY <1>3, GoalIsASize DEF Handlers
    <3>2. NextValue(current, Goal(e)) \in Nat \ {0}
      BY <3>1, NextValueFacts
    <3> HIDE DEF Goal, NextValue
    <3> QED
      BY <1>3, <2>1, <3>2 DEF GoesOn, TypeOK
  <2>2. CASE Returns(e, TRUE) /\ UNCHANGED value /\ attempt' = [attempt EXCEPT ![e] = 0]
    BY <1>2, <1>3, <2>2
  <2> QED
    BY <1>3, <2>1, <2>2, ContinueIs
<1>4. ASSUME NEW e \in Executions, Handler(e) PROVE TypeOK'
  <2>1. CASE ReadCurrent(e)
    <3>1. applied \in Nat \ {0} /\ pc[e] # "idle"
      BY <2>1 DEF ReadCurrent, TypeOK
    <3> QED
      BY <1>3, <2>1, <3>1 DEF ReadCurrent
  <2>2. CASE Send(e)
    <3>1. pc[e] = "sending" /\ value[e] \in Nat \ {0}
      BY <2>2 DEF Send, TypeOK
    <3>2. CASE Permitted(value[e])
      BY <2>2, <3>1, <3>2 DEF Send, TypeOK
    <3>3. CASE ~Permitted(value[e])
      BY <1>2, <2>2, <3>1, <3>3 DEF Send
    <3> QED
      BY <3>2, <3>3
  <2>3. CASE PollSucceeds(e)
    <3>1. value[e] \in Nat \ {0} /\ pc[e] # "idle"
      BY <2>3 DEF PollSucceeds, TypeOK
    <3> QED
      BY <1>3, <2>3, <3>1 DEF PollSucceeds
  <2>4. CASE PollTimesOut(e)
    BY <1>2, <2>4 DEF PollTimesOut
  <2> QED
    BY <1>4, <2>1, <2>2, <2>3, <2>4 DEF Handler
<1>5. ASSUME NEW e \in Executions, TransientError(e) PROVE TypeOK'
  <2>1. CASE Retries(e)
    <3>1. /\ pc[e] # "idle"
          /\ UNCHANGED <<original, faults, target, phase, initial, value, accepted, applied, unsettled>>
      BY <1>5, <2>1, TransientErrorIs DEF Retries
    <3>2. attempt' \in [Executions -> 0..MaxAttempts - 1]
      BY <2>1 DEF Retries, TypeOK
    <3>3. /\ pc' \in [Executions -> {"idle", "reading", "sending", "polling"}]
          /\ \A d \in Executions : pc'[d] \in {"sending", "polling"} => pc[d] \in {"sending", "polling"}
      BY <2>1, <3>1 DEF Retries, TypeOK
    <3> QED
      BY <3>1, <3>2, <3>3 DEF TypeOK
  <2>2. CASE Returns(e, FALSE) /\ UNCHANGED attempt
    BY <1>2, <1>5, <2>2, TransientErrorIs
  <2> QED
    BY <1>5, <2>1, <2>2, TransientErrorIs
<1>6. CASE Crash
  <2>1. \A e \in Executions : pc[e] # "idle" => Outcome(e, FALSE) \in Phases
    BY DEF Handlers, Outcome, Phases
  <2>2. /\ phase' \in [Executions -> Phases]
        /\ pc' = [e \in Executions |-> "idle"]
        /\ pc' \in [Executions -> {"idle", "reading", "sending", "polling"}]
    BY <1>6, <2>1 DEF Crash, TypeOK
  <2>3. unsettled' \in BOOLEAN
    BY <1>6 DEF Crash, TypeOK
  <2>4. UNCHANGED <<original, faults, target, initial, value, attempt, accepted, applied>>
    BY <1>6 DEF Crash
  <2>5. \A e \in Executions : pc'[e] = "idle"
    BY <2>2
  <2> QED
    BY <2>2, <2>3, <2>4, <2>5 DEF TypeOK
<1>7. CASE Apply
  BY <1>7 DEF Apply, TypeOK
<1>8. CASE UNCHANGED vars
  BY <1>8 DEF vars, TypeOK
<1> QED
  BY <1>1, <1>4, <1>5, <1>6, <1>7, <1>8, StepShape DEF Step

-------------------------------------------------------------------------------
(* The handlers.                                                           *)

(* A step of one execution leaves the states of the others alone. *)
LEMMA OthersStay ==
  ASSUME TypeOK, NEW e \in Executions, Step(e), NEW d \in Executions, d # e
  PROVE  /\ phase'[d] = phase[d] /\ pc'[d] = pc[d] /\ target'[d] = target[d]
         /\ initial'[d] = initial[d] /\ value'[d] = value[d]
         /\ original' = original
<1> USE DEF requested, localVars, TypeOK
<1>1. CASE Call(e)
  BY <1>1 DEF Call, Prepare, PrepareFails, StartDirect, StopDirect, StartStepwise, StopStepwise
<1>2. CASE Handler(e)
  BY <1>2 DEF Handler, ReadCurrent, Send, PollSucceeds, PollTimesOut, Continue, Returns
<1>3. CASE TransientError(e)
  BY <1>3 DEF TransientError, Returns
<1> QED
  BY <1>1, <1>2, <1>3 DEF Step

HandlerOf(e) ==
  /\ pc[e] # "idle" <=> phase[e] \in {"starting", "stopping"}
  /\ phase[e] \notin {"new", "rejected"} => target[e] \in Values /\ initial[e] >= 1
  /\ pc[e] = "reading" => Stepwise
  /\ ~Stepwise /\ pc[e] # "idle" => value[e] = Goal(e)

LEMMA HandlersStep == TypeOK /\ Handlers /\ [Next]_vars => Handlers'
<1> SUFFICES ASSUME TypeOK, Handlers, [Next]_vars PROVE Handlers'
  OBVIOUS
<1> USE DEF requested, localVars
<1>0. ASSUME NEW e \in Executions PROVE HandlerOf(e)
  BY DEF Handlers, HandlerOf
<1>1. ASSUME NEW e \in Executions, Step(e), HandlerOf(e)' PROVE Handlers'
  <2>1. ASSUME NEW d \in Executions, d # e PROVE HandlerOf(d)'
    BY <1>0, <1>1, <2>1, OthersStay DEF HandlerOf, Goal
  <2>2. \A d \in Executions : HandlerOf(d)'
    BY <1>1, <2>1
  <2> QED
    BY <2>2 DEF Handlers, HandlerOf
<1>2. ASSUME NEW e \in Executions, Call(e) PROVE HandlerOf(e)'
  <2>1. CASE Prepare(e)
    BY <1>0, <2>1 DEF Prepare, TypeOK, HandlerOf
  <2>2. CASE PrepareFails(e)
    BY <1>0, <2>2 DEF PrepareFails, TypeOK, HandlerOf
  <2>3. CASE StartDirect(e)
    BY <1>0, <2>3 DEF StartDirect, TypeOK, HandlerOf, Goal
  <2>4. CASE StopDirect(e)
    BY <1>0, <2>4 DEF StopDirect, TypeOK, HandlerOf, Goal
  <2>5. CASE StartStepwise(e)
    BY <1>0, <2>5 DEF StartStepwise, TypeOK, HandlerOf
  <2>6. CASE StopStepwise(e)
    BY <1>0, <2>6 DEF StopStepwise, TypeOK, HandlerOf
  <2> QED
    BY <1>2, <2>1, <2>2, <2>3, <2>4, <2>5, <2>6 DEF Call
<1>3. ASSUME NEW e \in Executions, NEW ok \in BOOLEAN, pc[e] # "idle", Returns(e, ok),
             UNCHANGED <<target, initial>>
      PROVE  HandlerOf(e)'
  <2>1. /\ phase[e] = "starting" \/ phase[e] = "stopping"
        /\ pc'[e] = "idle"
        /\ phase'[e] \in {"started", "startFailed", "stopped", "stopFailed"}
    BY <1>3, ReturnsEffect
  <2> QED
    BY <1>0, <1>3, <2>1 DEF HandlerOf
<1>4. ASSUME NEW e \in Executions, NEW current, pc[e] # "idle", Continue(e, current),
             UNCHANGED <<target, initial>>, ~Stepwise => current = Goal(e)
      PROVE  HandlerOf(e)'
  <2>1. CASE GoesOn(e, current)
    <3>1. phase' = phase /\ pc'[e] = "sending" /\ Stepwise
      BY <1>4, <2>1 DEF GoesOn, TypeOK
    <3> QED
      BY <1>0, <1>4, <3>1 DEF HandlerOf
  <2>2. CASE Returns(e, TRUE)
    BY <1>3, <1>4, <2>2
  <2> QED
    BY <1>4, <2>1, <2>2, ContinueIs
<1>5. ASSUME NEW e \in Executions, Handler(e) PROVE HandlerOf(e)'
  <2>1. CASE ReadCurrent(e)
    BY <1>0, <1>4, <2>1 DEF ReadCurrent, HandlerOf
  <2>2. CASE Send(e) /\ Permitted(value[e])
    <3>1. pc'[e] = "polling" /\ pc[e] = "sending" /\ UNCHANGED <<phase, target, initial, value>>
      BY <2>2 DEF Send, TypeOK
    <3> QED
      BY <1>0, <3>1 DEF HandlerOf, Goal
  <2>3. CASE Send(e) /\ ~Permitted(value[e])
    BY <1>3, <2>3 DEF Send
  <2>4. CASE PollSucceeds(e)
    BY <1>0, <1>4, <2>4 DEF PollSucceeds, HandlerOf
  <2>5. CASE PollTimesOut(e)
    BY <1>3, <2>5 DEF PollTimesOut
  <2> QED
    BY <1>5, <2>1, <2>2, <2>3, <2>4, <2>5 DEF Handler
<1>6. ASSUME NEW e \in Executions, TransientError(e) PROVE HandlerOf(e)'
  <2>1. CASE Retries(e)
    <3>1. /\ pc[e] # "idle" /\ pc'[e] = IF pc[e] = "reading" THEN "reading" ELSE "sending"
          /\ UNCHANGED <<phase, target, initial, value>>
      BY <1>6, <2>1, TransientErrorIs DEF Retries, TypeOK
    <3> QED
      BY <1>0, <3>1 DEF HandlerOf, Goal
  <2>2. CASE Returns(e, FALSE)
    BY <1>3, <1>6, <2>2, TransientErrorIs
  <2> QED
    BY <1>6, <2>1, <2>2, TransientErrorIs
<1>7. CASE Crash
  <2>1. ASSUME NEW e \in Executions
        PROVE  pc'[e] = "idle" /\ phase'[e] \notin {"starting", "stopping"}
               /\ (phase'[e] \notin {"new", "rejected"} => phase[e] \notin {"new", "rejected"})
    BY <1>0, <1>7 DEF Crash, TypeOK, HandlerOf, Outcome
  <2>2. UNCHANGED <<target, initial>>
    BY <1>7 DEF Crash
  <2>3. ASSUME NEW e \in Executions PROVE HandlerOf(e)'
    BY <1>0, <2>1, <2>2 DEF HandlerOf
  <2> QED
    BY <2>3 DEF Handlers, HandlerOf
<1>8. CASE Apply \/ UNCHANGED vars
  BY <1>8 DEF Apply, vars, Handlers, Goal
<1> QED
  BY <1>1, <1>2, <1>5, <1>6, <1>7, <1>8, StepShape DEF Step

-------------------------------------------------------------------------------
(* A change on its way has a call that waits for it, or a call has failed. *)

LEMMA PendingWriterStep ==
  TypeOK /\ Handlers /\ PendingWriter /\ [Next]_vars => PendingWriter'
<1> SUFFICES ASSUME TypeOK, Handlers, PendingWriter, [Next]_vars,
                    ~unsettled', accepted' # applied'
             PROVE  \E e \in Executions : pc'[e] \in {"sending", "polling"} /\ value'[e] = accepted'
  BY DEF PendingWriter
<1> USE DEF requested, localVars
<1>1. ASSUME NEW e \in Executions, Step(e), ~unsettled, accepted' = accepted, applied' = applied,
             pc[e] \notin {"sending", "polling"} \/ value[e] # accepted
               \/ (pc'[e] \in {"sending", "polling"} /\ value'[e] = accepted)
      PROVE  \E d \in Executions : pc'[d] \in {"sending", "polling"} /\ value'[d] = accepted'
  <2>1. PICK d \in Executions : pc[d] \in {"sending", "polling"} /\ value[d] = accepted
    BY <1>1 DEF PendingWriter
  <2>2. CASE d = e
    BY <1>1, <2>1, <2>2
  <2>3. CASE d # e
    BY <1>1, <2>1, <2>3, OthersStay
  <2> QED
    BY <2>2, <2>3
<1>2. ASSUME NEW e \in Executions, Call(e)
      PROVE  /\ ~unsettled /\ accepted' = accepted /\ applied' = applied
             /\ pc[e] \notin {"sending", "polling"}
  BY <1>2 DEF Call, Prepare, PrepareFails, StartDirect, StopDirect, StartStepwise, StopStepwise,
              Handlers
<1>3. ASSUME NEW e \in Executions, pc[e] # "idle", Returns(e, FALSE),
             accepted' = accepted, applied' = applied
      PROVE  FALSE
  BY <1>3, ReturnsEffect
<1>4. ASSUME NEW e \in Executions, NEW current, pc[e] # "idle", Continue(e, current)
      PROVE  ~unsettled
  <2>1. CASE GoesOn(e, current)
    BY <2>1 DEF GoesOn
  <2>2. CASE Returns(e, TRUE)
    BY <1>4, <2>2, ReturnsEffect
  <2> QED
    BY <1>4, <2>1, <2>2, ContinueIs
<1>5. ASSUME NEW e \in Executions, Handler(e)
      PROVE  \E d \in Executions : pc'[d] \in {"sending", "polling"} /\ value'[d] = accepted'
  <2>1. CASE ReadCurrent(e)
    <3>1. /\ ~unsettled /\ accepted' = accepted /\ applied' = applied
          /\ pc[e] \notin {"sending", "polling"}
      BY <1>4, <2>1 DEF ReadCurrent
    <3> QED
      BY <1>1, <1>5, <3>1 DEF Step
  <2>2. CASE Send(e) /\ Permitted(value[e])
    <3>1. pc'[e] = "polling" /\ value'[e] = accepted'
      BY <2>2 DEF Send, TypeOK
    <3> QED
      BY <3>1
  <2>3. CASE Send(e) /\ ~Permitted(value[e])
    BY <1>3, <2>3 DEF Send
  <2>4. CASE PollSucceeds(e)
    <3>1. /\ ~unsettled /\ accepted' = accepted /\ applied' = applied
          /\ value[e] # accepted
      BY <1>4, <2>4 DEF PollSucceeds
    <3> QED
      BY <1>1, <1>5, <3>1 DEF Step
  <2>5. CASE PollTimesOut(e)
    BY <1>3, <2>5 DEF PollTimesOut
  <2> QED
    BY <1>5, <2>1, <2>2, <2>3, <2>4, <2>5 DEF Handler
<1>6. ASSUME NEW e \in Executions, TransientError(e)
      PROVE  \E d \in Executions : pc'[d] \in {"sending", "polling"} /\ value'[d] = accepted'
  <2>1. CASE Retries(e)
    <3>1. /\ ~unsettled /\ accepted' = accepted /\ applied' = applied
          /\ pc[e] \in {"sending", "polling"} => pc'[e] = "sending" /\ value'[e] = value[e]
      BY <1>6, <2>1, TransientErrorIs DEF Retries, TypeOK
    <3> QED
      BY <1>1, <1>6, <3>1 DEF Step
  <2>2. CASE Returns(e, FALSE)
    BY <1>3, <1>6, <2>2, TransientErrorIs
  <2> QED
    BY <1>6, <2>1, <2>2, TransientErrorIs
<1>7. CASE Crash
  BY <1>7 DEF Crash
<1>8. CASE Apply
  BY <1>8 DEF Apply
<1>9. CASE UNCHANGED vars
  BY <1>9 DEF vars, PendingWriter
<1> QED
  BY <1>1, <1>2, <1>5, <1>6, <1>7, <1>8, <1>9, StepShape DEF Step

-------------------------------------------------------------------------------
(* Who still has to write the original value.                              *)

LEMMA UnsettledStays == TypeOK /\ Handlers /\ unsettled /\ [Next]_vars => unsettled'
<1> SUFFICES ASSUME TypeOK, Handlers, unsettled, [Next]_vars PROVE unsettled'
  OBVIOUS
<1> USE DEF requested, localVars
<1>1. ASSUME NEW e \in Executions, Call(e) PROVE unsettled'
  BY <1>1 DEF Call, Prepare, PrepareFails, StartDirect, StopDirect, StartStepwise, StopStepwise
<1>2. ASSUME NEW e \in Executions, Handler(e) \/ TransientError(e) PROVE unsettled'
  BY <1>2 DEF Handler, ReadCurrent, Send, PollSucceeds, PollTimesOut, TransientError, Continue,
              Returns
<1>3. CASE Crash \/ Apply \/ UNCHANGED vars
  BY <1>3 DEF Crash, Apply, vars
<1> QED
  BY <1>1, <1>2, <1>3, StepShape DEF Step

(* The end of a handler closes the execution only after a Stop that has    *)
(* reached the original value.                                             *)
LEMMA ReturnsOpen ==
  ASSUME TypeOK, Handlers, NEW e \in Executions, NEW ok \in BOOLEAN,
         pc[e] # "idle", Returns(e, ok), UNCHANGED <<original, initial>>
  PROVE  Owes(e)' \/ (ok /\ phase[e] = "stopping" /\ initial[e] = original)
<1>1. phase[e] = "stopping" \/ phase[e] = "starting"
  BY ReturnsEffect
<1>2. phase'[e] \in {"started", "startFailed", "stopFailed"} \/ (ok /\ phase'[e] = "stopped" /\ phase[e] = "stopping")
  BY <1>1, ReturnsEffect
<1> QED
  BY <1>2 DEF Owes, Open

(* An execution that is open stays so until it has seen the original value *)
(* in effect.  One that owes the original value stays so until it writes   *)
(* that value, or reads it before it has written anything.                 *)
LEMMA OpenStays ==
  ASSUME TypeOK, Handlers, NEW e \in Executions, Step(e)
  PROVE  /\ Open(e) => Open(e)' \/ applied = original
         /\ Owes(e) => Owes(e)' \/ accepted' = original \/ (ReadCurrent(e) /\ applied = original)
<1> USE DEF requested, localVars
<1> DEFINE Stays == /\ Open(e) => Open(e)' \/ applied = original
                    /\ Owes(e) => \/ Owes(e)'
                                  \/ accepted' = original
                                  \/ ReadCurrent(e) /\ applied = original
<1>1. CASE Call(e)
  <2>1. CASE Prepare(e)
    BY <2>1 DEF Prepare, Owes, Open
  <2>2. CASE PrepareFails(e)
    BY <2>2 DEF PrepareFails, Owes, Open
  <2>3. CASE StartDirect(e) \/ StartStepwise(e)
    BY <2>3 DEF StartDirect, StartStepwise, Owes, Open
  <2>4. CASE StopDirect(e) \/ StopStepwise(e)
    <3>1. phase'[e] = "stopping" /\ pc'[e] # "polling"
      BY <2>4 DEF StopDirect, StopStepwise, TypeOK
    <3> QED
      BY <3>1 DEF Owes, Open
  <2> QED
    BY <1>1, <2>1, <2>2, <2>3, <2>4 DEF Call
<1>2. CASE ReadCurrent(e)
  <2>1. pc[e] # "idle" /\ Continue(e, applied) /\ UNCHANGED <<original, initial>>
    BY <1>2 DEF ReadCurrent
  <2>2. CASE GoesOn(e, applied)
    <3>1. phase'[e] = phase[e] /\ pc'[e] = "sending"
      BY <2>2 DEF GoesOn, TypeOK
    <3> QED
      BY <2>1, <3>1 DEF Owes, Open
  <2>3. CASE applied = Goal(e) /\ Returns(e, TRUE)
    <3>1. Owes(e)' \/ applied = original
      BY <2>1, <2>3, ReturnsOpen DEF Goal
    <3> QED
      BY <1>2, <3>1 DEF Owes
  <2> QED
    BY <2>1, <2>2, <2>3, ContinueIs
<1>3. CASE Send(e)
  <2>1. CASE Permitted(value[e])
    <3>1. /\ phase'[e] = phase[e] /\ initial' = initial /\ original' = original
          /\ pc'[e] = "polling" /\ value'[e] = accepted'
      BY <1>3, <2>1 DEF Send, TypeOK
    <3> QED
      BY <3>1 DEF Owes, Open
  <2>2. CASE ~Permitted(value[e])
    <3>1. pc[e] # "idle" /\ Returns(e, FALSE) /\ UNCHANGED <<original, initial>>
      BY <1>3, <2>2 DEF Send
    <3> QED
      BY <3>1, ReturnsOpen DEF Owes
  <2> QED
    BY <2>1, <2>2
<1>4. CASE PollSucceeds(e)
  <2>1. /\ pc[e] = "polling" /\ applied = value[e]
        /\ Continue(e, value[e]) /\ UNCHANGED <<original, initial>>
    BY <1>4 DEF PollSucceeds
  <2>2. CASE GoesOn(e, value[e])
    <3>1. phase'[e] = phase[e] /\ pc'[e] = "sending"
      BY <2>2 DEF GoesOn, TypeOK
    <3> QED
      BY <2>1, <3>1 DEF Owes, Open
  <2>3. CASE value[e] = Goal(e) /\ Returns(e, TRUE)
    <3>1. Owes(e)' \/ (phase[e] = "stopping" /\ initial[e] = original)
      BY <2>1, <2>3, ReturnsOpen
    <3>2. phase[e] = "stopping" /\ initial[e] = original => applied = original /\ ~Owes(e)
      BY <2>1, <2>3 DEF Goal, Owes
    <3> QED
      BY <3>1, <3>2 DEF Owes
  <2> QED
    BY <2>1, <2>2, <2>3, ContinueIs
<1>5. CASE PollTimesOut(e)
  <2>1. pc[e] # "idle" /\ Returns(e, FALSE) /\ UNCHANGED <<original, initial>>
    BY <1>5 DEF PollTimesOut
  <2> QED
    BY <2>1, ReturnsOpen DEF Owes
<1>6. CASE TransientError(e)
  <2>1. pc[e] # "idle" /\ UNCHANGED <<original, initial>>
    BY <1>6, TransientErrorIs
  <2>2. CASE Retries(e)
    <3>1. phase'[e] = phase[e] /\ pc'[e] # "polling"
      BY <2>2 DEF Retries, TypeOK
    <3> QED
      BY <2>1, <3>1 DEF Owes, Open
  <2>3. CASE Returns(e, FALSE)
    BY <2>1, <2>3, ReturnsOpen DEF Owes
  <2> QED
    BY <1>6, <2>2, <2>3, TransientErrorIs
<1> QED
  BY <1>1, <1>2, <1>3, <1>4, <1>5, <1>6 DEF Step, Handler

LEMMA OthersStayOpen ==
  ASSUME TypeOK, NEW e \in Executions, Step(e), NEW d \in Executions, d # e
  PROVE  (Open(d) => Open(d)') /\ (Owes(d) => Owes(d)')
<1>1. /\ phase'[d] = phase[d] /\ pc'[d] = pc[d] /\ initial'[d] = initial[d]
      /\ value'[d] = value[d] /\ original' = original
  BY OthersStay
<1> QED
  BY <1>1 DEF Owes, Open

(* The effect of a step of one execution on the broker: it writes its      *)
(* value, or nothing.                                                      *)
LEMMA BrokerStep ==
  ASSUME TypeOK, NEW e \in Executions, Step(e)
  PROVE  /\ applied' = applied
         /\ accepted' # accepted => /\ Send(e) /\ pc[e] = "sending" /\ Permitted(value[e])
                                    /\ accepted' = value[e]
<1> USE DEF requested, localVars
<1>1. CASE Call(e)
  BY <1>1 DEF Call, Prepare, PrepareFails, StartDirect, StopDirect, StartStepwise, StopStepwise
<1>2. CASE Handler(e) \/ TransientError(e)
  BY <1>2 DEF Handler, ReadCurrent, Send, PollSucceeds, PollTimesOut, TransientError
<1> QED
  BY <1>1, <1>2 DEF Step

LEMMA SomebodyOpenStep == IInv /\ [Next]_vars => SomebodyOpen'
<1> SUFFICES ASSUME IInv, [Next]_vars, Settles', applied' # original'
             PROVE  \E e \in Executions : Open(e)'
  BY DEF SomebodyOpen
<1> USE DEF requested, localVars
<1>1. TypeOK /\ Handlers /\ SomebodyOwes /\ SomebodyOpen /\ Settles
  BY UnsettledStays DEF IInv, Settles
<1>2. ASSUME NEW e \in Executions, Step(e) PROVE \E d \in Executions : Open(d)'
  <2>1. applied' = applied /\ original' = original
    BY <1>1, <1>2, BrokerStep DEF Step, Call, Prepare, PrepareFails, StartDirect, StopDirect,
       StartStepwise, StopStepwise, Handler, ReadCurrent, Send, PollSucceeds, PollTimesOut,
       TransientError
  <2>2. PICK d \in Executions : Open(d)
    BY <1>1, <2>1 DEF SomebodyOpen
  <2>3. CASE d = e
    BY <1>1, <1>2, <2>1, <2>2, <2>3, OpenStays
  <2>4. CASE d # e
    BY <1>1, <1>2, <2>2, <2>4, OthersStayOpen
  <2> QED
    BY <2>3, <2>4
<1>3. CASE Crash
  <2>1. /\ \E d \in Executions : Open(d)
        /\ UNCHANGED <<initial, original>>
    BY <1>1, <1>3 DEF Crash, SomebodyOpen
  <2>2. ASSUME NEW d \in Executions, Open(d) PROVE Open(d)'
    <3>1. phase'[d] = phase[d] \/ phase'[d] \in {"startFailed", "stopFailed"}
      BY <1>1, <1>3 DEF Crash, TypeOK, Handlers, Outcome
    <3> QED
      BY <2>1, <2>2, <3>1 DEF Open
  <2> QED
    BY <2>1, <2>2
<1>4. CASE Apply
  <2>1. accepted # original /\ UNCHANGED <<phase, initial, original>>
    BY <1>4 DEF Apply
  <2>2. PICK d \in Executions : Owes(d)
    BY <1>1, <2>1 DEF SomebodyOwes
  <2> QED
    BY <2>1, <2>2 DEF Owes, Open
<1>5. CASE UNCHANGED vars
  BY <1>1, <1>5 DEF vars, SomebodyOpen, Open
<1> QED
  BY <1>2, <1>3, <1>4, <1>5, StepShape

LEMMA SomebodyOwesStep == IInv /\ [Next]_vars => SomebodyOwes'
<1> SUFFICES ASSUME IInv, [Next]_vars, Settles', accepted' # original'
             PROVE  \E e \in Executions : Owes(e)'
  BY DEF SomebodyOwes
<1> USE DEF requested, localVars
<1>1. TypeOK /\ Handlers /\ SomebodyOwes /\ PendingWriter /\ Settles
  BY UnsettledStays DEF IInv, Settles
<1>2. ASSUME NEW e \in Executions, Step(e) PROVE \E d \in Executions : Owes(d)'
  <2>0. original' = original
    BY <1>2 DEF Step, Call, Prepare, PrepareFails, StartDirect, StopDirect, StartStepwise,
       StopStepwise, Handler, ReadCurrent, Send, PollSucceeds, PollTimesOut, TransientError
  <2>1. CASE accepted' # accepted
    <3>1. /\ Send(e) /\ Permitted(value[e]) /\ accepted' = value[e]
          /\ pc[e] = "sending"
      BY <1>1, <1>2, <2>1, BrokerStep
    <3>2. /\ phase'[e] = phase[e] /\ pc'[e] = "polling" /\ value'[e] = accepted'
          /\ phase[e] \in {"starting", "stopping"}
      BY <1>1, <3>1 DEF Send, TypeOK, Handlers
    <3>3. Owes(e)'
      BY <3>2 DEF Owes, Open
    <3> QED
      BY <3>3
  <2>2. CASE accepted' = accepted
    <3>1. PICK d \in Executions : Owes(d)
      BY <1>1, <2>0, <2>2 DEF SomebodyOwes
    <3>2. CASE d # e
      BY <1>1, <1>2, <3>1, <3>2, OthersStayOpen
    <3>3. CASE Owes(e)'
      BY <3>3
    <3>4. CASE ReadCurrent(e) /\ applied = original
      <4>1. pc[e] = "reading" /\ ~unsettled /\ accepted # applied
        BY <1>1, <2>0, <2>2, <3>4 DEF ReadCurrent, Handlers, Settles
      <4>2. PICK w \in Executions : pc[w] \in {"sending", "polling"} /\ value[w] = accepted
        BY <1>1, <4>1 DEF PendingWriter
      <4>3. w # e /\ Owes(w)
        <5>1. phase[w] \in {"starting", "stopping"}
          BY <1>1, <4>2 DEF Handlers
        <5> QED
          BY <2>0, <2>2, <4>1, <4>2, <5>1 DEF Owes, Open
      <4> QED
        BY <1>1, <1>2, <4>3, OthersStayOpen
    <3> QED
      BY <1>1, <1>2, <2>0, <3>1, <3>2, <3>3, <3>4, OpenStays
  <2> QED
    BY <2>1, <2>2
<1>3. CASE Crash
  <2>1. /\ \E d \in Executions : Owes(d)
        /\ UNCHANGED <<initial, original>>
    BY <1>1, <1>3 DEF Crash, SomebodyOwes
  <2>2. ASSUME NEW d \in Executions, Owes(d) PROVE Owes(d)'
    <3>1. pc'[d] = "idle" /\ (phase'[d] = phase[d] \/ phase'[d] \in {"startFailed", "stopFailed"})
      BY <1>1, <1>3 DEF Crash, TypeOK, Handlers, Outcome
    <3> QED
      BY <2>1, <2>2, <3>1 DEF Owes, Open
  <2> QED
    BY <2>1, <2>2
<1>4. CASE Apply \/ UNCHANGED vars
  BY <1>1, <1>4 DEF Apply, vars, SomebodyOwes, Owes, Open
<1> QED
  BY <1>2, <1>3, <1>4, StepShape

-------------------------------------------------------------------------------
(* The theorems for any number of executions.                              *)

LEMMA InvariantHolds == Spec => []IInv
<1>1. IInv /\ [Next]_vars => IInv'
  BY TypeStep, HandlersStep, PendingWriterStep, SomebodyOwesStep, SomebodyOpenStep DEF IInv
<1> QED
  BY InitIInv, <1>1, PTL DEF Spec

(* The handlers keep every variable in its type: no attack ever writes a   *)
(* value below one, and retryOnTransientError tries at most three times.   *)
THEOREM TypeCorrect == Spec => []TypeOK
<1>1. IInv => TypeOK
  BY DEF IInv
<1> QED
  BY InvariantHolds, <1>1, PTL

(* Once no execution is under way the broker has its original value back,  *)
(* whatever failed, was retried or overlapped, provided the stopped ones   *)
(* had saved the original value and, for a thread attack, no failed call   *)
(* has left a change behind that was still to take effect.                 *)
THEOREM StopRestores == Spec => []StoppedMeansRestored
<1>1. IInv => StoppedMeansRestored
  <2> SUFFICES ASSUME IInv, Settles,
                      \A e \in Executions :
                        \/ phase[e] \in {"new", "rejected", "prepared"}
                        \/ phase[e] = "stopped" /\ initial[e] = original
               PROVE  accepted = original /\ applied = original
    BY DEF StoppedMeansRestored, Settles
  <2>1. \A e \in Executions : ~Open(e) /\ ~Owes(e)
    BY DEF Open, Owes
  <2> QED
    BY <2>1 DEF IInv, SomebodyOwes, SomebodyOpen
<1> QED
  BY InvariantHolds, <1>1, PTL

-------------------------------------------------------------------------------
(* A thread attack alone with its broker.                                  *)

(* What the invariant says of the one execution. *)
AloneOf(e) ==
  /\ StepByStep(e)
  /\ Permitted(accepted)
  /\ ~unsettled /\ pc[e] = "sending" => Permitted(value[e])

LEMMA AloneReturns ==
  ASSUME TypeOK, Handlers, NEW e \in Executions, NEW ok \in BOOLEAN,
         pc[e] # "idle", Returns(e, ok), AloneOf(e),
         UNCHANGED <<target, initial, accepted, applied>>
  PROVE  AloneOf(e)'
<1>1. /\ phase[e] = "starting" \/ phase[e] = "stopping"
      /\ pc'[e] = "idle"
      /\ phase'[e] \in {"started", "startFailed", "stopped", "stopFailed"}
  BY ReturnsEffect
<1> QED
  BY <1>1 DEF AloneOf, StepByStep, Permitted

LEMMA AloneGoesOn ==
  ASSUME TypeOK, Handlers, NEW e \in Executions, pc[e] # "idle", AloneOf(e), Stepwise,
         GoesOn(e, applied), UNCHANGED <<target, initial, accepted, applied>>,
         phase[e] = "starting" \/ pc[e] = "polling" => accepted = applied
  PROVE  AloneOf(e)'
<1>1. /\ applied \in Nat \ {0} /\ accepted \in Nat \ {0} /\ Goal(e) \in Nat \ {0}
      /\ initial[e] \in Nat \ {0} /\ target[e] \in Nat \ {0}
      /\ phase[e] \in {"starting", "stopping"}
  BY GoalIsASize DEF TypeOK, Handlers
<1> DEFINE v == NextValue(applied, Goal(e))
<1>2. phase' = phase /\ pc'[e] = "sending" /\ value'[e] = v /\ Goal(e)' = Goal(e)
  BY DEF GoesOn, TypeOK, Goal
<1> HIDE DEF v
<1>3. /\ v \in Nat \ {0} /\ v >= applied \div 2 /\ v <= applied * 2
      /\ OnTheWay(Goal(e), v, applied)
  BY <1>1, NextValueFacts DEF v
<1>4. OnTheWay(Goal(e), v, accepted)
  <2>1. CASE accepted = applied
    BY <1>3, <2>1
  <2>2. CASE phase[e] = "stopping"
    <3>1. /\ Goal(e) = initial[e]
          /\ accepted >= applied \div 2 /\ accepted <= applied * 2
          /\ OnTheWay(initial[e], accepted, target[e])
          /\ OnTheWay(initial[e], applied, target[e])
      BY <2>2 DEF Goal, AloneOf, StepByStep, Permitted
    <3>2. \/ initial[e] <= applied /\ initial[e] <= accepted
          \/ applied <= initial[e] /\ accepted <= initial[e]
      BY <1>1, <3>1 DEF OnTheWay
    <3> QED
      BY <1>1, <3>1, <3>2, NextValueIsNotBehind DEF v
  <2> QED
    BY <1>1, <2>1, <2>2
<1>5. Permitted(value[e])' /\ Permitted(accepted)'
  BY <1>1, <1>2, <1>3 DEF Permitted, AloneOf
<1>6. StepByStep(e)'
  BY <1>1, <1>2, <1>4 DEF AloneOf, StepByStep
<1> QED
  BY <1>5, <1>6 DEF AloneOf

LEMMA AloneOfStep ==
  ASSUME IInv, Stepwise, NEW e \in Executions, AloneOf(e), Step(e)
  PROVE  AloneOf(e)'
<1> USE DEF requested, localVars
<1>1. TypeOK /\ Handlers /\ applied \in Nat \ {0} /\ accepted \in Nat \ {0}
  BY DEF IInv, TypeOK
<1>2. CASE Call(e)
  <2>1. CASE Prepare(e)
    <3>1. PICK t \in Values : target' = [target EXCEPT ![e] = t]
      BY <2>1 DEF Prepare
    <3>2. /\ phase[e] = "new" /\ phase'[e] = "prepared"
          /\ target'[e] = t /\ t \in Nat /\ initial'[e] = applied
          /\ UNCHANGED <<pc, accepted, applied, value>>
      BY <1>1, <2>1, <3>1, ConfigAssumption DEF Prepare, TypeOK
    <3>3. accepted = applied /\ pc'[e] = "idle"
      BY <1>1, <3>2 DEF AloneOf, StepByStep, Handlers
    <3>4. OnTheWay(applied, applied, t)
      BY <1>1, <3>2 DEF OnTheWay
    <3> QED
      BY <3>2, <3>3, <3>4 DEF AloneOf, StepByStep, Permitted
  <2>2. CASE PrepareFails(e)
    <3>1. /\ phase[e] = "new" /\ phase'[e] = "rejected"
          /\ UNCHANGED <<pc, accepted, applied, value>>
      BY <1>1, <2>2 DEF PrepareFails, TypeOK
    <3>2. accepted = applied /\ pc'[e] = "idle"
      BY <1>1, <3>1 DEF AloneOf, StepByStep, Handlers
    <3> QED
      BY <3>1, <3>2 DEF AloneOf, StepByStep, Permitted
  <2>3. CASE StartStepwise(e)
    <3>1. /\ phase[e] = "prepared" /\ phase'[e] = "starting" /\ pc'[e] = "reading"
          /\ UNCHANGED <<target, initial, accepted, applied, value>>
      BY <1>1, <2>3 DEF StartStepwise, TypeOK
    <3> QED
      BY <3>1 DEF AloneOf, StepByStep, Permitted
  <2>4. CASE StopStepwise(e)
    <3>1. /\ phase[e] \in {"prepared", "started", "startFailed", "stopFailed"}
          /\ phase'[e] = "stopping" /\ pc'[e] = "reading"
          /\ UNCHANGED <<target, initial, accepted, applied, value>>
      BY <1>1, <2>4 DEF StopStepwise, TypeOK
    <3> QED
      BY <3>1 DEF AloneOf, StepByStep, Permitted
  <2> QED
    BY <1>2, <2>1, <2>2, <2>3, <2>4 DEF Call, StartDirect, StopDirect
<1>3. CASE ReadCurrent(e)
  <2>1. /\ pc[e] = "reading" /\ Continue(e, applied)
        /\ UNCHANGED <<target, initial, accepted, applied>>
        /\ phase[e] = "starting" => accepted = applied
    BY <1>3 DEF ReadCurrent, AloneOf, StepByStep
  <2> QED
    BY <1>1, <2>1, ContinueIs, AloneGoesOn, AloneReturns
<1>4. CASE Send(e) /\ Permitted(value[e])
  <2>1. /\ pc[e] = "sending" /\ pc'[e] = "polling" /\ accepted' = value[e]
        /\ UNCHANGED <<phase, target, initial, value, applied>>
    BY <1>1, <1>4 DEF Send, TypeOK
  <2>2. /\ phase[e] \in {"starting", "stopping"}
        /\ Goal(e) \in Nat \ {0} /\ initial[e] \in Nat \ {0} /\ target[e] \in Nat \ {0}
        /\ value[e] \in Nat
    BY <1>1, <2>1, GoalIsASize DEF Handlers, TypeOK
  <2>3. /\ OnTheWay(Goal(e), value[e], accepted)
        /\ OnTheWay(initial[e], accepted, target[e])
        /\ Goal(e) = target[e] \/ Goal(e) = initial[e]
    BY <2>1, <2>2 DEF AloneOf, StepByStep, Goal
  <2>4. /\ OnTheWay(initial[e], value[e], target[e])
        /\ OnTheWay(Goal(e), value[e], value[e])
    BY <1>1, <2>2, <2>3 DEF OnTheWay
  <2>5. Goal(e)' = Goal(e)
    BY <2>1 DEF Goal
  <2> QED
    BY <1>4, <2>1, <2>2, <2>4, <2>5 DEF AloneOf, StepByStep, Permitted
<1>5. CASE Send(e) /\ ~Permitted(value[e])
  BY <1>1, <1>5, AloneReturns DEF Send
<1>6. CASE PollSucceeds(e)
  <2>1. /\ pc[e] = "polling" /\ applied = value[e] /\ Continue(e, applied)
        /\ UNCHANGED <<target, initial, accepted, applied>>
        /\ accepted = applied
    BY <1>6 DEF PollSucceeds, AloneOf, StepByStep
  <2> QED
    BY <1>1, <2>1, ContinueIs, AloneGoesOn, AloneReturns
<1>7. CASE PollTimesOut(e)
  BY <1>1, <1>7, AloneReturns DEF PollTimesOut
<1>8. CASE TransientError(e)
  <2>1. pc[e] # "idle" /\ UNCHANGED <<target, initial, value, accepted, applied>>
    BY <1>8, TransientErrorIs
  <2>2. CASE Retries(e)
    <3>1. /\ phase' = phase /\ unsettled' = unsettled
          /\ pc'[e] = IF pc[e] = "reading" THEN "reading" ELSE "sending"
          /\ Goal(e)' = Goal(e)
      BY <1>1, <2>1, <2>2 DEF Retries, TypeOK, Goal
    <3>2. pc[e] = "reading" \/ pc[e] = "sending" \/ pc[e] = "polling"
      BY <1>1, <2>1 DEF TypeOK
    <3>3. pc[e] = "polling" => Permitted(value[e])
      BY DEF AloneOf, StepByStep
    <3> QED
      BY <2>1, <3>1, <3>2, <3>3 DEF AloneOf, StepByStep, Permitted
  <2>3. CASE Returns(e, FALSE)
    BY <1>1, <2>1, <2>3, AloneReturns
  <2> QED
    BY <1>8, <2>2, <2>3, TransientErrorIs
<1> QED
  BY <1>2, <1>3, <1>4, <1>5, <1>6, <1>7, <1>8 DEF Step, Handler

LEMMA AloneStep == OneAtATime /\ Alone /\ [Next]_vars => Alone'
<1> SUFFICES ASSUME OneAtATime, Alone, [Next]_vars PROVE Alone'
  OBVIOUS
<1> USE DEF requested, localVars
<1>1. IInv /\ IInv' /\ TypeOK /\ Handlers /\ PendingWriter
  BY TypeStep, HandlersStep, PendingWriterStep, SomebodyOwesStep, SomebodyOpenStep DEF Alone, IInv
<1>2. CASE ~Stepwise
  BY <1>1, <1>2 DEF Alone, NeverRefused, Reach, SizeOfSteps, Permitted
<1>3. CASE Stepwise
  <2>1. \A e \in Executions : AloneOf(e)
    BY <1>3 DEF Alone, NeverRefused, Reach, SizeOfSteps, AloneOf
  <2>2. Permitted(accepted)
    BY <1>3 DEF Alone, Reach
  <2>3. /\ \A e \in Executions : AloneOf(e)'
        /\ Permitted(accepted)'
    <3>1. ASSUME NEW e \in Executions, Step(e)
          PROVE  /\ \A d \in Executions : AloneOf(d)'
                 /\ Permitted(accepted)'
      <4>1. AloneOf(e)'
        BY <1>1, <1>3, <2>1, <3>1, AloneOfStep
      <4> QED
        BY <1>3, <4>1 DEF OneAtATime, AloneOf
    <3>2. CASE Crash
      <4>1. /\ UNCHANGED <<target, initial, accepted, applied>>
            /\ \A e \in Executions :
                 /\ pc'[e] = "idle"
                 /\ phase'[e] = phase[e] \/ phase'[e] \in {"startFailed", "stopFailed"}
                 /\ phase'[e] # phase[e] => phase[e] \in {"starting", "stopping"}
        BY <1>1, <3>2 DEF Crash, TypeOK, Handlers, Outcome
      <4> QED
        BY <2>1, <2>2, <4>1 DEF AloneOf, StepByStep, Permitted
    <3>3. CASE Apply
      <4>1. /\ accepted # applied /\ applied' = accepted
            /\ UNCHANGED <<target, initial, accepted, phase, pc, value, unsettled>>
            /\ accepted \in Nat \ {0}
        BY <1>1, <3>3 DEF Apply, TypeOK
      <4>2. Permitted(accepted)'
        BY <4>1 DEF Permitted
      <4>3. ASSUME NEW e \in Executions PROVE AloneOf(e)'
        <5>1. ~unsettled => value[e] = accepted
          BY <1>1, <1>3, <4>1 DEF PendingWriter, OneAtATime
        <5>2. ~unsettled' /\ pc'[e] = "sending" => Permitted(value[e])'
          BY <4>1, <4>2, <5>1 DEF Permitted
        <5>3. StepByStep(e)'
          BY <2>1, <4>1 DEF AloneOf, StepByStep, Goal
        <5> QED
          BY <4>2, <5>2, <5>3 DEF AloneOf
      <4> QED
        BY <4>2, <4>3
    <3>4. CASE UNCHANGED vars
      BY <2>1, <2>2, <3>4 DEF vars, AloneOf, StepByStep, Permitted, Goal
    <3> QED
      BY <3>1, <3>2, <3>3, <3>4, StepShape
  <2> QED
    BY <1>1, <2>3 DEF Alone, NeverRefused, Reach, SizeOfSteps, AloneOf
<1> QED
  BY <1>2, <1>3

LEMMA InitAlone == Init => Alone
<1> SUFFICES ASSUME Init PROVE Alone
  OBVIOUS
<1>1. accepted = applied /\ accepted \in Nat \ {0}
  BY ConfigAssumption DEF Init
<1>2. Reach
  BY <1>1 DEF Reach, Permitted
<1>3. NeverRefused /\ SizeOfSteps
  BY <1>1 DEF Init, NeverRefused, SizeOfSteps, StepByStep
<1> QED
  BY <1>2, <1>3, InitIInv DEF Alone

LEMMA AloneHolds ==
  ASSUME OneAtATime
  PROVE  Spec => []Alone
<1>1. Alone /\ [Next]_vars => Alone'
  BY AloneStep
<1> QED
  BY InitAlone, <1>1, PTL DEF Spec

(* The broker refuses no step of adjustThreadsWithConfig when the execution*)
(* is alone with its broker, for all sizes and however often calls fail,   *)
(* as long as no failed call has left a change behind; the direct attacks  *)
(* are never refused.                                                      *)
THEOREM StepsArePermitted ==
  ASSUME OneAtATime
  PROVE  Spec => []NeverRefused
<1>1. Alone => NeverRefused
  BY DEF Alone
<1> QED
  BY AloneHolds, <1>1, PTL

(* Every write of a thread attack that is alone with its broker, and every *)
(* write of a direct attack, brings the broker strictly nearer to what the *)
(* handler wants or repeats the write before, and never overshoots:        *)
(* adjustThreadsWithConfig does not oscillate, also after failed calls,    *)
(* restarts and repeated Stops.                                            *)
THEOREM StepsApproachTheGoal ==
  ASSUME OneAtATime
  PROVE  Spec => StepsTowardGoal
<1>1. ASSUME Alone, [Next]_vars, NEW e \in Executions,
             pc[e] = "sending", pc'[e] = "polling", accepted' # accepted
      PROVE  Between(Goal(e), accepted', accepted)
  <2> USE DEF requested, localVars
  <2>1. TypeOK /\ Handlers
    BY <1>1 DEF Alone, IInv
  <2>2. Step(e)
    <3>1. ~Crash /\ ~Apply /\ ~UNCHANGED vars
      BY <1>1 DEF Crash, Apply, vars
    <3>2. PICK d \in Executions : Step(d)
      BY <1>1, <3>1, StepShape
    <3>3. d = e
      BY <1>1, <2>1, <3>2, OthersStay
    <3> QED
      BY <3>2, <3>3
  <2>3. accepted' = value[e]
    BY <1>1, <2>1, <2>2, BrokerStep
  <2>4. /\ value[e] \in Nat /\ accepted \in Nat
        /\ Goal(e) \in Nat
    BY <1>1, <2>1, GoalIsASize DEF TypeOK, Handlers
  <2>5. OnTheWay(Goal(e), value[e], accepted)
    <3>1. CASE Stepwise
      BY <1>1, <3>1 DEF Alone, SizeOfSteps, StepByStep
    <3>2. CASE ~Stepwise
      <4>1. value[e] = Goal(e)
        BY <1>1, <2>1, <3>2 DEF Handlers
      <4> QED
        BY <2>4, <4>1 DEF OnTheWay
    <3> QED
      BY <3>1, <3>2
  <2> QED
    BY <1>1, <2>3, <2>4, <2>5 DEF OnTheWay, Between
<1>2. Alone /\ [Next]_vars =>
        [\A e \in Executions : pc[e] = "sending" /\ pc'[e] = "polling" =>
           \/ accepted' = accepted
           \/ Between(Goal(e), accepted', accepted)]_vars
  BY <1>1
<1> QED
  BY <1>2, AloneHolds, PTL DEF Spec, StepsTowardGoal
================================================================================
