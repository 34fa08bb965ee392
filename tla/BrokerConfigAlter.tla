--------------------------- MODULE BrokerConfigAlter ---------------------------
(***************************************************************************)
(* The four attacks that change one configuration value of one broker and  *)
(* change it back: alter_max_message_bytes.go and alter_limit_connection_  *)
(* creation_rate.go write the value at once, alter_num_io_threads.go and   *)
(* alter_num_network_threads.go (Stepwise) approach it in steps, because   *)
(* Kafka refuses to more than double or halve a thread pool.               *)
(*                                                                         *)
(* A handler runs alone for its execution but next to the handlers of      *)
(* other executions.  The broker accepts a change at once and applies it   *)
(* later; doAlterConfig polls until the change can be read back.  If several *)
(* changes are accepted meanwhile, Apply goes to the last of them: passing *)
(* through the others is what a broker could have done before.             *)
(*                                                                         *)
(* The values are positive.  Prepare accepts others, too: a number of      *)
(* threads below one or a limit below zero, which the brokers refuse so    *)
(* that Start fails, and the limit zero, a value like any other.           *)
(***************************************************************************)
EXTENDS Integers

CONSTANTS
  Executions,  \* executions of the same attack against the same broker
  Values,      \* configuration values: the broker's own and the ones asked for
  Stepwise,    \* TRUE: one of the two thread attacks
  Faults       \* what may go wrong, if anything does: {"slow", "transient", "crash"}

ASSUME ConfigAssumption ==
  /\ Values \subseteq Nat \ {0} /\ Values # {}
  /\ Stepwise \in BOOLEAN
  /\ Faults \subseteq {"slow", "transient", "crash"}

VARIABLES
  original,  \* the broker's value before all executions; it never changes
  faults,    \* what goes wrong in this behaviour: nothing, or Faults
  phase,     \* how far the agent's calls of an execution have come
  pc,        \* where the handler under way is: idle, reading, sending, polling
  target,    \* TargetBrokerConfigValue, a parameter of the request
  initial,   \* InitialBrokerConfigValue, saved by Prepare
  value,     \* the value doAlterConfig is writing
  attempt,   \* failed attempts of retryOnTransientError
  accepted,  \* the value the brokers have accepted last
  applied,   \* the value in effect, the one a describe request returns
  unsettled  \* history: a call has failed while a change was still to be applied

requested == <<original, faults, target>>
localVars == <<phase, pc, initial, value, attempt>>
vars == <<requested, localVars, accepted, applied, unsettled>>

Phases == {"new", "rejected", "prepared", "starting", "started", "startFailed",
           "stopping", "stopped", "stopFailed"}

MaxAttempts == 3

Init ==
  /\ phase = [e \in Executions |-> "new"]
  /\ pc = [e \in Executions |-> "idle"]
  /\ target = [e \in Executions |-> 0]
  /\ initial = [e \in Executions |-> 0]
  /\ value = [e \in Executions |-> 0]
  /\ attempt = [e \in Executions |-> 0]
  /\ original \in Values
  /\ faults \in {{}, Faults}
  /\ accepted = original
  /\ applied = original
  /\ unsettled = FALSE

-------------------------------------------------------------------------------
Larger(a, b)  == IF a >= b THEN a ELSE b
Smaller(a, b) == IF a <= b THEN a ELSE b

(* Seeded faults: single definitions as a plausible bug would change them. *)
NextValueUnbounded(current, goal) == goal
NextValueStuck(current, goal) ==
  Larger(Smaller(goal, current), current \div 2)
NextValueOvershoots(current, goal) ==
  IF goal > current THEN current * 2 ELSE current \div 2

(* max(min(targetValue, currentValue*2), currentValue/2) *)
NextValue(current, goal) ==
  Larger(Smaller(goal, current * 2), current \div 2)

(* What the handler under way wants the value to be. *)
Goal(e) == IF phase[e] = "starting" THEN target[e] ELSE initial[e]

(* The broker's own limit on a change of the size of a thread pool. *)
Permitted(v) == Stepwise => v >= 1 /\ v >= applied \div 2 /\ v <= applied * 2

(* The end of a handler, as the agent learns of it. *)
Outcome(e, ok) ==
  CASE phase[e] = "starting" -> IF ok THEN "started" ELSE "startFailed"
    [] phase[e] = "stopping" -> IF ok THEN "stopped" ELSE "stopFailed"

Returns(e, ok) ==
  /\ phase' = [phase EXCEPT ![e] = Outcome(e, ok)]
  /\ pc' = [pc EXCEPT ![e] = "idle"]
  /\ unsettled' = (unsettled \/ (~ok /\ accepted # applied))

(* The next call of doAlterConfig, or the end of the loop at the goal. *)
Continue(e, current) ==
  /\ attempt' = [attempt EXCEPT ![e] = 0]
  /\ IF current = Goal(e)
     THEN Returns(e, TRUE) /\ UNCHANGED value
     ELSE /\ pc' = [pc EXCEPT ![e] = "sending"]
          /\ value' = [value EXCEPT ![e] = NextValue(current, Goal(e))]
          /\ UNCHANGED <<phase, unsettled>>

-------------------------------------------------------------------------------
(* Prepare: GetClusterConfig and the request attributes are given; what    *)
(* can fail is the describe request.                                       *)
Prepare(e) ==
  /\ phase[e] = "new"
  /\ phase' = [phase EXCEPT ![e] = "prepared"]
  /\ \E t \in Values : target' = [target EXCEPT ![e] = t]
  /\ initial' = [initial EXCEPT ![e] = applied]
  /\ UNCHANGED <<original, faults, pc, value, attempt, accepted, applied, unsettled>>

PrepareFails(e) ==
  /\ phase[e] = "new"
  /\ "transient" \in faults
  /\ phase' = [phase EXCEPT ![e] = "rejected"]
  /\ UNCHANGED <<requested, pc, initial, value, attempt, accepted, applied, unsettled>>

(* Start and Stop of the two direct attacks: alterConfigIntWithConfig with *)
(* the target and with the value that Prepare saved.                       *)
StartDirect(e) ==
  /\ ~Stepwise
  /\ phase[e] = "prepared"
  /\ phase' = [phase EXCEPT ![e] = "starting"]
  /\ pc' = [pc EXCEPT ![e] = "sending"]
  /\ value' = [value EXCEPT ![e] = target[e]]
  /\ attempt' = [attempt EXCEPT ![e] = 0]
  /\ UNCHANGED <<requested, initial, accepted, applied, unsettled>>

StopDirect(e) ==
  /\ ~Stepwise
  /\ phase[e] \in {"prepared", "started", "startFailed", "stopFailed"}
  /\ phase' = [phase EXCEPT ![e] = "stopping"]
  /\ pc' = [pc EXCEPT ![e] = "sending"]
  /\ value' = [value EXCEPT ![e] = initial[e]]
  /\ attempt' = [attempt EXCEPT ![e] = 0]
  /\ UNCHANGED <<requested, initial, accepted, applied, unsettled>>

(* Start and Stop of the two thread attacks: adjustThreadsWithConfig,      *)
(* which reads the current value first.                                    *)
StartStepwise(e) ==
  /\ Stepwise
  /\ phase[e] = "prepared"
  /\ phase' = [phase EXCEPT ![e] = "starting"]
  /\ pc' = [pc EXCEPT ![e] = "reading"]
  /\ attempt' = [attempt EXCEPT ![e] = 0]
  /\ UNCHANGED <<requested, initial, value, accepted, applied, unsettled>>

StopStepwise(e) ==
  /\ Stepwise
  /\ phase[e] \in {"prepared", "started", "startFailed", "stopFailed"}
  /\ phase' = [phase EXCEPT ![e] = "stopping"]
  /\ pc' = [pc EXCEPT ![e] = "reading"]
  /\ attempt' = [attempt EXCEPT ![e] = 0]
  /\ UNCHANGED <<requested, initial, value, accepted, applied, unsettled>>

(* describeConfigIntWithConfig at the head of adjustThreadsWithConfig *)
ReadCurrent(e) ==
  /\ pc[e] = "reading"
  /\ Continue(e, applied)
  /\ UNCHANGED <<requested, initial, accepted, applied>>

(* AlterBrokerConfigs in doAlterConfig; a refusal is not transient. *)
Send(e) ==
  /\ pc[e] = "sending"
  /\ IF Permitted(value[e])
     THEN /\ accepted' = value[e]
          /\ pc' = [pc EXCEPT ![e] = "polling"]
          /\ UNCHANGED <<phase, unsettled>>
     ELSE Returns(e, FALSE) /\ UNCHANGED accepted
  /\ UNCHANGED <<requested, initial, value, attempt, applied>>

(* Seeded faults. *)
SendIsEnough(e) ==
  /\ pc[e] = "polling"
  /\ Continue(e, value[e])
  /\ UNCHANGED <<requested, initial, accepted, applied>>

TransientErrorOnceMore(e) ==
  /\ "transient" \in faults
  /\ pc[e] # "idle"
  /\ IF attempt[e] < MaxAttempts
     THEN /\ attempt' = [attempt EXCEPT ![e] = @ + 1]
          /\ pc' = [pc EXCEPT ![e] = IF @ = "reading" THEN "reading" ELSE "sending"]
          /\ UNCHANGED <<phase, unsettled>>
     ELSE Returns(e, FALSE) /\ UNCHANGED attempt
  /\ UNCHANGED <<requested, initial, value, accepted, applied>>

TransientErrorUncounted(e) ==
  /\ "transient" \in faults
  /\ pc[e] # "idle"
  /\ pc' = [pc EXCEPT ![e] = IF @ = "reading" THEN "reading" ELSE "sending"]
  /\ UNCHANGED <<requested, phase, initial, value, attempt, accepted, applied, unsettled>>

(* The poll loop of doAlterConfig reads the value back. *)
PollSucceeds(e) ==
  /\ pc[e] = "polling"
  /\ applied = value[e]
  /\ Continue(e, value[e])
  /\ UNCHANGED <<requested, initial, accepted, applied>>

(* "was not applied in time": five seconds without the value, because the  *)
(* broker is slow or because another execution has written its own.        *)
PollTimesOut(e) ==
  /\ pc[e] = "polling"
  /\ applied # value[e]
  /\ "slow" \in faults \/ accepted # value[e]
  /\ Returns(e, FALSE)
  /\ UNCHANGED <<requested, initial, value, attempt, accepted, applied>>

(* retryOnTransientError runs the whole function again: a describe starts  *)
(* over, and so does an alter, also when its change was accepted already.  *)
TransientError(e) ==
  /\ "transient" \in faults
  /\ pc[e] # "idle"
  /\ IF attempt[e] + 1 < MaxAttempts
     THEN /\ attempt' = [attempt EXCEPT ![e] = @ + 1]
          /\ pc' = [pc EXCEPT ![e] = IF @ = "reading" THEN "reading" ELSE "sending"]
          /\ UNCHANGED <<phase, unsettled>>
     ELSE Returns(e, FALSE) /\ UNCHANGED attempt
  /\ UNCHANGED <<requested, initial, value, accepted, applied>>

(* The extension restarts; the agent keeps the states of the executions    *)
(* and sees all calls that were under way fail.                            *)
Crash ==
  /\ "crash" \in faults
  /\ \E e \in Executions : pc[e] # "idle"
  /\ phase' = [e \in Executions |-> IF pc[e] = "idle" THEN phase[e] ELSE Outcome(e, FALSE)]
  /\ pc' = [e \in Executions |-> "idle"]
  /\ unsettled' = (unsettled \/ accepted # applied)
  /\ UNCHANGED <<requested, initial, value, attempt, accepted, applied>>

(* The broker puts an accepted change into effect. *)
Apply ==
  /\ applied # accepted
  /\ applied' = accepted
  /\ UNCHANGED <<requested, localVars, accepted, unsettled>>

Handler(e) == ReadCurrent(e) \/ Send(e) \/ PollSucceeds(e) \/ PollTimesOut(e)

(* An execution that was stopped, or never prepared, gets no more calls. *)
Finished ==
  /\ \A e \in Executions : phase[e] \in {"rejected", "stopped"}
  /\ applied = accepted
  /\ UNCHANGED vars

Next ==
  \/ \E e \in Executions :
       \/ Prepare(e) \/ PrepareFails(e)
       \/ StartDirect(e) \/ StopDirect(e) \/ StartStepwise(e) \/ StopStepwise(e)
       \/ Handler(e) \/ TransientError(e)
  \/ Crash
  \/ Apply
  \/ Finished

Spec == Init /\ [][Next]_vars

(* A handler runs on, a broker applies what it has accepted; nothing need  *)
(* ever fail.                                                              *)
FairSpec ==
  /\ Spec
  /\ WF_vars(Apply)
  /\ \A e \in Executions : WF_vars(Handler(e))

-------------------------------------------------------------------------------
(* Every variable has a value the program can give it; a handler never     *)
(* writes a value below one.                                               *)
TypeOK ==
  /\ original \in Values /\ faults \subseteq Faults
  /\ target \in [Executions -> Values \cup {0}]
  /\ phase \in [Executions -> Phases]
  /\ pc \in [Executions -> {"idle", "reading", "sending", "polling"}]
  /\ initial \in [Executions -> Nat]
  /\ value \in [Executions -> Nat]
  /\ attempt \in [Executions -> 0..MaxAttempts - 1]
  /\ accepted \in Nat \ {0}
  /\ applied \in Nat \ {0}
  /\ \A e \in Executions : pc[e] \in {"sending", "polling"} => value[e] >= 1
  /\ unsettled \in BOOLEAN

(* Once no execution is under way, the broker is back at its original      *)
(* value and no other change is on its way, however far the Starts came    *)
(* and however often a Stop had to be repeated, provided the stopped       *)
(* executions were all prepared while the broker had that value: they may  *)
(* overlap after that.  A thread attack reads the value in effect before   *)
(* it writes, and needs every change that a failed call of its own has     *)
(* left behind to have taken effect when that call ended.                  *)
StoppedMeansRestored ==
  (/\ Stepwise => ~unsettled
   /\ \A e \in Executions :
        \/ phase[e] \in {"new", "rejected", "prepared"}
        \/ phase[e] = "stopped" /\ initial[e] = original)
  => accepted = original /\ applied = original

(* The broker refuses no step for being too large, as long as every change *)
(* takes effect before the next call reads the value; resumed from any     *)
(* value at which a call before has failed.                                *)
NeverRefused ==
  ~unsettled => \A e \in Executions : pc[e] = "sending" => Permitted(value[e])

(* Every write brings the broker strictly nearer to what the handler wants *)
(* or repeats the write before, and never overshoots.                      *)
Between(a, b, c) == (a <= b /\ b < c) \/ (c < b /\ b <= a)
StepsTowardGoal ==
  [][\A e \in Executions : pc[e] = "sending" /\ pc'[e] = "polling" =>
       \/ accepted' = accepted
       \/ Between(Goal(e), accepted', accepted)]_vars

(* A Start or Stop call comes to an end, also when it needs many steps.    *)
CallsEnd == \A e \in Executions : pc[e] # "idle" ~> pc[e] = "idle"

(* If nothing fails, Start ends at the target and Stop at the original     *)
(* value, in however many steps it takes.                                  *)
GoalReached ==
  \A e \in Executions :
    /\ faults = {} /\ phase[e] = "starting" ~> phase[e] = "started" /\ applied = target[e]
    /\ faults = {} /\ phase[e] = "stopping" ~> phase[e] = "stopped" /\ applied = original

-------------------------------------------------------------------------------
(* What a description of the attacks says and the program does not do.     *)

(* "original broker configuration value is automatically restored": once   *)
(* every execution has been stopped and the broker has settled.            *)
OverlapRestored ==
  (/\ \A e \in Executions : phase[e] = "stopped"
   /\ applied = accepted) => applied = original
================================================================================
