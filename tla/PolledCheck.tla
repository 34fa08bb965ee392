------------------------------ MODULE PolledCheck ------------------------------
(***************************************************************************)
(* What the four checks have in common.  The agent calls Prepare, then     *)
(* Start, then Status every second or two.  Start calls the function       *)
(* behind Status and hands its answer on, without Completed.  The agent    *)
(* keeps the state of the check between the calls, so that a restart of    *)
(* the extension between two of them loses nothing.  A Start that answers  *)
(* with an error is the end of the check.  After a Status that does, the   *)
(* agent may end it; it is not obliged to, and the fail-early checks are   *)
(* written to recover.                                                     *)
(*                                                                         *)
(* A poll reads the clock, then asks the brokers.  The clock may pass the  *)
(* end of the check while the answer is on its way.                        *)
(***************************************************************************)
EXTENDS Integers, Sequences

CONSTANT
  MaxPolls  \* bound on the polls that are answered; the last comes after End

ASSUME PollsAssumption == MaxPolls \in Nat \ 0..2

VARIABLES
  phase,      \* new, prepared, starting: Start asks the brokers, waiting for
              \* the next Status, asking: Status asks the brokers, ended
  afterEnd,   \* the clock has passed state.End
  completed,  \* now.After(state.End), with now as read by the poll under way
  expected,   \* ExpectedChanges, ExpectedState
  mode,       \* StateCheckMode
  failEarly,  \* FailEarly
  success,    \* StateCheckSuccess
  title,      \* DeviationTitle: what deviated first; NoTitle: no DeviationSeen
  observed,   \* history: what the brokers answered, poll by poll
  reported,   \* history: some answer to the agent carried a Failed error
  concluded   \* history: a poll that began after the end was answered

parameters == <<expected, mode, failEarly>>
history == <<observed, reported, concluded>>
checkVars == <<phase, afterEnd, completed, parameters, success, title, history>>

AllTheTime  == "allTheTime"
AtLeastOnce == "atLeastOnce"
Modes == {AllTheTime, AtLeastOnce}

NoTitle == {}
Breach  == {"lag"}

CheckInit ==
  /\ phase = "new"
  /\ afterEnd = FALSE /\ completed = FALSE
  /\ expected = {} /\ mode = AllTheTime /\ failEarly = TRUE
  /\ success = FALSE /\ title = NoTitle
  /\ observed = <<>> /\ reported = FALSE /\ concluded = FALSE

(* The parameters of the request, whatever the user chose. *)
CheckPrepare(choices) ==
  /\ phase = "new"
  /\ phase' = "prepared"
  /\ expected' \in SUBSET choices
  /\ mode' \in Modes
  /\ failEarly' \in BOOLEAN
  /\ UNCHANGED <<afterEnd, completed, success, title, reported, concluded>>

(* now := time.Now(), at the head of each of the four status functions. *)
PollBegins ==
  /\ \/ phase = "prepared" /\ phase' = "starting"
     \/ phase = "waiting" /\ phase' = "asking"
  /\ Len(observed) < MaxPolls - 1 \/ afterEnd
  /\ completed' = afterEnd
  /\ UNCHANGED <<afterEnd, parameters, success, title, history>>

(* The cluster is not configured, the brokers cannot be reached or answer  *)
(* with an error: the call fails before it has changed the state.          *)
PollFails ==
  /\ \/ phase = "starting" /\ phase' = "ended"
     \/ phase = "asking" /\ phase' = "waiting"
  /\ UNCHANGED <<afterEnd, completed, parameters, success, title, history>>

EndPasses ==
  /\ ~afterEnd
  /\ phase \notin {"new", "ended"}
  /\ afterEnd' = TRUE
  /\ UNCHANGED <<phase, completed, parameters, success, title, history>>

MustMatchOnce == expected # {} /\ mode = AtLeastOnce

Asking == phase \in {"starting", "asking"}

(* Seeded fault: the clock is read when the answer is there. *)
AnswersByLateClock(deviations) ==
  /\ LET error ==
           \/ failEarly /\ deviations # {}
           \/ ~failEarly /\ afterEnd /\ title' # NoTitle
           \/ MustMatchOnce /\ afterEnd /\ ~success'
     IN /\ reported' = (reported \/ error)
        /\ phase' = IF (phase = "starting" /\ error) \/ (phase = "asking" /\ afterEnd)
                    THEN "ended" ELSE "waiting"
  /\ concluded' = (concluded \/ completed)
  /\ UNCHANGED <<afterEnd, completed, parameters>>

(* The poll returns: its Error, if it carries one, and Completed, which    *)
(* Start has no field for, so that a Status follows a Start after the end. *)
Answers(deviations) ==
  /\ LET error ==
           \/ failEarly /\ deviations # {}
           \/ ~failEarly /\ completed /\ title' # NoTitle
           \/ MustMatchOnce /\ completed /\ ~success'
     IN /\ reported' = (reported \/ error)
        /\ phase' = IF (phase = "starting" /\ error) \/ (phase = "asking" /\ completed)
                    THEN "ended" ELSE "waiting"
  /\ concluded' = (concluded \/ completed)
  /\ UNCHANGED <<afterEnd, completed, parameters>>

(* Seeded fault: a later deviation replaces the title of the first one. *)
JudgeByLastTitle(answer, deviations, hit) ==
  /\ Asking
  /\ observed' = Append(observed, answer)
  /\ success' = (success \/ (MustMatchOnce /\ hit))
  /\ IF deviations = {} \/ failEarly THEN UNCHANGED title ELSE title' \in deviations
  /\ Answers(deviations)

(* The end of a status function: deviations are the titles recordDeviation *)
(* gets in this poll, in any order; hit says that something expected was   *)
(* seen.                                                                   *)
Judge(answer, deviations, hit) ==
  /\ Asking
  /\ observed' = Append(observed, answer)
  /\ success' = (success \/ (MustMatchOnce /\ hit))
  /\ IF deviations = {} \/ failEarly \/ title # NoTitle
     THEN UNCHANGED title
     ELSE title' \in deviations
  /\ Answers(deviations)

(* The agent makes no more calls once Status says completed. *)
Ended == phase = "ended" /\ UNCHANGED checkVars

PollOrClock == PollBegins \/ PollFails \/ EndPasses \/ Ended

CheckTypeOK(choices) ==
  /\ phase \in {"new", "prepared", "starting", "waiting", "asking", "ended"}
  /\ afterEnd \in BOOLEAN /\ completed \in BOOLEAN
  /\ expected \subseteq choices /\ mode \in Modes /\ failEarly \in BOOLEAN
  /\ success \in BOOLEAN /\ (failEarly => title \in {NoTitle, Breach})
  /\ reported \in BOOLEAN /\ concluded \in BOOLEAN
  /\ completed \/ concluded => afterEnd
  /\ Len(observed) <= MaxPolls

(* When a failure is due: one that needs the whole history at the end of   *)
(* the check, one that fails early with the poll that deviates.            *)
Due == concluded \/ (failEarly /\ ~MustMatchOnce)

(* The first of the polls for which Deviated holds. *)
IsFirst(i, polls, Deviated(_)) ==
  i \in polls /\ Deviated(i) /\ \A j \in polls : Deviated(j) => i <= j
================================================================================
