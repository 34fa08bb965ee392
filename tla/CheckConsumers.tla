---------------------------- MODULE CheckConsumers -----------------------------
(***************************************************************************)
(* The two checks of a consumer group.  check_consumer_group.go compares   *)
(* its state with the states the user expects, check_topic_lag_for_        *)
(* consumer.go its lag on one topic with a threshold; neither needs        *)
(* anything from the polls before.                                         *)
(***************************************************************************)
EXTENDS PolledCheck

CONSTANTS
  States,   \* states of a consumer group, those a user can choose
  NoState,  \* the empty state of a group the answer does not hold
  Lags,     \* lags of the topic, and thresholds
  NoLag     \* an answer without this topic: it may be misspelled

ASSUME StatesAssumption == NoState \notin States
ASSUME LagsAssumption == Lags \subseteq Nat /\ 0 \in Lags /\ NoLag \notin Lags

VARIABLE
  acceptableLag  \* AcceptableLag

-------------------------------------------------------------------------------
(* The state of the group.                                                 *)

GroupPrepare == CheckPrepare(States) /\ UNCHANGED observed

(* Seeded fault: the group that is missing is passed over. *)
GroupDeviationsIfFound(state) ==
  IF expected # {} /\ mode = AllTheTime /\ state \notin expected \cup {NoState}
  THEN {{state}} ELSE {}

(* A group without a description has the empty state, which nobody can     *)
(* expect; without expected states nothing is checked.                     *)
GroupDeviations(state) ==
  IF expected # {} /\ mode = AllTheTime /\ state \notin expected THEN {{state}} ELSE {}

ConsumerGroupCheckStatus ==
  \E state \in States \cup {NoState} :
    Judge(state, GroupDeviations(state), state \in expected)

GroupNext == GroupPrepare \/ ConsumerGroupCheckStatus \/ PollOrClock

-------------------------------------------------------------------------------
(* The lag.  This check has no expected changes and no mode: expected      *)
(* stays empty, and the title Breach stands for StateCheckFailed.          *)

LagInit == acceptableLag = 0

LagPrepare ==
  /\ phase = "new"
  /\ phase' = "prepared"
  /\ acceptableLag' \in Lags
  /\ failEarly' \in BOOLEAN
  /\ UNCHANGED <<afterEnd, completed, expected, mode, success, title, history>>

(* groupLag.Lag.TotalByTopic()[state.Topic].Lag; a topic that the group    *)
(* has no offset for is not in that map, and its zero value has lag 0.     *)
LagOf(answer) == IF answer = NoLag THEN 0 ELSE answer

(* Seeded fault: a lag that recovers before the end is forgotten. *)
LagStatusForgetsBreach ==
  /\ Asking
  /\ \E answer \in Lags \cup {NoLag} :
       LET breaching == LagOf(answer) >= acceptableLag
       IN  /\ observed' = Append(observed, answer)
           /\ title' = IF breaching THEN Breach ELSE NoTitle
           /\ success' = (success \/ ~breaching)
           /\ Answers(IF breaching THEN {Breach} ELSE {})
  /\ UNCHANGED acceptableLag

ConsumerGroupLagCheckStatus ==
  /\ Asking
  /\ \E answer \in Lags \cup {NoLag} :
       LET breaching == LagOf(answer) >= acceptableLag
       IN  /\ observed' = Append(observed, answer)
           /\ title' = IF breaching THEN Breach ELSE title
           /\ success' = (success \/ ~breaching)
           /\ Answers(IF breaching THEN {Breach} ELSE {})
  /\ UNCHANGED acceptableLag

LagNext ==
  \/ LagPrepare
  \/ ConsumerGroupLagCheckStatus
  \/ PollOrClock /\ UNCHANGED acceptableLag

-------------------------------------------------------------------------------
GroupDeviatedAt(i) == observed[i] \notin expected

GroupFulfilled ==
  \/ expected = {}
  \/ mode = AllTheTime /\ \A i \in 1..Len(observed) : ~GroupDeviatedAt(i)
  \/ mode = AtLeastOnce /\ \E i \in 1..Len(observed) : ~GroupDeviatedAt(i)

GroupVerdict == phase # "new" => (reported <=> Due /\ ~GroupFulfilled)

GroupFirstKept ==
  expected # {} /\ mode = AllTheTime /\ ~failEarly =>
    /\ (\A i \in 1..Len(observed) : ~GroupDeviatedAt(i)) => title = NoTitle
    /\ \A i \in 1..Len(observed) :
         IsFirst(i, 1..Len(observed), GroupDeviatedAt) => title = {observed[i]}

LagVerdict ==
  phase # "new" =>
    (reported <=> Due /\ \E i \in 1..Len(observed) : LagOf(observed[i]) >= acceptableLag)
================================================================================
