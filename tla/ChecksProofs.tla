----------------------------- MODULE ChecksProofs ------------------------------
(***************************************************************************)
(* Proofs about Checks: any sets of brokers, partitions, states and lags,  *)
(* and any number of polls.                                                *)
(***************************************************************************)
EXTENDS Checks, SequenceTheorems, TLAPS

-------------------------------------------------------------------------------
(* The invariant.                                                          *)

(* Before Start returns there is next to no history, and nothing has been  *)
(* told.  The answer of a poll after the end is the last, unless it is     *)
(* that of a Start, which is followed by a Status if all is well.          *)
Polling ==
  /\ phase = "new" => observed = << >>
  /\ phase \in {"prepared", "starting"} => Len(observed) <= 1
  /\ phase \in {"new", "prepared", "starting"} => ~reported /\ ~concluded
  /\ phase # "ended" => Len(observed) <= MaxPolls - 1
  /\ phase = "asking" /\ ~completed => Len(observed) < MaxPolls - 1
  /\ concluded /\ phase # "ended" => ~reported
  /\ concluded /\ phase = "asking" => completed

(* What the state of a check and the agent know of its history: whether    *)
(* some poll deviated, and whether one showed something expected.          *)
Told(deviated, hit) ==
  /\ success <=> MustMatchOnce /\ hit
  /\ title = NoTitle <=> failEarly \/ ~deviated
  /\ reported <=> \/ failEarly /\ deviated
                  \/ concluded /\ (deviated \/ (MustMatchOnce /\ ~hit))

Polls == 1..Len(observed)

BrokersDeviated == \E i \in BrokerPolls : BrokersDeviatedAt(i)
BrokersHit      == \E i \in BrokerPolls : BrokersChangedAt(i) \cap expected # {}

BrokersInv ==
  /\ observed \in Seq(Metadata)
  /\ phase # "new" => observed # << >>
  /\ Told(BrokersDeviated, BrokersHit)
  /\ BrokersFirstKept

(* Without expected changes the check of partitions says nothing. *)
PartitionsDeviated == expected # {} /\ \E i \in Polls : PartitionsDeviatedAt(i)
PartitionsHit      == \E i \in Polls : PartitionsChangedAt(i) \cap expected # {}

(* The last poll that saw a partition is a poll. *)
SeenInPolls == \A i \in 0..Len(observed), p \in Partitions : LastSeen(p, i) \in 0..i

PartitionsInv ==
  /\ observed \in Seq(Topics)
  /\ SeenInPolls
  /\ Told(PartitionsDeviated, PartitionsHit)
  /\ PartitionsFirstKept

GroupDeviated == expected # {} /\ mode = AllTheTime /\ \E i \in Polls : GroupDeviatedAt(i)
GroupHit      == \E i \in Polls : ~GroupDeviatedAt(i)

GroupInv ==
  /\ observed \in Seq(States \cup {NoState})
  /\ Told(GroupDeviated, GroupHit)
  /\ GroupFirstKept

LagBreached == \E i \in Polls : LagOf(observed[i]) >= acceptableLag

(* The check of the lag uses success and title in its own way. *)
LagInv ==
  /\ observed \in Seq(Lags \cup {NoLag})
  /\ expected = {}
  /\ title = NoTitle <=> ~LagBreached
  /\ reported <=> LagBreached /\ (failEarly \/ concluded)

IInv ==
  /\ TypeOK
  /\ Polling
  /\ check \in {"brokers", "partitions", "group", "lag"}
  /\ check = "brokers" => BrokersInv
  /\ check = "partitions" => PartitionsInv
  /\ check = "group" => GroupInv
  /\ check = "lag" => LagInv

-------------------------------------------------------------------------------
(* Facts about every check.                                                *)

(* What appending does to a history. *)
LEMMA Appended ==
  ASSUME NEW S, NEW s \in Seq(S), NEW e \in S, NEW n \in Nat, n = Len(s)
  PROVE  /\ Append(s, e) \in Seq(S)
         /\ Len(Append(s, e)) = n + 1
         /\ \A i \in 1..n : Append(s, e)[i] = s[i]
         /\ Append(s, e)[n + 1] = e
  BY AppendProperties, LenProperties

(* Prepare gives the parameters legal values. *)
LEMMA PrepareTypes ==
  ASSUME NEW choices, CheckTypeOK(choices), Polling, CheckPrepare(choices),
         Len(observed') \in {0, 1}, failEarly' => title \in {NoTitle, Breach}
  PROVE  CheckTypeOK(choices)' /\ Polling'
<1>1. /\ phase = "new" /\ phase' = "prepared"
      /\ expected' \in SUBSET choices /\ mode' \in Modes /\ failEarly' \in BOOLEAN
      /\ UNCHANGED <<afterEnd, completed, success, title, reported, concluded>>
  BY DEF CheckPrepare
<1>2. Len(observed') <= 1 /\ Len(observed') <= MaxPolls - 1 /\ Len(observed') <= MaxPolls
  <2>1. PICK n \in {0, 1} : n = Len(observed')
    OBVIOUS
  <2> QED
    BY <2>1, PollsAssumption
<1>3. CheckTypeOK(choices)'
  BY <1>1, <1>2 DEF CheckTypeOK
<1>4. Polling'
  BY <1>1, <1>2 DEF Polling
<1> QED
  BY <1>3, <1>4

(* Whatever happens between the polls touches neither the history nor what *)
(* is known of it.                                                         *)
LEMMA PollOrClockKeeps ==
  ASSUME NEW choices, CheckTypeOK(choices), Polling, Len(observed) \in Nat, PollOrClock
  PROVE  /\ CheckTypeOK(choices)' /\ Polling'
         /\ UNCHANGED <<expected, mode, failEarly, success, title, observed, reported, concluded>>
         /\ phase # "new" /\ phase' # "new"
<1>1. CASE PollBegins
  BY <1>1, PollsAssumption DEF PollBegins, CheckTypeOK, Polling, parameters, history
<1>2. CASE PollFails
  BY <1>2, PollsAssumption DEF PollFails, CheckTypeOK, Polling, parameters, history
<1>3. CASE EndPasses
  BY <1>3, PollsAssumption DEF EndPasses, CheckTypeOK, Polling, parameters, history
<1>4. CASE Ended
  BY <1>4 DEF Ended, CheckTypeOK, Polling, checkVars, parameters, history
<1> QED
  BY <1>1, <1>2, <1>3, <1>4 DEF PollOrClock

(* A poll that returns adds one answer, and the one after the end is the   *)
(* last.                                                                   *)
LEMMA AnswersTypes ==
  ASSUME NEW choices, CheckTypeOK(choices), Polling, NEW n \in Nat, n = Len(observed),
         Len(observed') = n + 1, Asking, NEW deviations, Answers(deviations),
         success' \in BOOLEAN, failEarly => title' \in {NoTitle, Breach}
  PROVE  CheckTypeOK(choices)' /\ Polling'
<1>1. PICK error \in BOOLEAN :
        /\ reported' = (reported \/ error)
        /\ phase' = IF (phase = "starting" /\ error) \/ (phase = "asking" /\ completed)
                    THEN "ended" ELSE "waiting"
  BY DEF Answers
<1>2. /\ concluded' = (concluded \/ completed)
      /\ UNCHANGED <<afterEnd, completed, expected, mode, failEarly>>
  BY DEF Answers, parameters
<1>3. CASE phase = "starting"
  BY <1>1, <1>2, <1>3, PollsAssumption DEF CheckTypeOK, Polling
<1>4. CASE phase = "asking"
  BY <1>1, <1>2, <1>4, PollsAssumption DEF CheckTypeOK, Polling
<1> QED
  BY <1>3, <1>4 DEF Asking

(* What a poll tells is added to what has been told, d and h stand for the *)
(* history before it.                                                      *)
LEMMA JudgeTells ==
  ASSUME NEW choices, CheckTypeOK(choices), Polling,
         NEW d \in BOOLEAN, NEW h \in BOOLEAN, Told(d, h),
         NEW answer, NEW deviations, NEW hit \in BOOLEAN,
         Judge(answer, deviations, hit), NoTitle \notin deviations,
         (d \/ deviations # {}) => ~MustMatchOnce
  PROVE  Told(d \/ deviations # {}, h \/ hit)'
<1>1. /\ Asking /\ UNCHANGED <<expected, mode, failEarly, completed>>
      /\ concluded' = (concluded \/ completed)
      /\ success' = (success \/ (MustMatchOnce /\ hit))
      /\ reported' = (reported \/ (failEarly /\ deviations # {})
                        \/ (~failEarly /\ completed /\ title' # NoTitle)
                        \/ (MustMatchOnce /\ completed /\ ~success'))
  BY DEF Judge, Answers, parameters
<1>2. MustMatchOnce' = MustMatchOnce
  BY <1>1 DEF MustMatchOnce
<1>3. title' = NoTitle <=> failEarly \/ ~(d \/ deviations # {})
  BY DEF Told, Judge, CheckTypeOK
<1>4. success' <=> MustMatchOnce /\ (h \/ hit)
  BY <1>1 DEF Told
<1>5. concluded => completed /\ ~reported
  BY <1>1 DEF Polling, Asking
<1>6. reported' <=> \/ failEarly /\ (d \/ deviations # {})
                    \/ concluded' /\ ((d \/ deviations # {}) \/ (MustMatchOnce /\ ~(h \/ hit)))
  BY <1>1, <1>3, <1>4, <1>5 DEF Told, CheckTypeOK
<1> QED
  BY <1>1, <1>2, <1>3, <1>4, <1>6 DEF Told

-------------------------------------------------------------------------------
(* The check of brokers.                                                   *)

(* A title is a set of changes, never the empty one. *)
LEMMA BrokerTitles ==
  ASSUME NEW changes \in SUBSET BrokerKinds, mode \in Modes
  PROVE  /\ NoTitle \notin BrokerDeviations(changes)
         /\ BrokerDeviations(changes) # {} => ~MustMatchOnce
         /\ \A t \in BrokerDeviations(changes) :
              IF changes = {} THEN t = {NoChanges} ELSE t # NoTitle /\ t \subseteq changes \ expected
         /\ BrokerDeviations(changes) # {} <=>
              IF expected = {} THEN changes # {}
              ELSE mode = AllTheTime /\ (changes = {} \/ ~(changes \subseteq expected))
  BY DEF BrokerDeviations, NoTitle, MustMatchOnce, Modes, AllTheTime, AtLeastOnce

(* What the history says of the polls so far does not change, and of the   *)
(* new one it says what the poll has found by the state of the check.      *)
LEMMA BrokersHistory ==
  ASSUME observed \in Seq(Metadata), NEW n \in Nat \ {0}, n = Len(observed),
         previousController = observed[n].controller, brokerNodes = observed[1].nodes,
         NEW answer \in Metadata, observed' = Append(observed, answer),
         UNCHANGED <<expected, mode>>
  PROVE  /\ observed' \in Seq(Metadata) /\ Len(observed') = n + 1
         /\ observed'[n + 1] = answer /\ observed'[1] = observed[1]
         /\ BrokerPolls = 2..n /\ BrokerPolls' = 2..(n + 1)
         /\ \A i \in 2..n : /\ BrokersChangedAt(i)' = BrokersChangedAt(i)
                            /\ BrokersDeviatedAt(i)' = BrokersDeviatedAt(i)
         /\ BrokersChangedAt(n + 1)' = BrokerChanges(answer)
<1>1. /\ observed' \in Seq(Metadata) /\ Len(observed') = n + 1
      /\ observed'[n + 1] = answer
      /\ \A i \in 1..n : observed'[i] = observed[i]
  BY Appended
<1>2. \A i \in 2..n : BrokersChangedAt(i)' = BrokersChangedAt(i)
  <2> SUFFICES ASSUME NEW i \in 2..n
               PROVE  BrokersChangedAt(i)' = BrokersChangedAt(i)
    OBVIOUS
  <2>1. i \in 1..n /\ i - 1 \in 1..n /\ 1 \in 1..n
    OBVIOUS
  <2> QED
    BY <1>1, <2>1 DEF BrokersChangedAt
<1>3. \A i \in 2..n : BrokersDeviatedAt(i)' = BrokersDeviatedAt(i)
  BY <1>2 DEF BrokersDeviatedAt
<1>4. BrokersChangedAt(n + 1)' = BrokerChanges(answer)
  <2>1. n \in 1..n /\ 1 \in 1..n /\ (n + 1) - 1 = n
    OBVIOUS
  <2> QED
    BY <1>1, <2>1 DEF BrokersChangedAt, BrokerChanges
<1> QED
  BY <1>1, <1>2, <1>3, <1>4 DEF BrokerPolls

(* What the check of brokers remembers, as TypeOK says it. *)
BrokersRemembered ==
  observed # << >> => /\ previousController = observed[Len(observed)].controller
                      /\ brokerNodes = observed[1].nodes

BrokersTypes == /\ previousController \in Brokers \cup {NoController}
                /\ brokerNodes \subseteq Brokers

LEMMA BrokersPrepareKeeps ==
  ASSUME CheckTypeOK(BrokerKinds), Polling, BrokersInv, BrokersPrepare
  PROVE  /\ CheckTypeOK(BrokerKinds)' /\ Polling' /\ BrokersInv'
         /\ BrokersTypes' /\ BrokersRemembered'
<1> PICK answer \in Metadata : /\ previousController' = answer.controller
                               /\ brokerNodes' = answer.nodes
                               /\ observed' = <<answer>>
  BY DEF BrokersPrepare
<1>1. CheckPrepare(BrokerKinds)
  BY DEF BrokersPrepare
<1>2. observed' \in Seq(Metadata) /\ Len(observed') = 1 /\ observed'[1] = answer
  OBVIOUS
<1>3. observed = << >> /\ phase' = "prepared" /\ UNCHANGED <<success, title, reported, concluded>>
  BY <1>1 DEF CheckPrepare, Polling
<1>4. Len(observed) = 0
  BY <1>3
<1>5. BrokerPolls = {} /\ BrokerPolls' = {}
  BY <1>2, <1>4 DEF BrokerPolls
<1>6. ~BrokersDeviated /\ ~BrokersHit /\ ~BrokersDeviated' /\ ~BrokersHit'
  BY <1>5 DEF BrokersDeviated, BrokersHit
<1>7. ~success /\ title = NoTitle /\ ~reported /\ ~concluded
  BY <1>1, <1>6 DEF BrokersInv, Told, CheckPrepare, Polling, CheckTypeOK
<1>8. Told(BrokersDeviated, BrokersHit)'
  BY <1>3, <1>6, <1>7 DEF Told, CheckTypeOK
<1>9. BrokersFirstKept'
  BY <1>3, <1>5, <1>7 DEF BrokersFirstKept, IsFirst
<1>10. CheckTypeOK(BrokerKinds)' /\ Polling'
  BY <1>1, <1>2, <1>7, PrepareTypes
<1>11. BrokersTypes' /\ BrokersRemembered'
  BY <1>2 DEF BrokersTypes, BrokersRemembered, Metadata
<1> QED
  BY <1>2, <1>8, <1>9, <1>10, <1>11 DEF BrokersInv

LEMMA BrokerCheckStatusKeeps ==
  ASSUME CheckTypeOK(BrokerKinds), Polling, BrokersInv, BrokersTypes, BrokersRemembered,
         BrokerCheckStatus
  PROVE  /\ CheckTypeOK(BrokerKinds)' /\ Polling' /\ BrokersInv'
         /\ BrokersTypes' /\ BrokersRemembered'
<1> PICK answer \in Metadata :
      /\ Judge(answer, BrokerDeviations(BrokerChanges(answer)),
               BrokerChanges(answer) \cap expected # {})
      /\ previousController' = answer.controller
      /\ UNCHANGED brokerNodes
  BY DEF BrokerCheckStatus
<1> PICK changes : changes = BrokerChanges(answer)
  OBVIOUS
<1> PICK deviations : deviations = BrokerDeviations(changes)
  OBVIOUS
<1> PICK hit \in BOOLEAN : hit = (changes \cap expected # {})
  OBVIOUS
<1> PICK d \in BOOLEAN : d = BrokersDeviated
  BY DEF BrokersDeviated
<1> PICK h \in BOOLEAN : h = BrokersHit
  BY DEF BrokersHit
<1>1. Judge(answer, deviations, hit)
  OBVIOUS
<1>2. /\ Asking /\ observed' = Append(observed, answer)
      /\ UNCHANGED <<expected, mode, failEarly>>
      /\ success' = (success \/ (MustMatchOnce /\ hit))
      /\ IF deviations = {} \/ failEarly \/ title # NoTitle
         THEN title' = title ELSE title' \in deviations
      /\ Answers(deviations)
  BY <1>1 DEF Judge, Answers, parameters
<1>3. PICK n \in Nat : n = Len(observed)
  BY LenProperties DEF BrokersInv
<1>4. n # 0 /\ observed # << >>
  BY <1>2, <1>3, EmptySeq DEF BrokersInv, Asking
<1>5. mode \in Modes
  BY DEF CheckTypeOK
<1>6. changes \in SUBSET BrokerKinds
  BY DEF BrokerChanges
<1>7. /\ NoTitle \notin deviations
      /\ deviations # {} => ~MustMatchOnce
      /\ \A t \in deviations :
           IF changes = {} THEN t = {NoChanges} ELSE t # NoTitle /\ t \subseteq changes \ expected
      /\ deviations # {} <=>
           IF expected = {} THEN changes # {}
           ELSE mode = AllTheTime /\ (changes = {} \/ ~(changes \subseteq expected))
  BY <1>5, <1>6, BrokerTitles
<1>8. /\ observed' \in Seq(Metadata) /\ Len(observed') = n + 1
      /\ observed'[n + 1] = answer /\ observed'[1] = observed[1]
      /\ BrokerPolls = 2..n /\ BrokerPolls' = 2..(n + 1)
      /\ \A i \in 2..n : /\ BrokersChangedAt(i)' = BrokersChangedAt(i)
                         /\ BrokersDeviatedAt(i)' = BrokersDeviatedAt(i)
      /\ BrokersChangedAt(n + 1)' = changes
  BY <1>2, <1>3, <1>4, BrokersHistory DEF BrokersInv, BrokersRemembered
<1>9. BrokersDeviatedAt(n + 1)' <=> deviations # {}
  BY <1>2, <1>7, <1>8 DEF BrokersDeviatedAt
<1>10. BrokersDeviated' <=> d \/ deviations # {}
  <2>1. \A i \in 2..(n + 1) : i \in 2..n \/ i = n + 1
    OBVIOUS
  <2>2. 2..n \subseteq 2..(n + 1) /\ n + 1 \in 2..(n + 1)
    BY <1>4
  <2> QED
    BY <1>8, <1>9, <2>1, <2>2 DEF BrokersDeviated
<1>11. BrokersHit' <=> h \/ hit
  <2>1. \A i \in 2..(n + 1) : i \in 2..n \/ i = n + 1
    OBVIOUS
  <2>2. 2..n \subseteq 2..(n + 1) /\ n + 1 \in 2..(n + 1)
    BY <1>4
  <2> QED
    BY <1>2, <1>8, <2>1, <2>2 DEF BrokersHit
<1>12. Told(d, h)
  BY DEF BrokersInv
<1>13. d => ~MustMatchOnce
  BY <1>5 DEF BrokersDeviated, BrokersDeviatedAt, MustMatchOnce, Modes, AllTheTime, AtLeastOnce
<1>14. Told(d \/ deviations # {}, h \/ hit)'
  BY <1>1, <1>7, <1>12, <1>13, JudgeTells
<1>15. Told(BrokersDeviated, BrokersHit)'
  BY <1>10, <1>11, <1>14 DEF Told, BrokersDeviated, BrokersHit
<1>16. BrokersFirstKept'
  <2> SUFFICES ASSUME ~failEarly
               PROVE  /\ (\A i \in BrokerPolls' : ~BrokersDeviatedAt(i)') => title' = NoTitle
                      /\ \A i \in BrokerPolls' :
                           IsFirst(i, BrokerPolls, BrokersDeviatedAt)' =>
                             IF BrokersChangedAt(i)' = {} THEN title' = {NoChanges}
                             ELSE title' # NoTitle /\ title' \subseteq BrokersChangedAt(i)' \ expected
    BY <1>2 DEF BrokersFirstKept
  <2>1. (\A i \in BrokerPolls' : ~BrokersDeviatedAt(i)') => title' = NoTitle
    BY <1>15 DEF Told, BrokersDeviated
  <2>2. ASSUME NEW i \in 2..(n + 1), IsFirst(i, BrokerPolls, BrokersDeviatedAt)'
        PROVE  IF BrokersChangedAt(i)' = {} THEN title' = {NoChanges}
               ELSE title' # NoTitle /\ title' \subseteq BrokersChangedAt(i)' \ expected
    <3>1. CASE d
      <4>1. PICK j \in 2..n : BrokersDeviatedAt(j)
        BY <1>8, <3>1 DEF BrokersDeviated
      <4>2. j \in 2..(n + 1) /\ BrokersDeviatedAt(j)'
        BY <1>8, <4>1
      <4>3. i <= j
        BY <1>8, <2>2, <4>2 DEF IsFirst
      <4>4. i \in 2..n
        BY <4>3
      <4>5. IsFirst(i, BrokerPolls, BrokersDeviatedAt)
        BY <1>8, <2>2, <4>4 DEF IsFirst
      <4>6. title' = title
        BY <1>2, <1>12, <3>1 DEF Told
      <4>7. IF BrokersChangedAt(i) = {} THEN title = {NoChanges}
            ELSE title # NoTitle /\ title \subseteq BrokersChangedAt(i) \ expected
        BY <1>8, <4>4, <4>5 DEF BrokersInv, BrokersFirstKept
      <4> QED
        BY <1>8, <4>4, <4>6, <4>7
    <3>2. CASE ~d
      <4>1. BrokersDeviatedAt(i)'
        BY <2>2 DEF IsFirst
      <4>2. i = n + 1
        BY <1>8, <3>2, <4>1 DEF BrokersDeviated
      <4>3. deviations # {}
        BY <1>9, <4>1, <4>2
      <4>4. title = NoTitle
        BY <1>12, <3>2 DEF Told
      <4>5. title' \in deviations
        BY <1>2, <4>3, <4>4
      <4> QED
        BY <1>7, <1>8, <4>2, <4>5
    <3> QED
      BY <3>1, <3>2
  <2> QED
    BY <1>8, <2>1, <2>2
<1>17. CheckTypeOK(BrokerKinds)' /\ Polling'
  <2>1. success' \in BOOLEAN /\ (failEarly => title' \in {NoTitle, Breach})
    BY <1>2 DEF CheckTypeOK
  <2> QED
    BY <1>2, <1>3, <1>8, <2>1, AnswersTypes
<1>18. BrokersTypes' /\ BrokersRemembered'
  BY <1>4, <1>8 DEF BrokersTypes, BrokersRemembered, Metadata
<1>19. observed' # << >>
  BY <1>8
<1> QED
  BY <1>8, <1>15, <1>16, <1>17, <1>18, <1>19 DEF BrokersInv

(* The invariant of the check of brokers. *)
LEMMA BrokersNextKeeps ==
  ASSUME CheckTypeOK(BrokerKinds), Polling, BrokersInv, BrokersTypes, BrokersRemembered,
         BrokersNext
  PROVE  /\ CheckTypeOK(BrokerKinds)' /\ Polling' /\ BrokersInv'
         /\ BrokersTypes' /\ BrokersRemembered'
<1>1. CASE BrokersPrepare
  BY <1>1, BrokersPrepareKeeps
<1>2. CASE BrokerCheckStatus
  BY <1>2, BrokerCheckStatusKeeps
<1>3. CASE PollOrClock /\ UNCHANGED brokerVars
  <2>1. Len(observed) \in Nat
    BY LenProperties DEF BrokersInv
  <2>2. /\ CheckTypeOK(BrokerKinds)' /\ Polling'
        /\ UNCHANGED <<expected, mode, failEarly, success, title, observed, reported, concluded>>
        /\ phase # "new" /\ phase' # "new"
    BY <1>3, <2>1, PollOrClockKeeps
  <2>3. BrokersTypes' /\ BrokersRemembered'
    BY <1>3, <2>2 DEF BrokersTypes, BrokersRemembered, brokerVars
  <2>4. /\ BrokerPolls' = BrokerPolls /\ MustMatchOnce' = MustMatchOnce
        /\ \A i \in BrokerPolls : /\ BrokersChangedAt(i)' = BrokersChangedAt(i)
                                  /\ BrokersDeviatedAt(i)' = BrokersDeviatedAt(i)
    BY <2>2 DEF BrokerPolls, BrokersChangedAt, BrokersDeviatedAt, MustMatchOnce
  <2>5. BrokersDeviated' = BrokersDeviated /\ BrokersHit' = BrokersHit
    BY <2>2, <2>4 DEF BrokersDeviated, BrokersHit
  <2>6. Told(BrokersDeviated, BrokersHit)'
    BY <2>2, <2>4, <2>5 DEF Told, BrokersInv
  <2>7. BrokersFirstKept'
    BY <2>2, <2>4 DEF BrokersFirstKept, BrokersInv, IsFirst
  <2> QED
    BY <2>2, <2>3, <2>6, <2>7 DEF BrokersInv
<1> QED
  BY <1>1, <1>2, <1>3 DEF BrokersNext

-------------------------------------------------------------------------------
(* The check of partitions.                                                *)

PartitionsRemembered ==
  \A k \in PartitionKinds :
    /\ DOMAIN previous[k] = {p \in Partitions : LastSeen(p, Len(observed)) > 0}
    /\ \A p \in DOMAIN previous[k] :
         previous[k][p] = observed[LastSeen(p, Len(observed))][p][k]

LEMMA TopicsHold ==
  ASSUME NEW topic \in Topics
  PROVE  DOMAIN topic \subseteq Partitions
  BY DEF Topics

(* Before any poll nothing has been seen. *)
LEMMA NothingSeen ==
  ASSUME NEW p
  PROVE  LastSeen(p, 0) = 0
<1>1. {j \in 1..0 : p \in DOMAIN observed[j]} \cup {0} = {0}
  OBVIOUS
<1>2. Max({0}) = 0
  BY DEF Max
<1> QED
  BY <1>1, <1>2 DEF LastSeen

(* A poll is the last one that saw the partitions in it and changes        *)
(* nothing for the others.                                                 *)
LEMMA SeenByPoll ==
  ASSUME NEW n \in Nat, NEW topic, NEW p,
         \A i \in 1..n : observed'[i] = observed[i],
         observed'[n + 1] = topic
  PROVE  /\ \A i \in 0..n : LastSeen(p, i)' = LastSeen(p, i)
         /\ LastSeen(p, n + 1)' = IF p \in DOMAIN topic THEN n + 1 ELSE LastSeen(p, n)
<1>1. \A i \in 0..n : LastSeen(p, i)' = LastSeen(p, i)
  <2> SUFFICES ASSUME NEW i \in 0..n
               PROVE  LastSeen(p, i)' = LastSeen(p, i)
    OBVIOUS
  <2>1. {j \in 1..i : p \in DOMAIN observed'[j]} = {j \in 1..i : p \in DOMAIN observed[j]}
    <3>1. \A j \in 1..i : j \in 1..n
      OBVIOUS
    <3> QED
      BY <3>1
  <2> QED
    BY <2>1 DEF LastSeen
<1> DEFINE old == {j \in 1..n : p \in DOMAIN observed[j]} \cup {0}
           new == {j \in 1..(n + 1) : p \in DOMAIN observed'[j]} \cup {0}
<1>2. LastSeen(p, n) = Max(old) /\ LastSeen(p, n + 1)' = Max(new)
  BY DEF LastSeen
<1>3. \A j \in 1..(n + 1) : j \in 1..n \/ j = n + 1
  OBVIOUS
<1>4. n + 1 \in 1..(n + 1) /\ 1..n \subseteq 1..(n + 1)
  OBVIOUS
<1>5. CASE p \in DOMAIN topic
  <2>1. n + 1 \in new
    BY <1>4, <1>5
  <2>2. \A j \in new : j \in Nat /\ j <= n + 1
    OBVIOUS
  <2> HIDE DEF new
  <2>3. Max(new) = n + 1
    <3>1. \A y \in new : n + 1 >= y
      BY <2>2
    <3>2. \A x \in new : (\A y \in new : x >= y) => x = n + 1
      BY <2>1, <2>2
    <3> QED
      BY <2>1, <3>1, <3>2 DEF Max
  <2> QED
    BY <1>1, <1>2, <1>5, <2>3
<1>6. CASE p \notin DOMAIN topic
  <2>1. \A j \in 1..(n + 1) : p \in DOMAIN observed'[j] <=> j \in 1..n /\ p \in DOMAIN observed[j]
    BY <1>3, <1>6
  <2>2. new = old
    BY <1>4, <2>1
  <2> QED
    BY <1>1, <1>2, <1>6, <2>2
<1> QED
  BY <1>1, <1>5, <1>6

(* As for the brokers: the history so far stays, and the new poll adds     *)
(* what it found by the maps.                                              *)
LEMMA PartitionsHistory ==
  ASSUME observed \in Seq(Topics), NEW n \in Nat, n = Len(observed),
         SeenInPolls, PartitionsRemembered,
         NEW topic \in Topics, observed' = Append(observed, topic),
         UNCHANGED <<expected, mode>>
  PROVE  /\ observed' \in Seq(Topics) /\ Len(observed') = n + 1
         /\ observed'[n + 1] = topic
         /\ \A i \in 1..n : observed'[i] = observed[i]
         /\ \A i \in 1..n : /\ PartitionsChangedAt(i)' = PartitionsChangedAt(i)
                            /\ PartitionsDeviatedAt(i)' = PartitionsDeviatedAt(i)
         /\ PartitionsChangedAt(n + 1)' = PartitionChanges(topic)
         /\ SeenInPolls'
<1>1. /\ observed' \in Seq(Topics) /\ Len(observed') = n + 1
      /\ observed'[n + 1] = topic
      /\ \A i \in 1..n : observed'[i] = observed[i]
  BY Appended
<1>2. \A p : /\ \A i \in 0..n : LastSeen(p, i)' = LastSeen(p, i)
             /\ LastSeen(p, n + 1)' = IF p \in DOMAIN topic THEN n + 1 ELSE LastSeen(p, n)
  <2> TAKE p
  <2>1. /\ \A i \in 1..n : observed'[i] = observed[i]
        /\ observed'[n + 1] = topic
    BY <1>1
  <2> QED
    BY <2>1, SeenByPoll
<1>3. \A i \in 0..n, p \in Partitions : LastSeen(p, i) \in 0..i
  BY DEF SeenInPolls
<1>4. \A i \in 1..(n + 1) : DOMAIN observed'[i] \subseteq Partitions
  <2>1. \A i \in 1..(n + 1) : observed'[i] \in Topics
    BY <1>1, ElementOfSeq
  <2> QED
    BY <2>1, TopicsHold
<1>5. \A i \in 1..n : PartitionsChangedAt(i)' = PartitionsChangedAt(i)
  <2> SUFFICES ASSUME NEW i \in 1..n
               PROVE  PartitionsChangedAt(i)' = PartitionsChangedAt(i)
    OBVIOUS
  <2>1. i - 1 \in 0..n /\ i \in 1..(n + 1)
    OBVIOUS
  <2>2. observed'[i] = observed[i]
    BY <1>1
  <2>3. ASSUME NEW p \in DOMAIN observed[i], NEW k \in PartitionKinds
        PROVE  (LET last == LastSeen(p, i - 1)
                IN  last > 0 /\ observed[last][p][k] # observed[i][p][k])' <=>
               (LET last == LastSeen(p, i - 1)
                IN  last > 0 /\ observed[last][p][k] # observed[i][p][k])
    <3>1. LastSeen(p, i - 1)' = LastSeen(p, i - 1)
      BY <1>2, <2>1
    <3>2. LastSeen(p, i - 1) \in 0..(i - 1)
      BY <1>3, <1>4, <2>1, <2>2
    <3>3. PICK last \in 0..(i - 1) : last = LastSeen(p, i - 1)
      BY <3>2
    <3>4. last > 0 => last \in 1..n
      OBVIOUS
    <3> QED
      BY <1>1, <2>2, <3>1, <3>3, <3>4
  <2> QED
    BY <2>2, <2>3 DEF PartitionsChangedAt
<1>6. \A i \in 1..n : PartitionsDeviatedAt(i)' = PartitionsDeviatedAt(i)
  BY <1>5 DEF PartitionsDeviatedAt
<1>7. PartitionsChangedAt(n + 1)' = PartitionChanges(topic)
  <2> DEFINE ByHistory(k, p) == /\ LastSeen(p, n)' > 0
                                /\ observed'[LastSeen(p, n)'][p][k] # topic[p][k]
             ByMaps(k, p) == p \in DOMAIN previous[k] /\ topic[p][k] # previous[k][p]
  <2>1. ASSUME NEW k \in PartitionKinds, NEW p \in DOMAIN topic
        PROVE  ByHistory(k, p) <=> ByMaps(k, p)
    <3>1. n \in 0..n /\ p \in Partitions
      BY TopicsHold
    <3>2. PICK last \in 0..n : last = LastSeen(p, n)
      BY <1>3, <3>1
    <3>3. LastSeen(p, n)' = last
      BY <1>2, <3>1, <3>2
    <3>4. p \in DOMAIN previous[k] <=> last > 0
      BY <3>1, <3>2 DEF PartitionsRemembered
    <3>5. last > 0 => previous[k][p] = observed[last][p][k]
      BY <3>2, <3>4 DEF PartitionsRemembered
    <3>6. last > 0 => observed'[last] = observed[last]
      BY <1>1
    <3> QED
      BY <3>3, <3>4, <3>5, <3>6
  <2>2. (n + 1) - 1 = n
    OBVIOUS
  <2>3. PartitionsChangedAt(n + 1)' =
          {k \in PartitionKinds : \E p \in DOMAIN topic : ByHistory(k, p)}
    BY <1>1, <2>2 DEF PartitionsChangedAt
  <2>4. PartitionChanges(topic) =
          {k \in PartitionKinds : \E p \in DOMAIN topic : ByMaps(k, p)}
    BY DEF PartitionChanges
  <2> HIDE DEF ByHistory, ByMaps
  <2> QED
    BY <2>1, <2>3, <2>4
<1>8. SeenInPolls'
  <2> SUFFICES ASSUME NEW i \in 0..(n + 1), NEW p \in Partitions
               PROVE  LastSeen(p, i)' \in 0..i
    BY <1>1 DEF SeenInPolls
  <2>1. CASE i \in 0..n
    BY <1>2, <1>3, <2>1
  <2>2. CASE i = n + 1
    <3>1. LastSeen(p, n) \in 0..n
      BY <1>3
    <3> QED
      BY <1>2, <2>2, <3>1
  <2> QED
    BY <2>1, <2>2
<1> QED
  BY <1>1, <1>5, <1>6, <1>7, <1>8

(* The maps hold what was seen last. *)
LEMMA RememberKeeps ==
  ASSUME observed \in Seq(Topics), NEW n \in Nat, n = Len(observed),
         SeenInPolls, PartitionsRemembered,
         NEW topic \in Topics, observed' = Append(observed, topic), Remember(topic)
  PROVE  PartitionsRemembered'
<1>1. /\ Len(observed') = n + 1
      /\ observed'[n + 1] = topic
      /\ \A i \in 1..n : observed'[i] = observed[i]
  BY Appended
<1>2. \A p : LastSeen(p, n + 1)' = IF p \in DOMAIN topic THEN n + 1 ELSE LastSeen(p, n)
  BY <1>1, SeenByPoll
<1>3. \A p \in Partitions : LastSeen(p, n) \in 0..n
  BY DEF SeenInPolls
<1> SUFFICES ASSUME NEW k \in PartitionKinds
             PROVE  /\ DOMAIN previous'[k] = {p \in Partitions : LastSeen(p, n + 1)' > 0}
                    /\ \A p \in DOMAIN previous'[k] :
                         previous'[k][p] = observed'[LastSeen(p, n + 1)'][p][k]
  BY <1>1 DEF PartitionsRemembered
<1>4. previous'[k] = [p \in DOMAIN topic \cup DOMAIN previous[k] |->
                        IF p \in DOMAIN topic THEN topic[p][k] ELSE previous[k][p]]
  BY DEF Remember
<1>5. DOMAIN previous[k] = {p \in Partitions : LastSeen(p, n) > 0}
  BY DEF PartitionsRemembered
<1>6. DOMAIN topic \subseteq Partitions
  BY TopicsHold
<1>7. DOMAIN previous'[k] = DOMAIN topic \cup DOMAIN previous[k]
  BY <1>4
<1>8. \A p \in Partitions : LastSeen(p, n + 1)' > 0 <=> p \in DOMAIN topic \/ LastSeen(p, n) > 0
  BY <1>2
<1>9. DOMAIN previous'[k] = {p \in Partitions : LastSeen(p, n + 1)' > 0}
  BY <1>5, <1>6, <1>7, <1>8
<1>10. ASSUME NEW p \in DOMAIN previous'[k]
       PROVE  previous'[k][p] = observed'[LastSeen(p, n + 1)'][p][k]
  <2>1. CASE p \in DOMAIN topic
    BY <1>1, <1>2, <1>4, <2>1
  <2>2. CASE p \notin DOMAIN topic
    <3>1. p \in DOMAIN previous[k]
      BY <1>7, <2>2
    <3>2. PICK last \in 0..n : last = LastSeen(p, n) /\ last > 0
      BY <1>3, <1>5, <3>1
    <3>3. previous[k][p] = observed[last][p][k]
      BY <3>1, <3>2 DEF PartitionsRemembered
    <3>4. observed'[last] = observed[last]
      BY <1>1, <3>2
    <3> QED
      BY <1>2, <1>4, <2>2, <3>1, <3>2, <3>3, <3>4
  <2> QED
    BY <2>1, <2>2
<1> QED
  BY <1>9, <1>10

LEMMA PartitionTitles ==
  ASSUME NEW changes, mode \in Modes
  PROVE  /\ NoTitle \notin PartitionDeviations(changes)
         /\ PartitionDeviations(changes) # {} => ~MustMatchOnce
         /\ \A t \in PartitionDeviations(changes) : t # NoTitle /\ t \subseteq changes \ expected
         /\ PartitionDeviations(changes) # {} <=>
              expected # {} /\ mode = AllTheTime /\ ~(changes \subseteq expected)
  BY DEF PartitionDeviations, NoTitle, MustMatchOnce, Modes, AllTheTime, AtLeastOnce

LEMMA PartitionsPrepareKeeps ==
  ASSUME CheckTypeOK(PartitionKinds), Polling, PartitionsInv, PartitionsRemembered,
         PartitionsPrepare
  PROVE  /\ CheckTypeOK(PartitionKinds)' /\ Polling' /\ PartitionsInv'
         /\ PartitionsRemembered'
<1>1. CheckPrepare(PartitionKinds) /\ UNCHANGED <<observed, previous>>
  BY DEF PartitionsPrepare
<1>2. Len(observed) = 0 /\ phase' = "prepared" /\ UNCHANGED <<success, title, reported, concluded>>
  BY <1>1 DEF CheckPrepare, Polling
<1>3. Polls = {} /\ Polls' = {}
  BY <1>1, <1>2 DEF Polls
<1>4. /\ ~PartitionsDeviated /\ ~PartitionsHit
      /\ ~PartitionsDeviated' /\ ~PartitionsHit'
  BY <1>3 DEF PartitionsDeviated, PartitionsHit
<1>5. ~success /\ title = NoTitle /\ ~reported /\ ~concluded
  BY <1>1, <1>4 DEF PartitionsInv, Told, CheckPrepare, Polling, CheckTypeOK
<1>6. Told(PartitionsDeviated, PartitionsHit)'
  BY <1>2, <1>4, <1>5 DEF Told, CheckTypeOK
<1>7. PartitionsFirstKept'
  BY <1>2, <1>3, <1>5 DEF PartitionsFirstKept, Polls
<1>8. CheckTypeOK(PartitionKinds)' /\ Polling'
  BY <1>1, <1>2, <1>5, PrepareTypes
<1>9. SeenInPolls' /\ PartitionsRemembered'
  BY <1>1 DEF SeenInPolls, PartitionsInv, PartitionsRemembered, LastSeen
<1> QED
  BY <1>1, <1>6, <1>7, <1>8, <1>9 DEF PartitionsInv

LEMMA TopicCheckStatusKeeps ==
  ASSUME CheckTypeOK(PartitionKinds), Polling, PartitionsInv, PartitionsRemembered,
         TopicCheckStatus
  PROVE  /\ CheckTypeOK(PartitionKinds)' /\ Polling' /\ PartitionsInv'
         /\ PartitionsRemembered'
<1> PICK topic \in Topics :
      /\ Judge(topic, PartitionDeviations(PartitionChanges(topic)),
               PartitionChanges(topic) \cap expected # {})
      /\ Remember(topic)
  BY DEF TopicCheckStatus
<1> PICK changes : changes = PartitionChanges(topic)
  OBVIOUS
<1> PICK deviations : deviations = PartitionDeviations(changes)
  OBVIOUS
<1> PICK hit \in BOOLEAN : hit = (changes \cap expected # {})
  OBVIOUS
<1> PICK d \in BOOLEAN : d = PartitionsDeviated
  BY DEF PartitionsDeviated
<1> PICK h \in BOOLEAN : h = PartitionsHit
  BY DEF PartitionsHit
<1>1. Judge(topic, deviations, hit)
  OBVIOUS
<1>2. /\ Asking /\ observed' = Append(observed, topic)
      /\ UNCHANGED <<expected, mode, failEarly>>
      /\ success' = (success \/ (MustMatchOnce /\ hit))
      /\ IF deviations = {} \/ failEarly \/ title # NoTitle
         THEN title' = title ELSE title' \in deviations
      /\ Answers(deviations)
  BY <1>1 DEF Judge, Answers, parameters
<1>3. PICK n \in Nat : n = Len(observed)
  BY LenProperties DEF PartitionsInv
<1>4. mode \in Modes
  BY DEF CheckTypeOK
<1>5. /\ NoTitle \notin deviations
      /\ deviations # {} => ~MustMatchOnce
      /\ \A t \in deviations : t # NoTitle /\ t \subseteq changes \ expected
      /\ deviations # {} <=>
           expected # {} /\ mode = AllTheTime /\ ~(changes \subseteq expected)
  BY <1>4, PartitionTitles
<1>6. /\ observed' \in Seq(Topics) /\ Len(observed') = n + 1
      /\ \A i \in 1..n : /\ PartitionsChangedAt(i)' = PartitionsChangedAt(i)
                         /\ PartitionsDeviatedAt(i)' = PartitionsDeviatedAt(i)
      /\ PartitionsChangedAt(n + 1)' = changes
      /\ SeenInPolls'
  BY <1>2, <1>3, PartitionsHistory DEF PartitionsInv
<1>7. PartitionsRemembered'
  BY <1>2, <1>3, RememberKeeps DEF PartitionsInv
<1>8. Polls = 1..n /\ Polls' = 1..(n + 1)
  BY <1>3, <1>6 DEF Polls
<1>9. 1..n \subseteq 1..(n + 1) /\ n + 1 \in 1..(n + 1)
      /\ \A i \in 1..(n + 1) : i \in 1..n \/ i = n + 1
  OBVIOUS
<1>10. expected # {} => (PartitionsDeviatedAt(n + 1)' <=> deviations # {})
  BY <1>2, <1>5, <1>6 DEF PartitionsDeviatedAt
<1>11. PartitionsDeviated' <=> d \/ deviations # {}
  BY <1>2, <1>5, <1>6, <1>8, <1>9, <1>10 DEF PartitionsDeviated
<1>12. PartitionsHit' <=> h \/ hit
  BY <1>2, <1>6, <1>8, <1>9 DEF PartitionsHit
<1>13. Told(d, h)
  BY DEF PartitionsInv
<1>14. d => ~MustMatchOnce
  BY <1>4 DEF PartitionsDeviated, PartitionsDeviatedAt, MustMatchOnce, AllTheTime, AtLeastOnce
<1>15. Told(d \/ deviations # {}, h \/ hit)'
  BY <1>1, <1>5, <1>13, <1>14, JudgeTells
<1>16. Told(PartitionsDeviated, PartitionsHit)'
  BY <1>11, <1>12, <1>15 DEF Told, PartitionsDeviated, PartitionsHit
<1>17. PartitionsFirstKept'
  <2> SUFFICES ASSUME expected # {}, ~failEarly
               PROVE  /\ (\A i \in Polls' : ~PartitionsDeviatedAt(i)') => title' = NoTitle
                      /\ \A i \in Polls' :
                           IsFirst(i, Polls, PartitionsDeviatedAt)' =>
                             title' # NoTitle /\ title' \subseteq PartitionsChangedAt(i)' \ expected
    BY <1>2 DEF PartitionsFirstKept, Polls
  <2>1. (\A i \in Polls' : ~PartitionsDeviatedAt(i)') => title' = NoTitle
    BY <1>16 DEF Told, PartitionsDeviated
  <2>2. ASSUME NEW i \in 1..(n + 1), IsFirst(i, Polls, PartitionsDeviatedAt)'
        PROVE  title' # NoTitle /\ title' \subseteq PartitionsChangedAt(i)' \ expected
    <3>1. CASE d
      <4>1. PICK j \in 1..n : PartitionsDeviatedAt(j)
        BY <1>8, <3>1 DEF PartitionsDeviated
      <4>2. j \in 1..(n + 1) /\ PartitionsDeviatedAt(j)'
        BY <1>6, <4>1
      <4>3. i <= j
        BY <1>8, <2>2, <4>2 DEF IsFirst
      <4>4. i \in 1..n
        BY <4>3
      <4>5. IsFirst(i, Polls, PartitionsDeviatedAt)
        BY <1>6, <1>8, <1>9, <2>2, <4>4 DEF IsFirst
      <4>6. title' = title
        BY <1>2, <1>13, <3>1 DEF Told
      <4>7. title # NoTitle /\ title \subseteq PartitionsChangedAt(i) \ expected
        BY <1>8, <4>4, <4>5 DEF PartitionsInv, PartitionsFirstKept, Polls
      <4> QED
        BY <1>6, <4>4, <4>6, <4>7
    <3>2. CASE ~d
      <4>1. PartitionsDeviatedAt(i)'
        BY <2>2 DEF IsFirst
      <4>2. i = n + 1
        BY <1>6, <1>8, <1>9, <3>2, <4>1 DEF PartitionsDeviated
      <4>3. deviations # {}
        BY <1>10, <4>1, <4>2
      <4>4. title = NoTitle
        BY <1>13, <3>2 DEF Told
      <4>5. title' \in deviations
        BY <1>2, <4>3, <4>4
      <4> QED
        BY <1>5, <1>6, <4>2, <4>5
    <3> QED
      BY <3>1, <3>2
  <2> QED
    BY <1>8, <2>1, <2>2
<1>18. CheckTypeOK(PartitionKinds)' /\ Polling'
  <2>1. success' \in BOOLEAN /\ (failEarly => title' \in {NoTitle, Breach})
    BY <1>2 DEF CheckTypeOK
  <2> QED
    BY <1>2, <1>3, <1>6, <2>1, AnswersTypes
<1> QED
  BY <1>6, <1>7, <1>16, <1>17, <1>18 DEF PartitionsInv

(* The invariant of the check of partitions. *)
LEMMA PartitionsNextKeeps ==
  ASSUME CheckTypeOK(PartitionKinds), Polling, PartitionsInv, PartitionsRemembered,
         PartitionsNext
  PROVE  /\ CheckTypeOK(PartitionKinds)' /\ Polling' /\ PartitionsInv'
         /\ PartitionsRemembered'
<1>1. CASE PartitionsPrepare
  BY <1>1, PartitionsPrepareKeeps
<1>2. CASE TopicCheckStatus
  BY <1>2, TopicCheckStatusKeeps
<1>3. CASE PollOrClock /\ UNCHANGED previous
  <2>1. Len(observed) \in Nat
    BY LenProperties DEF PartitionsInv
  <2>2. /\ CheckTypeOK(PartitionKinds)' /\ Polling'
        /\ UNCHANGED <<expected, mode, failEarly, success, title, observed, reported, concluded>>
        /\ phase # "new" /\ phase' # "new"
    BY <1>3, <2>1, PollOrClockKeeps
  <2>3. \A p, i : LastSeen(p, i)' = LastSeen(p, i)
    BY <2>2 DEF LastSeen
  <2>4. PartitionsRemembered' /\ SeenInPolls'
    BY <1>3, <2>2, <2>3 DEF PartitionsRemembered, SeenInPolls, PartitionsInv
  <2>5. Polls' = Polls /\ MustMatchOnce' = MustMatchOnce
    BY <2>2 DEF Polls, MustMatchOnce
  <2>6. \A i \in Polls : PartitionsChangedAt(i)' = PartitionsChangedAt(i)
    BY <2>2, <2>3 DEF PartitionsChangedAt
  <2>7. \A i \in Polls : PartitionsDeviatedAt(i)' = PartitionsDeviatedAt(i)
    BY <2>2, <2>6 DEF PartitionsDeviatedAt
  <2>8. PartitionsDeviated' = PartitionsDeviated /\ PartitionsHit' = PartitionsHit
    BY <2>2, <2>5, <2>6, <2>7 DEF PartitionsDeviated, PartitionsHit
  <2>9. Told(PartitionsDeviated, PartitionsHit)'
    BY <2>2, <2>5, <2>8 DEF Told, PartitionsInv
  <2>10. PartitionsFirstKept'
    BY <2>2, <2>5, <2>6, <2>7 DEF PartitionsFirstKept, PartitionsInv, IsFirst, Polls
  <2> QED
    BY <2>2, <2>4, <2>9, <2>10 DEF PartitionsInv
<1> QED
  BY <1>1, <1>2, <1>3 DEF PartitionsNext

-------------------------------------------------------------------------------
(* The check of a consumer group.                                          *)

LEMMA GroupPrepareKeeps ==
  ASSUME CheckTypeOK(States), Polling, GroupInv, GroupPrepare
  PROVE  CheckTypeOK(States)' /\ Polling' /\ GroupInv'
<1>1. CheckPrepare(States) /\ UNCHANGED observed
  BY DEF GroupPrepare
<1>2. Len(observed) = 0 /\ phase' = "prepared" /\ UNCHANGED <<success, title, reported, concluded>>
  BY <1>1 DEF CheckPrepare, Polling
<1>3. Polls = {} /\ Polls' = {}
  BY <1>1, <1>2 DEF Polls
<1>4. ~GroupDeviated /\ ~GroupHit /\ ~GroupDeviated' /\ ~GroupHit'
  BY <1>3 DEF GroupDeviated, GroupHit
<1>5. ~success /\ title = NoTitle /\ ~reported /\ ~concluded
  BY <1>1, <1>4 DEF GroupInv, Told, CheckPrepare, Polling, CheckTypeOK
<1>6. Told(GroupDeviated, GroupHit)'
  BY <1>2, <1>4, <1>5 DEF Told, CheckTypeOK
<1>7. GroupFirstKept'
  BY <1>2, <1>3, <1>5 DEF GroupFirstKept, Polls
<1>8. CheckTypeOK(States)' /\ Polling'
  BY <1>1, <1>2, <1>5, PrepareTypes
<1> QED
  BY <1>1, <1>6, <1>7, <1>8 DEF GroupInv

LEMMA ConsumerGroupCheckStatusKeeps ==
  ASSUME CheckTypeOK(States), Polling, GroupInv, ConsumerGroupCheckStatus
  PROVE  CheckTypeOK(States)' /\ Polling' /\ GroupInv'
<1> PICK state \in States \cup {NoState} :
      Judge(state, GroupDeviations(state), state \in expected)
  BY DEF ConsumerGroupCheckStatus
<1> PICK deviations : deviations = GroupDeviations(state)
  OBVIOUS
<1> PICK hit \in BOOLEAN : hit <=> state \in expected
  OBVIOUS
<1> PICK d \in BOOLEAN : d = GroupDeviated
  BY DEF GroupDeviated
<1> PICK h \in BOOLEAN : h = GroupHit
  BY DEF GroupHit
<1>1. Judge(state, deviations, hit)
  BY DEF Judge
<1>2. /\ Asking /\ observed' = Append(observed, state)
      /\ UNCHANGED <<expected, mode, failEarly>>
      /\ success' = (success \/ (MustMatchOnce /\ hit))
      /\ IF deviations = {} \/ failEarly \/ title # NoTitle
         THEN title' = title ELSE title' \in deviations
      /\ Answers(deviations)
  BY <1>1 DEF Judge, Answers, parameters
<1>3. PICK n \in Nat : n = Len(observed)
  BY LenProperties DEF GroupInv
<1>4. /\ NoTitle \notin deviations
      /\ deviations # {} => ~MustMatchOnce
      /\ \A t \in deviations : t = {state}
      /\ deviations # {} <=> expected # {} /\ mode = AllTheTime /\ state \notin expected
  BY DEF GroupDeviations, NoTitle, MustMatchOnce, AllTheTime, AtLeastOnce
<1>5. /\ observed' \in Seq(States \cup {NoState}) /\ Len(observed') = n + 1
      /\ \A i \in 1..n : observed'[i] = observed[i]
      /\ observed'[n + 1] = state
  BY <1>2, <1>3, Appended DEF GroupInv
<1>6. /\ \A i \in 1..n : GroupDeviatedAt(i)' = GroupDeviatedAt(i)
      /\ GroupDeviatedAt(n + 1)' = ~hit
  BY <1>2, <1>5 DEF GroupDeviatedAt
<1>7. Polls = 1..n /\ Polls' = 1..(n + 1)
  BY <1>3, <1>5 DEF Polls
<1>8. 1..n \subseteq 1..(n + 1) /\ n + 1 \in 1..(n + 1)
      /\ \A i \in 1..(n + 1) : i \in 1..n \/ i = n + 1
  OBVIOUS
<1>9. GroupDeviated' <=> d \/ deviations # {}
  BY <1>2, <1>4, <1>6, <1>7, <1>8 DEF GroupDeviated
<1>10. GroupHit' <=> h \/ hit
  BY <1>6, <1>7, <1>8 DEF GroupHit
<1>11. Told(d, h)
  BY DEF GroupInv
<1>12. d => ~MustMatchOnce
  BY DEF GroupDeviated, MustMatchOnce, AllTheTime, AtLeastOnce
<1>13. Told(d \/ deviations # {}, h \/ hit)'
  BY <1>1, <1>4, <1>11, <1>12, JudgeTells
<1>14. Told(GroupDeviated, GroupHit)'
  BY <1>9, <1>10, <1>13 DEF Told, GroupDeviated, GroupHit
<1>15. GroupFirstKept'
  <2> SUFFICES ASSUME expected # {}, mode = AllTheTime, ~failEarly
               PROVE  /\ (\A i \in Polls' : ~GroupDeviatedAt(i)') => title' = NoTitle
                      /\ \A i \in Polls' :
                           IsFirst(i, Polls, GroupDeviatedAt)' => title' = {observed'[i]}
    BY <1>2 DEF GroupFirstKept, Polls
  <2>1. (\A i \in Polls' : ~GroupDeviatedAt(i)') => title' = NoTitle
    BY <1>14 DEF Told, GroupDeviated
  <2>2. ASSUME NEW i \in 1..(n + 1), IsFirst(i, Polls, GroupDeviatedAt)'
        PROVE  title' = {observed'[i]}
    <3>1. CASE d
      <4>1. PICK j \in 1..n : GroupDeviatedAt(j)
        BY <1>7, <3>1 DEF GroupDeviated
      <4>2. j \in 1..(n + 1) /\ GroupDeviatedAt(j)'
        BY <1>6, <4>1
      <4>3. i <= j
        BY <1>7, <2>2, <4>2 DEF IsFirst
      <4>4. i \in 1..n
        BY <4>3
      <4>5. IsFirst(i, Polls, GroupDeviatedAt)
        BY <1>6, <1>7, <1>8, <2>2, <4>4 DEF IsFirst
      <4>6. title' = title
        BY <1>2, <1>11, <3>1 DEF Told
      <4>7. title = {observed[i]}
        BY <1>7, <4>4, <4>5 DEF GroupInv, GroupFirstKept, Polls
      <4> QED
        BY <1>5, <4>4, <4>6, <4>7
    <3>2. CASE ~d
      <4>1. GroupDeviatedAt(i)'
        BY <2>2 DEF IsFirst
      <4>2. i = n + 1
        BY <1>6, <1>7, <1>8, <3>2, <4>1 DEF GroupDeviated
      <4>3. deviations # {}
        BY <1>4, <1>6, <4>1, <4>2
      <4>4. title = NoTitle
        BY <1>11, <3>2 DEF Told
      <4>5. title' \in deviations
        BY <1>2, <4>3, <4>4
      <4> QED
        BY <1>4, <1>5, <4>2, <4>5
    <3> QED
      BY <3>1, <3>2
  <2> QED
    BY <1>7, <2>1, <2>2
<1>16. CheckTypeOK(States)' /\ Polling'
  <2>1. success' \in BOOLEAN /\ (failEarly => title' \in {NoTitle, Breach})
    BY <1>2 DEF CheckTypeOK
  <2> QED
    BY <1>2, <1>3, <1>5, <2>1, AnswersTypes
<1> QED
  BY <1>5, <1>14, <1>15, <1>16 DEF GroupInv

(* The invariant of the check of a consumer group. *)
LEMMA GroupNextKeeps ==
  ASSUME CheckTypeOK(States), Polling, GroupInv, GroupNext
  PROVE  CheckTypeOK(States)' /\ Polling' /\ GroupInv'
<1>1. CASE GroupPrepare
  BY <1>1, GroupPrepareKeeps
<1>2. CASE ConsumerGroupCheckStatus
  BY <1>2, ConsumerGroupCheckStatusKeeps
<1>3. CASE PollOrClock
  <2>1. Len(observed) \in Nat
    BY LenProperties DEF GroupInv
  <2>2. /\ CheckTypeOK(States)' /\ Polling'
        /\ UNCHANGED <<expected, mode, failEarly, success, title, observed, reported, concluded>>
        /\ phase # "new" /\ phase' # "new"
    BY <1>3, <2>1, PollOrClockKeeps
  <2>3. /\ Polls' = Polls /\ MustMatchOnce' = MustMatchOnce
        /\ \A i \in Polls : GroupDeviatedAt(i)' = GroupDeviatedAt(i)
    BY <2>2 DEF Polls, MustMatchOnce, GroupDeviatedAt
  <2>4. GroupDeviated' = GroupDeviated /\ GroupHit' = GroupHit
    BY <2>2, <2>3 DEF GroupDeviated, GroupHit
  <2>5. Told(GroupDeviated, GroupHit)'
    BY <2>2, <2>3, <2>4 DEF Told, GroupInv
  <2>6. GroupFirstKept'
    BY <2>2, <2>3 DEF GroupFirstKept, GroupInv, IsFirst, Polls
  <2> QED
    BY <2>2, <2>5, <2>6 DEF GroupInv
<1> QED
  BY <1>1, <1>2, <1>3 DEF GroupNext

-------------------------------------------------------------------------------
(* The check of the lag.                                                   *)

LEMMA LagPrepareKeeps ==
  ASSUME CheckTypeOK(States), Polling, LagInv, LagPrepare
  PROVE  CheckTypeOK(States)' /\ Polling' /\ LagInv' /\ acceptableLag' \in Lags
<1>1. /\ phase = "new" /\ phase' = "prepared"
      /\ acceptableLag' \in Lags /\ failEarly' \in BOOLEAN
      /\ UNCHANGED <<afterEnd, completed, expected, mode, success, title, observed, reported,
                     concluded>>
  BY DEF LagPrepare, history
<1>2. Len(observed) = 0
  BY <1>1 DEF Polling
<1>3. Polls = {} /\ Polls' = {}
  BY <1>1, <1>2 DEF Polls
<1>4. ~LagBreached /\ ~LagBreached'
  BY <1>3 DEF LagBreached
<1>5. LagInv'
  BY <1>1, <1>4 DEF LagInv
<1>6. title' = NoTitle
  BY <1>4, <1>5 DEF LagInv
<1> QED
  BY <1>1, <1>2, <1>5, <1>6, PollsAssumption DEF CheckTypeOK, Polling

LEMMA ConsumerGroupLagCheckStatusKeeps ==
  ASSUME CheckTypeOK(States), Polling, LagInv, ConsumerGroupLagCheckStatus
  PROVE  CheckTypeOK(States)' /\ Polling' /\ LagInv' /\ UNCHANGED acceptableLag
<1> PICK answer \in Lags \cup {NoLag} :
      LET breaching == LagOf(answer) >= acceptableLag
      IN  /\ observed' = Append(observed, answer)
          /\ title' = IF breaching THEN Breach ELSE title
          /\ success' = (success \/ ~breaching)
          /\ Answers(IF breaching THEN {Breach} ELSE {})
  BY DEF ConsumerGroupLagCheckStatus
<1> PICK breaching \in BOOLEAN : breaching <=> LagOf(answer) >= acceptableLag
  OBVIOUS
<1> PICK deviations : deviations = IF breaching THEN {Breach} ELSE {}
  OBVIOUS
<1> PICK d \in BOOLEAN : d <=> LagBreached
  OBVIOUS
<1>1. /\ Asking /\ UNCHANGED acceptableLag
      /\ observed' = Append(observed, answer)
      /\ title' = IF breaching THEN Breach ELSE title
      /\ success' \in BOOLEAN
      /\ Answers(deviations)
  BY DEF ConsumerGroupLagCheckStatus
<1>2. deviations # {} <=> breaching
  OBVIOUS
<1>3. PICK n \in Nat : n = Len(observed)
  BY LenProperties DEF LagInv
<1>4. /\ observed' \in Seq(Lags \cup {NoLag}) /\ Len(observed') = n + 1
      /\ \A i \in 1..n : observed'[i] = observed[i]
      /\ observed'[n + 1] = answer
  BY <1>1, <1>3, Appended DEF LagInv
<1>5. Polls = 1..n /\ Polls' = 1..(n + 1)
  BY <1>3, <1>4 DEF Polls
<1>6. LagBreached' <=> d \/ breaching
  <2>1. /\ 1..n \subseteq 1..(n + 1) /\ n + 1 \in 1..(n + 1)
        /\ \A i \in 1..(n + 1) : i \in 1..n \/ i = n + 1
    OBVIOUS
  <2>2. LagBreached' <=> \E i \in 1..(n + 1) : LagOf(observed'[i]) >= acceptableLag
    BY <1>1, <1>5 DEF LagBreached, LagOf
  <2>3. LagBreached <=> \E i \in 1..n : LagOf(observed[i]) >= acceptableLag
    BY <1>5 DEF LagBreached
  <2> QED
    BY <1>4, <2>1, <2>2, <2>3
<1>7. title' = NoTitle <=> ~(d \/ breaching)
  BY <1>1 DEF LagInv, Breach, NoTitle
<1>8. /\ concluded' = (concluded \/ completed)
      /\ UNCHANGED <<expected, mode, failEarly>>
      /\ reported' = (reported \/ (failEarly /\ breaching)
                        \/ (~failEarly /\ completed /\ title' # NoTitle)
                        \/ (MustMatchOnce /\ completed /\ ~success'))
  BY <1>1, <1>2 DEF Answers, parameters
<1>9. ~MustMatchOnce
  BY DEF MustMatchOnce, LagInv
<1>10. reported' <=> (d \/ breaching) /\ (failEarly \/ concluded')
  <2>1. concluded => completed /\ ~reported
    BY <1>1 DEF Polling, Asking
  <2> QED
    BY <1>1, <1>7, <1>8, <1>9, <2>1 DEF LagInv, CheckTypeOK
<1>11. CheckTypeOK(States)' /\ Polling'
  <2>1. failEarly => title' \in {NoTitle, Breach}
    BY <1>1 DEF CheckTypeOK
  <2> QED
    BY <1>1, <1>3, <1>4, <2>1, AnswersTypes
<1> QED
  BY <1>1, <1>4, <1>6, <1>7, <1>8, <1>10, <1>11 DEF LagInv

(* The invariant of the check of the lag. *)
LEMMA LagNextKeeps ==
  ASSUME CheckTypeOK(States), Polling, LagInv, LagNext, acceptableLag \in Lags
  PROVE  CheckTypeOK(States)' /\ Polling' /\ LagInv' /\ acceptableLag' \in Lags
<1>1. CASE LagPrepare
  BY <1>1, LagPrepareKeeps
<1>2. CASE ConsumerGroupLagCheckStatus
  BY <1>2, ConsumerGroupLagCheckStatusKeeps
<1>3. CASE PollOrClock /\ UNCHANGED acceptableLag
  <2>1. Len(observed) \in Nat
    BY LenProperties DEF LagInv
  <2>2. /\ CheckTypeOK(States)' /\ Polling'
        /\ UNCHANGED <<expected, mode, failEarly, success, title, observed, reported, concluded>>
        /\ phase # "new" /\ phase' # "new"
    BY <1>3, <2>1, PollOrClockKeeps
  <2>3. LagBreached' <=> LagBreached
    BY <1>3, <2>2 DEF LagBreached, Polls
  <2> QED
    BY <1>3, <2>2, <2>3 DEF LagInv
<1> QED
  BY <1>1, <1>2, <1>3 DEF LagNext

-------------------------------------------------------------------------------
(* The invariant, and what follows from it.                                *)

Selectable == IF check = "brokers" THEN BrokerKinds
           ELSE IF check = "partitions" THEN PartitionKinds ELSE States

(* TypeOK by its parts. *)
TypeParts == /\ CheckTypeOK(Selectable) /\ BrokersTypes
             /\ check = "brokers" => BrokersRemembered
             /\ check = "partitions" => PartitionsRemembered
             /\ acceptableLag \in Lags

LEMMA Types == TypeOK <=> TypeParts
  BY DEF TypeOK, TypeParts, Selectable, BrokersTypes, BrokersRemembered, PartitionsRemembered

LEMMA InitIInv == Init => IInv
<1> SUFFICES ASSUME Init PROVE IInv
  OBVIOUS
<1>1. /\ check \in {"brokers", "partitions", "group", "lag"}
      /\ CheckInit /\ BrokersInit /\ PartitionsInit /\ LagInit
  BY DEF Init
<1>2. observed = << >> /\ Len(observed) = 0 /\ observed \in Seq({})
  BY <1>1 DEF CheckInit
<1>3. /\ observed \in Seq(Metadata) /\ observed \in Seq(Topics)
      /\ observed \in Seq(States \cup {NoState}) /\ observed \in Seq(Lags \cup {NoLag})
  BY <1>2
<1>4. Polls = {} /\ BrokerPolls = {}
  BY <1>2 DEF Polls, BrokerPolls
<1>5. /\ ~BrokersDeviated /\ ~BrokersHit /\ ~PartitionsDeviated /\ ~PartitionsHit
      /\ ~GroupDeviated /\ ~GroupHit /\ ~LagBreached
  BY <1>4 DEF BrokersDeviated, BrokersHit, PartitionsDeviated, PartitionsHit,
              GroupDeviated, GroupHit, LagBreached
<1>6. /\ Told(BrokersDeviated, BrokersHit) /\ Told(PartitionsDeviated, PartitionsHit)
      /\ Told(GroupDeviated, GroupHit)
  BY <1>1, <1>5 DEF Told, CheckInit
<1>7. BrokersFirstKept /\ PartitionsFirstKept /\ GroupFirstKept
  BY <1>1 DEF BrokersFirstKept, PartitionsFirstKept, GroupFirstKept, CheckInit
<1>8. \A p : LastSeen(p, 0) = 0
  BY NothingSeen
<1>9. SeenInPolls
  BY <1>2, <1>8 DEF SeenInPolls
<1>10. PartitionsRemembered
  BY <1>1, <1>2, <1>8 DEF PartitionsRemembered, PartitionsInit
<1>11. CheckTypeOK(Selectable) /\ Polling
  <2>1. CheckTypeOK(Selectable)
    <3>1. Len(observed) <= MaxPolls
      BY <1>2, PollsAssumption
    <3>2. /\ phase = "new" /\ afterEnd = FALSE /\ completed = FALSE /\ expected = {}
          /\ mode \in Modes /\ failEarly = TRUE /\ success = FALSE /\ title = NoTitle
          /\ reported = FALSE /\ concluded = FALSE
      BY <1>1 DEF CheckInit, Modes
    <3> QED
      BY <3>1, <3>2 DEF CheckTypeOK
  <2>2. Polling
    BY <1>1, <1>2, PollsAssumption DEF Polling, CheckInit
  <2> QED
    BY <2>1, <2>2
<1>12. BrokersTypes /\ BrokersRemembered /\ acceptableLag \in Lags
  BY <1>1, <1>2, LagsAssumption DEF BrokersTypes, BrokersRemembered, BrokersInit, LagInit
<1>13. TypeOK
  BY <1>10, <1>11, <1>12, Types DEF TypeParts
<1>14. BrokersInv
  BY <1>1, <1>3, <1>6, <1>7 DEF BrokersInv, CheckInit
<1>15. PartitionsInv
  BY <1>3, <1>6, <1>7, <1>9 DEF PartitionsInv
<1>16. GroupInv
  BY <1>3, <1>6, <1>7 DEF GroupInv
<1>17. LagInv
  BY <1>1, <1>3, <1>5 DEF LagInv, CheckInit
<1> QED
  BY <1>1, <1>11, <1>13, <1>14, <1>15, <1>16, <1>17 DEF IInv

LEMMA StepIInv == IInv /\ [Next]_vars => IInv'
<1> SUFFICES ASSUME IInv, [Next]_vars PROVE IInv'
  OBVIOUS
<1>1. /\ CheckTypeOK(Selectable) /\ BrokersTypes /\ Polling
      /\ check = "brokers" => BrokersRemembered /\ BrokersInv
      /\ check = "partitions" => PartitionsRemembered /\ PartitionsInv
      /\ check = "group" => GroupInv
      /\ check = "lag" => LagInv
      /\ acceptableLag \in Lags
      /\ check \in {"brokers", "partitions", "group", "lag"}
  BY Types DEF IInv, TypeParts
<1>2. check' = check /\ (TypeParts' => TypeOK')
  <2>1. (TypeParts => TypeOK)'
    BY Types, PTL
  <2> QED
    BY <2>1 DEF Next, vars
<1>3. CASE check = "brokers" /\ BrokersNext /\ UNCHANGED <<previous, acceptableLag>>
  <2>1. CheckTypeOK(BrokerKinds)
    BY <1>1, <1>3 DEF Selectable
  <2>2. /\ CheckTypeOK(BrokerKinds)' /\ Polling' /\ BrokersInv'
        /\ BrokersTypes' /\ BrokersRemembered'
    BY <1>1, <1>3, <2>1, BrokersNextKeeps
  <2>3. CheckTypeOK(Selectable)' /\ acceptableLag' \in Lags
    BY <1>1, <1>2, <1>3, <2>2 DEF Selectable
  <2>4. TypeOK'
    BY <1>2, <1>3, <2>2, <2>3 DEF TypeParts
  <2> QED
    BY <1>2, <1>3, <2>2, <2>4 DEF IInv
<1>4. CASE check = "partitions" /\ PartitionsNext /\ UNCHANGED <<brokerVars, acceptableLag>>
  <2>1. CheckTypeOK(PartitionKinds)
    BY <1>1, <1>4 DEF Selectable
  <2>2. /\ CheckTypeOK(PartitionKinds)' /\ Polling' /\ PartitionsInv'
        /\ PartitionsRemembered'
    BY <1>1, <1>4, <2>1, PartitionsNextKeeps
  <2>3. CheckTypeOK(Selectable)' /\ acceptableLag' \in Lags /\ BrokersTypes'
    BY <1>1, <1>2, <1>4, <2>2 DEF Selectable, BrokersTypes, brokerVars
  <2>4. TypeOK'
    BY <1>2, <1>4, <2>2, <2>3 DEF TypeParts
  <2> QED
    BY <1>2, <1>4, <2>2, <2>4 DEF IInv
<1>5. CASE check = "group" /\ GroupNext /\ UNCHANGED <<brokerVars, previous, acceptableLag>>
  <2>1. CheckTypeOK(States)
    BY <1>1, <1>5 DEF Selectable
  <2>2. CheckTypeOK(States)' /\ Polling' /\ GroupInv'
    BY <1>1, <1>5, <2>1, GroupNextKeeps
  <2>3. CheckTypeOK(Selectable)' /\ acceptableLag' \in Lags /\ BrokersTypes'
    BY <1>1, <1>2, <1>5, <2>2 DEF Selectable, BrokersTypes, brokerVars
  <2>4. TypeOK'
    BY <1>2, <1>5, <2>2, <2>3 DEF TypeParts
  <2> QED
    BY <1>2, <1>5, <2>2, <2>4 DEF IInv
<1>6. CASE check = "lag" /\ LagNext /\ UNCHANGED <<brokerVars, previous>>
  <2>1. CheckTypeOK(States)
    BY <1>1, <1>6 DEF Selectable
  <2>2. CheckTypeOK(States)' /\ Polling' /\ LagInv' /\ acceptableLag' \in Lags
    BY <1>1, <1>6, <2>1, LagNextKeeps
  <2>3. CheckTypeOK(Selectable)' /\ BrokersTypes'
    BY <1>1, <1>2, <1>6, <2>2 DEF Selectable, BrokersTypes, brokerVars
  <2>4. TypeOK'
    BY <1>2, <1>6, <2>2, <2>3 DEF TypeParts
  <2> QED
    BY <1>2, <1>6, <2>2, <2>4 DEF IInv
<1>7. CASE UNCHANGED vars
  <2>1. /\ UNCHANGED <<phase, afterEnd, completed, expected, mode, failEarly>>
        /\ UNCHANGED <<success, title, observed, reported, concluded>>
        /\ UNCHANGED <<previousController, brokerNodes, previous, acceptableLag, check>>
    BY <1>7 DEF vars, checkVars, parameters, history, brokerVars
  <2>2. TypeOK' /\ Polling'
    BY <2>1 DEF IInv, TypeOK, CheckTypeOK, Polling, LastSeen
  <2>3. BrokersInv' <=> BrokersInv
    BY <2>1 DEF BrokersInv, Told, MustMatchOnce, BrokersDeviated, BrokersHit, BrokersFirstKept,
                IsFirst, BrokerPolls, BrokersDeviatedAt, BrokersChangedAt
  <2>4. PartitionsInv' <=> PartitionsInv
    BY <2>1 DEF PartitionsInv, SeenInPolls, Told, MustMatchOnce, PartitionsDeviated,
                PartitionsHit, PartitionsFirstKept, IsFirst, Polls, PartitionsDeviatedAt,
                PartitionsChangedAt, LastSeen
  <2>5. GroupInv' <=> GroupInv
    BY <2>1 DEF GroupInv, Told, MustMatchOnce, GroupDeviated, GroupHit, GroupFirstKept,
                IsFirst, Polls, GroupDeviatedAt
  <2>6. LagInv' <=> LagInv
    BY <2>1 DEF LagInv, LagBreached, Polls
  <2> QED
    BY <2>1, <2>2, <2>3, <2>4, <2>5, <2>6 DEF IInv
<1> QED
  BY <1>3, <1>4, <1>5, <1>6, <1>7 DEF Next

LEMMA Invariance == Spec => []IInv
  BY InitIInv, StepIInv, PTL DEF Spec

(* Every variable of the four checks has a value the program can give it,  *)
(* and PreviousController, BrokerNodes and the four maps of the partition  *)
(* check hold what the brokers answered last, for any number of polls.     *)
THEOREM TypeCorrect == Spec => []TypeOK
<1>1. IInv => TypeOK
  BY DEF IInv
<1> QED
  BY <1>1, Invariance, PTL

(* brokerCheckStatus: a failure is reported exactly when some poll (at     *)
(* least once: no poll) shows what it must not and the failure is due.     *)
THEOREM BrokersAreJudged == Spec => []BrokersVerdictIsRight
<1>1. IInv => BrokersVerdictIsRight
  <2> SUFFICES ASSUME IInv, check = "brokers", phase # "new"
               PROVE  reported <=> Due /\ ~BrokersFulfilled
    BY DEF BrokersVerdictIsRight, BrokersVerdict
  <2>1. Told(BrokersDeviated, BrokersHit)
    BY DEF IInv, BrokersInv
  <2>2. MustMatchOnce => ~BrokersDeviated
    BY DEF MustMatchOnce, BrokersDeviated, BrokersDeviatedAt, AllTheTime, AtLeastOnce
  <2>3. BrokersFulfilled <=> IF MustMatchOnce THEN BrokersHit ELSE ~BrokersDeviated
    BY DEF BrokersFulfilled, BrokersHit, BrokersDeviated
  <2> QED
    BY <2>1, <2>2, <2>3 DEF Told, Due
<1> QED
  BY <1>1, Invariance, PTL

(* TopicCheckStatus: with expected changes a failure is reported exactly   *)
(* when it is due and some poll shows another change (at least once: no    *)
(* poll shows an expected one), and without any there is none.  A poll is  *)
(* compared with the last one that saw the partition, however often it     *)
(* vanishes from the answers and comes back.  Of lines 100 and 125, which  *)
(* promise a failure for any change and for a poll without one, this says  *)
(* the opposite: it is what the code does.                                 *)
THEOREM PartitionsAreJudged == Spec => []PartitionsVerdictIsRight
<1>1. IInv => PartitionsVerdictIsRight
  <2> SUFFICES ASSUME IInv, check = "partitions", phase # "new"
               PROVE  IF expected = {} THEN ~reported ELSE reported <=> Due /\ ~PartitionsFulfilled
    BY DEF PartitionsVerdictIsRight, PartitionsVerdict
  <2>1. Told(PartitionsDeviated, PartitionsHit)
    BY DEF IInv, PartitionsInv
  <2>2. MustMatchOnce => ~PartitionsDeviated
    BY DEF MustMatchOnce, PartitionsDeviated, PartitionsDeviatedAt, AllTheTime, AtLeastOnce
  <2>3. mode = AllTheTime \/ mode = AtLeastOnce
    BY Types DEF IInv, TypeParts, CheckTypeOK, Modes
  <2>4. expected # {} =>
          (PartitionsFulfilled <=> IF MustMatchOnce THEN PartitionsHit ELSE ~PartitionsDeviated)
    BY <2>3 DEF PartitionsFulfilled, PartitionsHit, PartitionsDeviated, PartitionsDeviatedAt,
                MustMatchOnce, Polls, AllTheTime, AtLeastOnce
  <2>5. CASE expected = {}
    BY <2>1, <2>5 DEF Told, MustMatchOnce, PartitionsDeviated
  <2>6. CASE expected # {}
    BY <2>1, <2>2, <2>4, <2>6 DEF Told, Due
  <2> QED
    BY <2>5, <2>6
<1> QED
  BY <1>1, Invariance, PTL

(* The same for the states of a consumer group; a group the answer does    *)
(* not hold is in no state anybody expects.                                *)
THEOREM GroupIsJudged == Spec => []GroupVerdictIsRight
<1>1. IInv => GroupVerdictIsRight
  <2> SUFFICES ASSUME IInv, check = "group", phase # "new"
               PROVE  reported <=> Due /\ ~GroupFulfilled
    BY DEF GroupVerdictIsRight, GroupVerdict
  <2>1. Told(GroupDeviated, GroupHit)
    BY DEF IInv, GroupInv
  <2>2. MustMatchOnce => ~GroupDeviated
    BY DEF MustMatchOnce, GroupDeviated, AllTheTime, AtLeastOnce
  <2>3. mode = AllTheTime \/ mode = AtLeastOnce
    BY Types DEF IInv, TypeParts, CheckTypeOK, Modes
  <2>4. GroupFulfilled <=> IF MustMatchOnce THEN GroupHit ELSE ~GroupDeviated
    BY <2>3 DEF GroupFulfilled, GroupHit, GroupDeviated, MustMatchOnce, Polls,
                AllTheTime, AtLeastOnce
  <2> QED
    BY <2>1, <2>2, <2>4 DEF Told, Due
<1> QED
  BY <1>1, Invariance, PTL

(* toleratedLagCheckStatus: a lag that reached the threshold in any poll   *)
(* is reported, whether or not it has recovered by the end.                *)
THEOREM LagIsJudged == Spec => []LagVerdictIsRight
<1>1. IInv => LagVerdictIsRight
  <2> SUFFICES ASSUME IInv, check = "lag", phase # "new"
               PROVE  reported <=>
                        Due /\ \E i \in 1..Len(observed) : LagOf(observed[i]) >= acceptableLag
    BY DEF LagVerdictIsRight, LagVerdict
  <2>1. LagInv
    BY DEF IInv
  <2>2. ~MustMatchOnce
    BY <2>1 DEF LagInv, MustMatchOnce
  <2>3. LagBreached <=> \E i \in 1..Len(observed) : LagOf(observed[i]) >= acceptableLag
    BY DEF LagBreached, Polls
  <2> QED
    BY <2>1, <2>2, <2>3 DEF LagInv, Due
<1> QED
  BY <1>1, Invariance, PTL

(* recordDeviation: the title reported at the end is one of the poll that  *)
(* deviated first, whatever deviates later.                                *)
THEOREM FirstIsKept == Spec => []FirstDeviationIsKept
<1>1. IInv => FirstDeviationIsKept
  BY DEF IInv, BrokersInv, PartitionsInv, GroupInv, FirstDeviationIsKept
<1> QED
  BY <1>1, Invariance, PTL

================================================================================
