---------------------------- MODULE AttacksProofs ------------------------------
(***************************************************************************)
(* Proofs about Attacks: denials of any number of executions, records of   *)
(* any topic and any number to keep, elections of any partition.           *)
(***************************************************************************)
EXTENDS Attacks, NaturalsInduction, FiniteSetTheorems, SequenceTheorems, TLAPS

-------------------------------------------------------------------------------
(* Denials: what the run checks is inductive with the types.               *)

DenyInv == DenyTypeOK /\ NoDenialRemains /\ DeniedWhileStarted

(* Whatever part of the entries the brokers create or delete in one call,  *)
(* answered or not, the denials stay in order. *)
LEMMA DenyStep ==
  ASSUME DenyInv, DenyNext
  PROVE  DenyInv'
<1> USE DEF DenyInv, DenyTypeOK
<1>1. ASSUME NEW e \in Denials, DenyPrepare(e)
      PROVE  DenyInv'
  <2>1. DenyTypeOK'
    BY <1>1 DEF DenyPrepare
  <2>2. NoDenialRemains'
    BY <1>1 DEF DenyPrepare, NoDenialRemains
  <2>3. DeniedWhileStarted'
    BY <1>1 DEF DenyPrepare, DeniedWhileStarted
  <2> QED
    BY <2>1, <2>2, <2>3
<1>2. ASSUME NEW e \in Denials, DenyStart(e)
      PROVE  DenyInv'
  <2>1. PICK created \in SUBSET Bindings :
          /\ acls' = acls \cup created
          /\ \/ created = Bindings /\ denial' = [denial EXCEPT ![e] = "started"]
             \/ denial' = [denial EXCEPT ![e] = "startFailed"]
    BY <1>2 DEF DenyStart
  <2>2. DenyTypeOK'
    BY <1>2, <2>1 DEF DenyStart
  <2>3. NoDenialRemains'
    BY <2>1 DEF NoDenialRemains
  <2>4. DeniedWhileStarted'
    BY <1>2, <2>1 DEF DenyStart, DeniedWhileStarted
  <2> QED
    BY <2>2, <2>3, <2>4
<1>3. ASSUME NEW e \in Denials, DenyStop(e)
      PROVE  DenyInv'
  <2>1. PICK deleted \in SUBSET Bindings, refused \in SUBSET acls :
          /\ refused \cap deleted = {}
          /\ acls' = acls \ deleted /\ undeleted' = refused
          /\ \/ /\ deleted \cup refused = Bindings
                /\ denial' = [denial EXCEPT ![e] = "stopped"]
             \/ denial' = [denial EXCEPT ![e] = "stopFailed"]
    BY <1>3 DEF DenyStop
  <2>2. DenyTypeOK'
    BY <2>1
  <2>3. NoDenialRemains'
    BY <2>1 DEF NoDenialRemains
  <2>4. DeniedWhileStarted'
    BY <2>1 DEF DeniedWhileStarted
  <2> QED
    BY <2>2, <2>3, <2>4
<1>4. CASE DenyEnded
  BY <1>4 DEF DenyEnded, denyVars, NoDenialRemains, DeniedWhileStarted
<1> QED
  BY <1>1, <1>2, <1>3, <1>4 DEF DenyNext

-------------------------------------------------------------------------------
(* Deleted records: the loop knows the partitions before "at" as done.     *)

DeleteShapes ==
  /\ logs \in [Topic -> [start : Nat, end : 0..MaxEnd]]
  /\ first \in [Topic -> Nat]
  /\ ends \in [Topic -> Nat]
  /\ offset \in Int
  /\ chosen \in Seq(Asked \cup {NotANumber})
  /\ at \in Nat

Progress ==
  /\ deletion \in {"new", "prepared"} => at = 1
  /\ deletion = "deleted" => at > Len(chosen)

(* The partitions the loop has passed have lost what they should. *)
PassedAreDone ==
  \A i \in 1..at - 1 :
    /\ chosen[i] # NotANumber /\ Int32(chosen[i]) \in Topic
    /\ logs[Int32(chosen[i])].start >= ends[Int32(chosen[i])] - offset

(* The ones it has not come to have lost nothing, unless an answer is lost. *)
OthersUntouched ==
  deletion # "failed" =>
    \A p \in Topic :
      (\A i \in 1..at - 1 : Int32(chosen[i]) # p) => logs[p].start = first[p]

DeleteInv ==
  /\ DeleteTypeOK /\ DeleteShapes /\ Progress
  /\ PassedAreDone /\ OthersUntouched /\ NewestKept

(* The parameters are read once, before anything is deleted. *)
LEMMA PrepareKeepsOrder ==
  ASSUME DeleteInv, DeletePrepare
  PROVE  DeleteInv'
<1> USE DEF DeleteInv, DeletePrepare
<1>1. chosen' \in Seq(Asked \cup {NotANumber}) /\ Len(chosen') \in Nat
  <2>1. PICK m \in 0..MaxChosen : chosen' \in [1..m -> Asked \cup {NotANumber}]
    BY DEF SeqOf
  <2> QED
    BY <2>1, OffsetsAssumption
<1>2. at = 1
  BY DEF Progress
<1>3. DeleteTypeOK' /\ DeleteShapes'
  BY <1>1, <1>2, OffsetsAssumption DEF DeleteTypeOK, DeleteShapes
<1>4. Progress' /\ PassedAreDone'
  BY <1>2 DEF Progress, PassedAreDone
<1>5. \A p \in Topic : logs[p].start = first[p]
  BY <1>2 DEF OthersUntouched
<1>6. OthersUntouched' /\ NewestKept'
  BY <1>5 DEF OthersUntouched, NewestKept
<1> QED
  BY <1>3, <1>4, <1>6

LEMMA StartKeepsOrder ==
  ASSUME DeleteInv, DeleteStart
  PROVE  DeleteInv'
<1> USE DEF DeleteInv, DeleteStart
<1>1. at = 1
  BY DEF Progress
<1>2. DeleteTypeOK' /\ DeleteShapes'
  BY OffsetsAssumption DEF DeleteTypeOK, DeleteShapes
<1>3. Progress' /\ PassedAreDone'
  BY <1>1 DEF Progress, PassedAreDone
<1>4. OthersUntouched' /\ NewestKept'
  BY <1>1 DEF OthersUntouched, NewestKept
<1> QED
  BY <1>2, <1>3, <1>4

(* What the broker does to one log it accepts a request for: the start     *)
(* moves up, at least to the offset asked for unless that is the end, and  *)
(* for an attack that keeps records not past what is to be kept.           *)
LEMMA TruncatedLog ==
  ASSUME NEW log \in [start : Nat, end : 0..MaxEnd], log.start <= log.end,
         NEW e \in Nat, e <= log.end, offset \in Int,
         ~Refused(log, NewOffset(e))
  PROVE  LET new == Truncated(log, NewOffset(e))
         IN /\ new \in [start : Nat, end : 0..MaxEnd]
            /\ new.end = log.end
            /\ log.start <= new.start /\ new.start <= new.end
            /\ new.start >= e - offset
            /\ offset >= 0 => \/ new.start = log.start
                              \/ new.end - new.start >= offset
<1> DEFINE o == NewOffset(e)
<1>1. o \in Nat /\ o >= e - offset /\ (offset >= 0 => o = 0 \/ o = e - offset)
  BY DEF NewOffset, Larger
<1>2. Requested(log, o) = o
  BY <1>1 DEF Requested
<1>3. log.end \in Nat /\ log.start \in Nat /\ o <= log.end
  BY <1>1, <1>2, OffsetsAssumption DEF Refused
<1>4. Truncated(log, o) = [log EXCEPT !.start = Larger(log.start, o)]
  BY <1>2 DEF Truncated
<1> HIDE DEF o
<1>5. PICK s \in Nat : s = Larger(log.start, o)
  BY <1>1, <1>3 DEF Larger
<1>6. /\ log.start <= s /\ s <= log.end /\ s >= o
      /\ s = log.start \/ s = o
  BY <1>1, <1>3, <1>5 DEF Larger
<1>7. Truncated(log, o) = [start |-> s, end |-> log.end]
  BY <1>4, <1>5
<1> QED
  BY <1>1, <1>3, <1>6, <1>7 DEF o

(* One round of the loop, whether the answer arrives or not. *)
LEMMA RoundKeepsOrder ==
  ASSUME DeleteInv, DeletePartition
  PROVE  DeleteInv'
<1> USE DEF DeleteInv
<1> DEFINE p == Int32(chosen[at])
           new == Truncated(logs[p], NewOffset(ends[p]))
           asked == chosen[at] # NotANumber /\ p \in Topic /\ ~Refused(logs[p], NewOffset(ends[p]))
           done == [logs EXCEPT ![p] = Truncated(@, NewOffset(ends[p]))]
<1>1. /\ deletion = "deleting" /\ at \in Nat /\ Len(chosen) \in Nat
      /\ at >= 1 /\ at <= Len(chosen)
      /\ UNCHANGED <<first, offset, chosen, ends>>
  BY DEF DeletePartition, DeleteTypeOK, DeleteShapes
<1>2. \/ asked /\ logs' = done /\ at' = at + 1 /\ deletion' = deletion
      \/ deletion' = "failed" /\ at' = at /\ (logs' = logs \/ (asked /\ logs' = done))
  BY DEF DeletePartition
<1>3. ASSUME asked, logs' = done
      PROVE  /\ logs' \in [Topic -> [start : Nat, end : 0..MaxEnd]]
             /\ \A q \in Topic \ {p} : logs'[q] = logs[q]
             /\ \A q \in Topic : logs'[q].end = logs[q].end
             /\ \A q \in Topic : logs[q].start <= logs'[q].start
             /\ \A q \in Topic : logs'[q].start <= logs'[q].end
             /\ logs'[p].start >= ends[p] - offset
             /\ offset >= 0 => \/ logs'[p].start = logs[p].start
                               \/ logs'[p].end - logs'[p].start >= offset
  <2>1. /\ logs \in [Topic -> [start : Nat, end : 0..MaxEnd]]
        /\ logs[p] \in [start : Nat, end : 0..MaxEnd]
        /\ ends[p] \in Nat /\ offset \in Int
        /\ logs[p].start <= logs[p].end /\ ends[p] <= logs[p].end
    BY <1>3 DEF DeleteTypeOK, DeleteShapes
  <2>2. \A q \in Topic : logs[q].start \in Nat /\ logs[q].start <= logs[q].end
    BY <2>1 DEF DeleteTypeOK
  <2>3. /\ new \in [start : Nat, end : 0..MaxEnd]
        /\ new.end = logs[p].end
        /\ logs[p].start <= new.start /\ new.start <= new.end
        /\ new.start >= ends[p] - offset
        /\ offset >= 0 => \/ new.start = logs[p].start
                          \/ new.end - new.start >= offset
    BY <1>3, <2>1, TruncatedLog
  <2> HIDE DEF p
  <2>4. logs' = [logs EXCEPT ![p] = new]
    BY <1>3
  <2> HIDE DEF new
  <2> QED
    BY <1>3, <2>1, <2>2, <2>3, <2>4
<1> HIDE DEF done
<1>4. DeleteTypeOK'
  <2>1. \A q \in Topic : /\ first[q] \in Nat /\ logs[q].start \in Nat
                         /\ first[q] <= logs[q].start /\ ends[q] <= logs[q].end
                         /\ logs[q].start <= logs[q].end
    BY DEF DeleteTypeOK, DeleteShapes
  <2>2. at' \in 1..Len(chosen') + 1
    BY <1>1, <1>2
  <2>3. \A q \in Topic : first'[q] <= logs'[q].start /\ logs'[q].start <= logs'[q].end
    <3>1. CASE logs' = logs
      BY <1>1, <2>1, <3>1
    <3>2. CASE asked /\ logs' = done
      <4> TAKE q \in Topic
      <4>1. logs'[q].start \in Nat /\ logs[q].start <= logs'[q].start
        BY <1>3, <3>2
      <4> QED
        BY <1>1, <1>3, <2>1, <3>2, <4>1
    <3> QED
      BY <1>2, <3>1, <3>2
  <2>4. \A q \in Topic : ends'[q] <= logs'[q].end
    BY <1>1, <1>2, <1>3, <2>1
  <2> QED
    BY <1>1, <1>2, <2>2, <2>3, <2>4 DEF DeleteTypeOK
<1>5. DeleteShapes' /\ Progress'
  BY <1>1, <1>2, <1>3 DEF DeleteShapes, Progress
<1>6. \A q \in Topic : /\ logs[q].start \in Nat /\ logs'[q].start \in Nat
                       /\ logs[q].start <= logs'[q].start
                       /\ ends[q] \in Nat /\ offset \in Int
  <2>1. \A q \in Topic : logs[q].start \in Nat /\ ends[q] \in Nat /\ offset \in Int
    BY DEF DeleteShapes
  <2>2. \A q \in Topic : logs'[q].start \in Nat
    BY <1>5 DEF DeleteShapes
  <2>3. \A q \in Topic : logs[q].start <= logs'[q].start
    BY <1>2, <1>3, <2>1
  <2> QED
    BY <2>1, <2>2, <2>3
<1>7. PassedAreDone'
  <2> SUFFICES ASSUME NEW i \in 1..at' - 1
               PROVE  /\ chosen[i] # NotANumber /\ Int32(chosen[i]) \in Topic
                      /\ logs'[Int32(chosen[i])].start >= ends[Int32(chosen[i])] - offset
    BY <1>1 DEF PassedAreDone, Int32
  <2>1. CASE i \in 1..at - 1
    <3>1. /\ chosen[i] # NotANumber /\ Int32(chosen[i]) \in Topic
          /\ logs[Int32(chosen[i])].start >= ends[Int32(chosen[i])] - offset
      BY <2>1 DEF PassedAreDone
    <3> QED
      BY <1>6, <3>1
  <2>2. CASE i \notin 1..at - 1
    <3>1. i = at /\ asked /\ logs' = done
      BY <1>1, <1>2, <2>2
    <3> QED
      BY <1>3, <3>1
  <2> QED
    BY <2>1, <2>2
<1>8. OthersUntouched'
  <2> SUFFICES ASSUME deletion' # "failed", NEW q \in Topic,
                      \A i \in 1..at' - 1 : Int32(chosen[i]) # q
               PROVE  logs'[q].start = first[q]
    BY <1>1 DEF OthersUntouched
  <2>1. asked /\ logs' = done /\ at' = at + 1
    BY <1>2
  <2>2. q # p /\ \A i \in 1..at - 1 : Int32(chosen[i]) # q
    BY <1>1, <2>1
  <2>3. logs[q].start = first[q]
    BY <1>1, <2>2 DEF OthersUntouched
  <2> QED
    BY <1>3, <2>1, <2>2, <2>3
<1>9. NewestKept'
  <2> SUFFICES ASSUME offset >= 0, NEW q \in Topic
               PROVE  \/ logs'[q].end - logs'[q].start >= offset
                      \/ logs'[q].start = first[q]
    BY <1>1 DEF NewestKept
  <2>1. \/ logs[q].end - logs[q].start >= offset
        \/ logs[q].start = first[q]
    BY DEF NewestKept
  <2> QED
    BY <1>2, <1>3, <2>1
<1> QED
  BY <1>4, <1>5, <1>7, <1>8, <1>9

(* A producer appends meanwhile. *)
LEMMA ProduceKeepsOrder ==
  ASSUME DeleteInv, Produce
  PROVE  DeleteInv'
<1> USE DEF DeleteInv
<1>1. PICK p \in Topic : logs[p].end < MaxEnd /\ logs' = [logs EXCEPT ![p].end = @ + 1]
  BY DEF Produce
<1>2. UNCHANGED <<first, deletion, offset, chosen, at, ends>>
  BY DEF Produce
<1>3. /\ logs \in [Topic -> [start : Nat, end : 0..MaxEnd]]
      /\ MaxEnd \in Nat /\ offset \in Int
      /\ \A q \in Topic : first[q] \in Nat /\ ends[q] \in Nat
  BY OffsetsAssumption DEF DeleteShapes
<1>4. logs' = [logs EXCEPT ![p] = [start |-> logs[p].start, end |-> logs[p].end + 1]]
  <2>1. logs[p] \in [start : Nat, end : 0..MaxEnd]
    BY <1>3
  <2>2. [logs[p] EXCEPT !.end = @ + 1] = [start |-> logs[p].start, end |-> logs[p].end + 1]
    BY <2>1
  <2>3. logs' = [logs EXCEPT ![p] = [logs[p] EXCEPT !.end = @ + 1]]
    BY <1>1
  <2> QED
    BY <2>2, <2>3
<1>5. /\ logs' \in [Topic -> [start : Nat, end : 0..MaxEnd]]
      /\ \A q \in Topic : /\ logs[q].start \in Nat /\ logs'[q].start = logs[q].start
                          /\ logs[q].end \in Nat /\ logs'[q].end \in Nat
                          /\ logs'[q].end >= logs[q].end
  <2>1. logs[p].end + 1 \in 0..MaxEnd /\ logs[p].start \in Nat
    BY <1>1, <1>3
  <2>2. \A q \in Topic \ {p} : logs'[q] = logs[q]
    BY <1>3, <1>4
  <2>3. logs'[p] = [start |-> logs[p].start, end |-> logs[p].end + 1]
    BY <1>3, <1>4
  <2>4. [start |-> logs[p].start, end |-> logs[p].end + 1] \in [start : Nat, end : 0..MaxEnd]
    BY <2>1
  <2>5. logs' \in [Topic -> [start : Nat, end : 0..MaxEnd]]
    BY <1>3, <1>4, <2>4
  <2> QED
    BY <1>3, <2>1, <2>2, <2>3, <2>5
<1>6. DeleteTypeOK'
  BY <1>2, <1>3, <1>5 DEF DeleteTypeOK
<1>7. DeleteShapes' /\ Progress'
  BY <1>2, <1>5 DEF DeleteShapes, Progress
<1>8. PassedAreDone'
  BY <1>2, <1>5 DEF PassedAreDone
<1>9. OthersUntouched'
  BY <1>2, <1>5 DEF OthersUntouched
<1>10. NewestKept'
  BY <1>2, <1>3, <1>5 DEF NewestKept
<1> QED
  BY <1>6, <1>7, <1>8, <1>9, <1>10

LEMMA DeleteStep ==
  ASSUME DeleteInv, DeleteNext
  PROVE  DeleteInv'
<1>1. CASE DeletePrepare
  BY <1>1, PrepareKeepsOrder
<1>2. CASE DeleteStart
  BY <1>2, StartKeepsOrder
<1>3. CASE DeletePartition
  BY <1>3, RoundKeepsOrder
<1>4. CASE DeleteEnds
  BY <1>4 DEF DeleteEnds, DeleteInv, DeleteTypeOK, DeleteShapes, Progress,
              PassedAreDone, OthersUntouched, NewestKept
<1>5. CASE Produce
  BY <1>5, ProduceKeepsOrder
<1>6. CASE DeleteEnded
  BY <1>6 DEF DeleteEnded, deleteVars, DeleteInv, DeleteTypeOK, DeleteShapes, Progress,
              PassedAreDone, OthersUntouched, NewestKept
<1> QED
  BY <1>1, <1>2, <1>3, <1>4, <1>5, <1>6 DEF DeleteNext

-------------------------------------------------------------------------------
(* Every nonempty set of natural numbers has a least element.              *)

LEMMA LessThan ==
  \E R : /\ \A T \in SUBSET Nat : T # {} => \E x \in T : \A y \in T : <<y, x>> \notin R
         /\ \A x, y \in Nat : y < x => <<y, x>> \in R
<1>1. ASSUME NEW T \in SUBSET Nat, T # {}
      PROVE  \E x \in T : \A y \in T : <<y, x>> \notin OpToRel(<, Nat)
  BY <1>1, WFMin, NatLessThanWellFounded
<1>2. ASSUME NEW x \in Nat, NEW y \in Nat, y < x
      PROVE  <<y, x>> \in OpToRel(<, Nat)
  <2>1. <<y, x>> \in Nat \X Nat
    OBVIOUS
  <2>2. <<y, x>>[1] < <<y, x>>[2]
    BY <1>2
  <2> QED
    BY <2>1, <2>2, Zenon DEF OpToRel
<1> QED
  BY <1>1, <1>2, Zenon

LEMMA LeastNumber ==
  ASSUME NEW T \in SUBSET Nat, T # {}
  PROVE  \E x \in T : \A y \in T : x <= y
<1>1. PICK R : /\ \A U \in SUBSET Nat : U # {} => \E x \in U : \A y \in U : <<y, x>> \notin R
               /\ \A x, y \in Nat : y < x => <<y, x>> \in R
  BY LessThan
<1>2. PICK x \in T : \A y \in T : <<y, x>> \notin R
  BY <1>1
<1>3. \A y \in T : ~(y < x)
  BY <1>1, <1>2
<1> QED
  BY <1>2, <1>3

-------------------------------------------------------------------------------
(* The loop over the replicas: what it has appended after n rounds.        *)

Rounds(order, S, f, n) ==
  f = [i \in 0..n |->
        IF i = 0 THEN <<>>
        ELSE IF order[i] \in S THEN Append(f[i - 1], order[i])
        ELSE f[i - 1]]

(* There is such a loop for every number of rounds; if not, there were a   *)
(* least number for which there is none.                                   *)
LEMMA RoundsExist ==
  ASSUME NEW order, NEW S, NEW N \in Nat
  PROVE  \E f : Rounds(order, S, f, N)
<1> DEFINE Bad == {n \in Nat : ~ \E f : Rounds(order, S, f, n)}
<1>1. SUFFICES ASSUME Bad # {} PROVE FALSE
  OBVIOUS
<1>2. PICK n \in Bad : \A m \in Bad : n <= m
  BY <1>1, LeastNumber
<1>3. CASE n = 0
  <2> DEFINE f == [i \in 0..0 |-> <<>>]
  <2>1. Rounds(order, S, f, 0)
    BY DEF Rounds
  <2> QED
    BY <2>1, <1>2, <1>3
<1>4. CASE n # 0
  <2>1. n \in Nat /\ n - 1 \in Nat /\ n - 1 \notin Bad
    BY <1>2, <1>4
  <2>2. PICK g : Rounds(order, S, g, n - 1)
    BY <2>1
  <2> DEFINE last == IF order[n] \in S THEN Append(g[n - 1], order[n]) ELSE g[n - 1]
             f == [i \in 0..n |-> IF i = n THEN last ELSE g[i]]
  <2>3. /\ f = [i \in 0..n |-> f[i]]
        /\ \A i \in 0..n - 1 : f[i] = g[i]
        /\ f[n] = last
    BY <2>1
  <2>4. \A i \in 0..n - 1 :
          g[i] = IF i = 0 THEN <<>>
                 ELSE IF order[i] \in S THEN Append(g[i - 1], order[i])
                 ELSE g[i - 1]
    BY <2>1, <2>2 DEF Rounds
  <2> HIDE DEF f
  <2>5. \A i \in 0..n :
          f[i] = IF i = 0 THEN <<>>
                 ELSE IF order[i] \in S THEN Append(f[i - 1], order[i])
                 ELSE f[i - 1]
    <3> TAKE i \in 0..n
    <3>1. CASE i = n
      BY <3>1, <2>1, <2>3, <1>4
    <3>2. CASE i = 0
      BY <3>2, <2>1, <2>3, <2>4, <1>4
    <3>3. CASE i # n /\ i # 0
      <4>1. i \in 0..n - 1 /\ i - 1 \in 0..n - 1
        BY <2>1, <3>3
      <4> QED
        BY <3>3, <4>1, <2>3, <2>4
    <3> QED
      BY <3>1, <3>2, <3>3
  <2>6. Rounds(order, S, f, n)
    BY <2>3, <2>5 DEF Rounds
  <2> QED
    BY <2>6, <1>2
<1> QED
  BY <1>3, <1>4

(* The loop appends exactly the replicas of S, in the order they had: two  *)
(* that it appends one after the other came one after the other.           *)
Keeps(kept, order, S) ==
  /\ \A i \in 1..Len(kept) : kept[i] \in S
  /\ \A k \in 1..Len(order) :
       order[k] \in S => \E i \in 1..Len(kept) : kept[i] = order[k]
  /\ \A i \in 1..Len(kept) : \E k \in 1..Len(order) : kept[i] = order[k]
  /\ \A i, j \in 1..Len(kept) : i < j =>
       \E k, l \in 1..Len(order) :
         k < l /\ kept[i] = order[k] /\ kept[j] = order[l]

LEMMA AmongFacts ==
  ASSUME NEW D, NEW order \in Seq(D), NEW S
  PROVE  Among(order, S) \in Seq(D) /\ Keeps(Among(order, S), order, S)
<1> DEFINE Kept(t, n) ==
             /\ t \in Seq(D)
             /\ \A i \in 1..Len(t) : t[i] \in S
             /\ \A k \in 1..n : order[k] \in S => \E i \in 1..Len(t) : t[i] = order[k]
             /\ \A i \in 1..Len(t) : \E k \in 1..n : t[i] = order[k]
             /\ \A i, j \in 1..Len(t) : i < j =>
                  \E k, l \in 1..n : k < l /\ t[i] = order[k] /\ t[j] = order[l]
<1>1. PICK N \in Nat : N = Len(order)
  OBVIOUS
<1> DEFINE f == CHOOSE g : Rounds(order, S, g, N)
<1>2. Rounds(order, S, f, N)
  BY RoundsExist
<1>3. Among(order, S) = f[N]
  BY <1>1 DEF Among, Rounds
<1> HIDE DEF f
<1>4. /\ f[0] = <<>>
      /\ \A i \in 1..N : /\ order[i] \in S => f[i] = Append(f[i - 1], order[i])
                         /\ order[i] \notin S => f[i] = f[i - 1]
  <2>1. \A i \in 0..N :
          f[i] = IF i = 0 THEN <<>>
                 ELSE IF order[i] \in S THEN Append(f[i - 1], order[i])
                 ELSE f[i - 1]
    BY <1>2 DEF Rounds
  <2>2. 0 \in 0..N /\ \A i \in 1..N : i \in 0..N /\ i # 0
    OBVIOUS
  <2> QED
    BY <2>1, <2>2
<1>5. ASSUME NEW n \in 1..N, Kept(f[n - 1], n - 1)
      PROVE  Kept(f[n], n)
  <2>1. PICK t \in Seq(D) : t = f[n - 1]
    BY <1>5
  <2>2. Kept(t, n - 1)
    BY <1>5, <2>1
  <2>3. CASE order[n] \notin S
    <3>1. f[n] = t
      BY <1>4, <2>1, <2>3
    <3>2. \A k \in 1..n : k \in 1..n - 1 \/ order[k] \notin S
      BY <2>3
    <3>3. \A k \in 1..n - 1 : k \in 1..n
      OBVIOUS
    <3>4. Kept(t, n)
      <4>1. \A k \in 1..n : order[k] \in S => \E i \in 1..Len(t) : t[i] = order[k]
        BY <2>2, <3>2
      <4>2. \A i \in 1..Len(t) : \E k \in 1..n : t[i] = order[k]
        BY <2>2, <3>3
      <4>3. \A i, j \in 1..Len(t) : i < j =>
              \E k, l \in 1..n : k < l /\ t[i] = order[k] /\ t[j] = order[l]
        BY <2>2, <3>3
      <4> QED
        BY <2>2, <4>1, <4>2, <4>3
    <3> QED
      BY <3>1, <3>4
  <2>4. CASE order[n] \in S
    <3> DEFINE u == Append(t, order[n])
    <3>1. f[n] = u
      BY <1>4, <2>1, <2>4
    <3>2. order[n] \in D
      BY <1>1
    <3>3. PICK m \in Nat : m = Len(t)
      BY <2>1
    <3>4. /\ u \in Seq(D) /\ Len(u) = m + 1
          /\ \A i \in 1..m : u[i] = t[i]
          /\ u[m + 1] = order[n]
      BY <2>1, <3>2, <3>3
    <3> HIDE DEF u
    <3>5. \A i \in 1..m + 1 : i \in 1..m \/ i = m + 1
      BY <3>3
    <3>6. \A i \in 1..m + 1 : u[i] \in S
      BY <2>2, <2>4, <3>3, <3>4, <3>5
    <3>7. \A k \in 1..n : order[k] \in S => \E i \in 1..m + 1 : u[i] = order[k]
      <4> SUFFICES ASSUME NEW k \in 1..n, order[k] \in S
                   PROVE  \E i \in 1..m + 1 : u[i] = order[k]
        OBVIOUS
      <4>1. CASE k = n
        BY <3>3, <3>4, <4>1
      <4>2. CASE k # n
        <5>1. k \in 1..n - 1
          BY <4>2
        <5>2. PICK i \in 1..m : t[i] = order[k]
          BY <2>2, <3>3, <5>1
        <5> QED
          BY <3>3, <3>4, <5>2
      <4> QED
        BY <4>1, <4>2
    <3>8. \A i \in 1..m : \E k \in 1..n - 1 : u[i] = order[k]
      BY <2>2, <3>3, <3>4
    <3>9. \A i \in 1..m + 1 : \E k \in 1..n : u[i] = order[k]
      BY <3>4, <3>5, <3>8
    <3>10. ASSUME NEW i \in 1..m + 1, NEW j \in 1..m + 1, i < j
           PROVE  \E k, l \in 1..n : k < l /\ u[i] = order[k] /\ u[j] = order[l]
      <4>1. i \in 1..m
        BY <3>3, <3>10
      <4>2. CASE j = m + 1
        <5>1. PICK k \in 1..n - 1 : u[i] = order[k]
          BY <3>8, <4>1
        <5>2. k \in 1..n /\ n \in 1..n /\ k < n
          BY <5>1
        <5> QED
          BY <3>4, <4>2, <5>1, <5>2
      <4>3. CASE j # m + 1
        <5>1. j \in 1..m
          BY <3>3, <4>3
        <5>2. PICK k \in 1..n - 1, l \in 1..n - 1 : k < l /\ t[i] = order[k] /\ t[j] = order[l]
          BY <2>2, <3>3, <3>10, <4>1, <5>1
        <5> QED
          BY <3>4, <4>1, <5>1, <5>2
      <4> QED
        BY <4>2, <4>3
    <3> QED
      BY <3>1, <3>4, <3>6, <3>7, <3>9, <3>10
  <2> QED
    BY <2>3, <2>4
<1>6. Kept(f[0], 0)
  BY <1>4
<1> HIDE DEF Kept
<1>7. Kept(f[N], N)
  <2> DEFINE Bad == {n \in Nat : n <= N /\ ~Kept(f[n], n)}
  <2>1. SUFFICES ASSUME Bad # {} PROVE FALSE
    BY <1>1
  <2>2. PICK n \in Bad : \A m \in Bad : n <= m
    BY <2>1, LeastNumber
  <2>3. n \in 1..N /\ n - 1 \in Nat
    BY <1>6, <2>2
  <2>4. Kept(f[n - 1], n - 1)
    BY <2>2, <2>3
  <2> QED
    BY <1>5, <2>2, <2>3, <2>4
<1>8. Kept(Among(order, S), Len(order))
  BY <1>1, <1>3, <1>7
<1> QED
  BY <1>8 DEF Kept, Keeps

-------------------------------------------------------------------------------
(* relegateLeader, for every order, set in sync and leader.                *)

Rank(b, inSync, l) == IF b = l THEN 2 ELSE IF b \in inSync THEN 0 ELSE 1

LEMMA RelegatedOrder ==
  ASSUME NEW D, NEW order \in Seq(D), NEW inSync, NEW l \in D
  PROVE  LET new == relegateLeader(order, inSync, l)
         IN /\ new \in Seq(D) /\ Len(new) >= 1
            /\ ToSet(new) = ToSet(order) \cup {l}
            /\ (\E b \in ToSet(order) : b # l) => Head(new) # l
            /\ \A i, j \in 1..Len(new) : i < j =>
                 \/ Rank(new[i], inSync, l) < Rank(new[j], inSync, l)
                 \/ /\ Rank(new[i], inSync, l) = Rank(new[j], inSync, l)
                    /\ \E k, m \in 1..Len(order) :
                         k < m /\ new[i] = order[k] /\ new[j] = order[m]
<1> DEFINE Near == inSync \ {l}
           Far  == ToSet(order) \ (inSync \cup {l})
           new == relegateLeader(order, inSync, l)
<1>1. PICK Former \in Seq(D) : Former = Among(order, Near) /\ Keeps(Former, order, Near)
  BY AmongFacts, Zenon
<1>2. PICK Latter \in Seq(D) : Latter = Among(order, Far) /\ Keeps(Latter, order, Far)
  BY AmongFacts, Zenon
<1>3. new = Former \o Latter \o <<l>>
  BY <1>1, <1>2 DEF relegateLeader
<1> HIDE DEF new, Near, Far
<1>4. PICK a \in Nat, b \in Nat, o \in Nat : a = Len(Former) /\ b = Len(Latter) /\ o = Len(order)
  OBVIOUS
<1>5. /\ \A i \in 1..a : Former[i] \in Near
      /\ \A k \in 1..o : order[k] \in Near => \E i \in 1..a : Former[i] = order[k]
      /\ \A i \in 1..a : \E k \in 1..o : Former[i] = order[k]
      /\ \A i, j \in 1..a : i < j =>
           \E k, m \in 1..o : k < m /\ Former[i] = order[k] /\ Former[j] = order[m]
  <2>1. \A i \in 1..a : Former[i] \in Near
    BY <1>1, <1>4 DEF Keeps
  <2>2. \A k \in 1..o : order[k] \in Near => \E i \in 1..a : Former[i] = order[k]
    BY <1>1, <1>4 DEF Keeps
  <2>3. \A i \in 1..a : \E k \in 1..o : Former[i] = order[k]
    BY <1>1, <1>4 DEF Keeps
  <2>4. \A i, j \in 1..a : i < j =>
          \E k, m \in 1..o : k < m /\ Former[i] = order[k] /\ Former[j] = order[m]
    BY <1>1, <1>4 DEF Keeps
  <2> QED
    BY <2>1, <2>2, <2>3, <2>4
<1>6. /\ \A i \in 1..b : Latter[i] \in Far
      /\ \A k \in 1..o : order[k] \in Far => \E i \in 1..b : Latter[i] = order[k]
      /\ \A i \in 1..b : \E k \in 1..o : Latter[i] = order[k]
      /\ \A i, j \in 1..b : i < j =>
           \E k, m \in 1..o : k < m /\ Latter[i] = order[k] /\ Latter[j] = order[m]
  <2>1. \A i \in 1..b : Latter[i] \in Far
    BY <1>2, <1>4 DEF Keeps
  <2>2. \A k \in 1..o : order[k] \in Far => \E i \in 1..b : Latter[i] = order[k]
    BY <1>2, <1>4 DEF Keeps
  <2>3. \A i \in 1..b : \E k \in 1..o : Latter[i] = order[k]
    BY <1>2, <1>4 DEF Keeps
  <2>4. \A i, j \in 1..b : i < j =>
          \E k, m \in 1..o : k < m /\ Latter[i] = order[k] /\ Latter[j] = order[m]
    BY <1>2, <1>4 DEF Keeps
  <2> QED
    BY <2>1, <2>2, <2>3, <2>4
<1>7. /\ new \in Seq(D) /\ Len(new) = a + b + 1
      /\ \A i \in 1..a : new[i] = Former[i]
      /\ \A i \in a + 1..a + b : new[i] = Latter[i - a]
      /\ new[a + b + 1] = l
  <2>1. PICK C \in Seq(D) : C = Former \o Latter
    BY ConcatProperties
  <2>2. /\ Len(C) = a + b
        /\ \A i \in 1..a : C[i] = Former[i]
        /\ \A i \in a + 1..a + b : C[i] = Latter[i - a]
    BY <1>4, <2>1
  <2>3. new = Append(C, l)
    BY <1>3, <2>1
  <2>4. /\ new \in Seq(D) /\ Len(new) = Len(C) + 1
        /\ \A i \in 1..Len(C) : new[i] = C[i]
        /\ new[Len(C) + 1] = l
    BY <2>3
  <2>5. \A i : i \in 1..a \/ i \in a + 1..a + b => i \in 1..a + b
    BY <1>4
  <2> QED
    BY <2>2, <2>4, <2>5
<1>8. \A i \in 1..a + b + 1 : i \in 1..a \/ i \in a + 1..a + b \/ i = a + b + 1
  BY <1>4
<1>9. \A i \in a + 1..a + b : i - a \in 1..b
  BY <1>4
<1>10. /\ \A i \in 1..a : new[i] \in inSync /\ new[i] # l
       /\ \A i \in a + 1..a + b : new[i] \notin inSync /\ new[i] # l
  <2>1. \A i \in 1..a : new[i] \in Near
    BY <1>5, <1>7
  <2>2. \A i \in a + 1..a + b : new[i] \in Far
    BY <1>6, <1>7, <1>9
  <2> QED
    BY <2>1, <2>2, Zenon DEF Near, Far
<1>11. ToSet(order) = {order[k] : k \in 1..o} /\ ToSet(new) = {new[i] : i \in 1..a + b + 1}
  <2>1. DOMAIN order = 1..o /\ DOMAIN new = 1..a + b + 1
    BY <1>4, <1>7, LenProperties
  <2> QED
    BY <2>1, Zenon DEF ToSet
<1>12. ToSet(new) = ToSet(order) \cup {l}
  <2>1. ASSUME NEW i \in 1..a + b + 1
        PROVE  new[i] \in ToSet(order) \cup {l}
    <3>1. CASE i \in 1..a
      BY <1>5, <1>7, <1>11, <3>1
    <3>2. CASE i \in a + 1..a + b
      BY <1>6, <1>7, <1>9, <1>11, <3>2
    <3> QED
      BY <1>7, <1>8, <3>1, <3>2
  <2>2. ASSUME NEW k \in 1..o
        PROVE  \E i \in 1..a + b + 1 : new[i] = order[k]
    <3>1. CASE order[k] = l
      <4>1. a + b + 1 \in 1..a + b + 1
        BY <1>4
      <4> QED
        BY <1>7, <3>1, <4>1
    <3>2. CASE order[k] \in Near
      <4>1. PICK i \in 1..a : Former[i] = order[k]
        BY <1>5, <3>2
      <4> QED
        BY <1>4, <1>7, <4>1
    <3>3. CASE order[k] \in Far
      <4>1. PICK i \in 1..b : Latter[i] = order[k]
        BY <1>6, <3>3
      <4>2. i + a \in a + 1..a + b /\ i + a \in 1..a + b + 1 /\ (i + a) - a = i
        BY <1>4
      <4> QED
        BY <1>7, <4>1, <4>2
    <3> QED
      BY <1>11, <3>1, <3>2, <3>3 DEF Near, Far
  <2>3. l \in ToSet(new)
    BY <1>4, <1>7, <1>11
  <2> QED
    BY <1>11, <2>1, <2>2, <2>3
<1>13. ASSUME NEW c \in ToSet(order), c # l
       PROVE  Head(new) # l
  <2>1. PICK i \in 1..a + b + 1 : new[i] = c
    BY <1>11, <1>12
  <2>2. a + b >= 1
    BY <1>4, <1>7, <1>13, <2>1
  <2>3. 1 \in 1..a \/ 1 \in a + 1..a + b
    BY <1>4, <2>2
  <2> QED
    BY <1>4, <1>7, <1>10, <2>3
<1>14. ASSUME NEW i \in 1..a + b + 1, NEW j \in 1..a + b + 1, i < j
       PROVE  \/ Rank(new[i], inSync, l) < Rank(new[j], inSync, l)
              \/ /\ Rank(new[i], inSync, l) = Rank(new[j], inSync, l)
                 /\ \E k, m \in 1..o : k < m /\ new[i] = order[k] /\ new[j] = order[m]
  <2>1. CASE i \in 1..a /\ j \in 1..a
    <3>1. Rank(new[i], inSync, l) = 0 /\ Rank(new[j], inSync, l) = 0
      BY <1>10, <2>1 DEF Rank
    <3>2. \E k, m \in 1..o : k < m /\ Former[i] = order[k] /\ Former[j] = order[m]
      BY <1>5, <1>14, <2>1
    <3> QED
      BY <1>7, <2>1, <3>1, <3>2
  <2>2. CASE i \in a + 1..a + b /\ j \in a + 1..a + b
    <3>1. Rank(new[i], inSync, l) = 1 /\ Rank(new[j], inSync, l) = 1
      BY <1>10, <2>2 DEF Rank
    <3>2. i - a \in 1..b /\ j - a \in 1..b /\ i - a < j - a
      BY <1>4, <1>14, <2>2
    <3>3. \E k, m \in 1..o : k < m /\ Latter[i - a] = order[k] /\ Latter[j - a] = order[m]
      BY <1>6, <3>2
    <3> QED
      BY <1>7, <2>2, <3>1, <3>3
  <2>3. CASE i \in 1..a /\ j \in a + 1..a + b
    BY <1>10, <2>3 DEF Rank
  <2>4. CASE i \in 1..a + b /\ j = a + b + 1
    <3>1. i \in 1..a \/ i \in a + 1..a + b
      BY <1>4, <2>4
    <3> QED
      BY <1>7, <1>10, <2>4, <3>1 DEF Rank
  <2>5. \/ i \in 1..a /\ j \in 1..a
        \/ i \in a + 1..a + b /\ j \in a + 1..a + b
        \/ i \in 1..a /\ j \in a + 1..a + b
        \/ i \in 1..a + b /\ j = a + b + 1
    BY <1>4, <1>14
  <2> QED
    BY <2>1, <2>2, <2>3, <2>4, <2>5
<1> QED
  BY <1>4, <1>7, <1>12, <1>13, <1>14 DEF new

(* If no replica is named twice before, none is afterwards. *)
LEMMA RelegatedOnce ==
  ASSUME NEW D, NEW order \in Seq(D), NEW inSync, NEW l \in D, IsInjective(order)
  PROVE  IsInjective(relegateLeader(order, inSync, l))
<1> DEFINE new == relegateLeader(order, inSync, l)
<1>1. /\ new \in Seq(D)
      /\ \A i, j \in 1..Len(new) : i < j =>
           \/ Rank(new[i], inSync, l) < Rank(new[j], inSync, l)
           \/ \E k, m \in 1..Len(order) : k < m /\ new[i] = order[k] /\ new[j] = order[m]
  BY RelegatedOrder
<1> HIDE DEF new
<1>2. \A k, m \in 1..Len(order) : order[k] = order[m] => k = m
  BY DEF IsInjective
<1>3. ASSUME NEW i \in 1..Len(new), NEW j \in 1..Len(new), i < j
      PROVE  new[i] # new[j]
  <2>1. CASE Rank(new[i], inSync, l) < Rank(new[j], inSync, l)
    BY <2>1 DEF Rank
  <2>2. CASE \E k, m \in 1..Len(order) : k < m /\ new[i] = order[k] /\ new[j] = order[m]
    BY <1>2, <2>2
  <2> QED
    BY <1>1, <1>3, <2>1, <2>2
<1>4. DOMAIN new = 1..Len(new) /\ Len(new) \in Nat
  BY <1>1
<1>5. IsInjective(new)
  BY <1>3, <1>4 DEF IsInjective
<1> QED
  BY <1>5 DEF new

(* Two orders that name the same replicas, each once, have the same length. *)
LEMMA SameLength ==
  ASSUME NEW D, NEW s \in Seq(D), NEW t \in Seq(D),
         IsInjective(s), IsInjective(t), ToSet(s) = ToSet(t)
  PROVE  Len(s) = Len(t)
<1>1. ASSUME NEW u \in Seq(D), IsInjective(u)
      PROVE  Cardinality(ToSet(u)) = Len(u)
  <2>1. u \in [1..Len(u) -> ToSet(u)] /\ Len(u) \in Nat
    BY DEF ToSet
  <2>2. \A x \in ToSet(u) : \E i \in 1..Len(u) : u[i] = x
    BY DEF ToSet
  <2>3. u \in Bijection(1..Len(u), ToSet(u))
    BY <1>1, <2>1, <2>2 DEF Bijection, Injection, Surjection
  <2>4. ExistsBijection(1..Len(u), ToSet(u))
    BY <2>3 DEF ExistsBijection
  <2> QED
    BY <2>1, <2>4, FS_CountingElements
<1> QED
  BY <1>1

-------------------------------------------------------------------------------
(* Elections.  Unless the brokers' answer lacks the partition, the attack  *)
(* assigns an order of all replicas; the leader it has seen is the first   *)
(* only if there is no other.                                              *)

Several == \E a, b \in Replicas : a # b

AssignsAll ==
  /\ ToSet(assignment) = Replicas \cup {seenLeader}
  /\ Several => Head(assignment) # seenLeader

Whole ==
  /\ ToSet(replicas) = Replicas
  /\ election = "assigning" => AssignsAll
  /\ taken => election \notin {"new", "assigning"}
  /\ taken /\ Several => Head(replicas) # seenLeader

ElectInv ==
  /\ ElectTypeOK
  /\ replicas \in Seq(Replicas) /\ assignment \in Seq(Int)
  /\ ~StaleMetadata => Whole

(* The brokers have every replica once in the order the attack finds. *)
LEMMA InitialOrder ==
  ASSUME NEW order \in SetToSeqs(Replicas)
  PROVE  order \in Seq(Replicas) /\ IsInjective(order) /\ ToSet(order) = Replicas
<1>1. Cardinality(Replicas) \in Nat
  BY ReplicasAssumption, FS_CardinalityType
<1> DEFINE D == 1..Cardinality(Replicas)
<1>2. order \in [D -> Replicas] /\ \A i, j \in D : i # j => order[i] # order[j]
  BY DEF SetToSeqs
<1>3. order \in Injection(D, Replicas)
  BY <1>2 DEF Injection, IsInjective
<1>4. Cardinality(D) = Cardinality(Replicas)
  BY <1>1, FS_Interval
<1>5. order \in Surjection(D, Replicas)
  BY <1>3, <1>4, ReplicasAssumption, FS_Injection
<1> QED
  BY <1>1, <1>2, <1>3, <1>5 DEF ToSet, Injection, Surjection

LEMMA LookKeepsWhole ==
  ASSUME ElectInv, ElectLook
  PROVE  ElectInv'
<1> USE DEF ElectInv
<1>1. /\ UNCHANGED <<replicas, isr, leader, taken>> /\ election = "new"
      /\ election' \in {"assigning", "failed"}
  BY DEF ElectLook, partition
<1>2. /\ replicas \in Seq(Int)
      /\ ToSet(replicas) \subseteq Replicas /\ IsInjective(replicas)
      /\ leader \in Replicas \cup {NoLeader} /\ leader \in Int
      /\ Replicas \subseteq Int /\ NoLeader \notin Replicas
  <2>1. Replicas \subseteq Int /\ NoLeader \in Int /\ NoLeader \notin Replicas
    BY ReplicasAssumption DEF NoLeader
  <2>2. replicas \in Seq(Int)
    BY <2>1, SeqMonotonic
  <2>3. leader \in Replicas \cup {NoLeader} /\ leader \in Int
    BY <2>1 DEF ElectTypeOK
  <2> QED
    BY <2>1, <2>2, <2>3 DEF ElectTypeOK
<1>3. CASE /\ seenLeader' = leader
           /\ assignment' = relegateLeader(replicas, isr, leader)
  <2>1. /\ assignment' \in Seq(Int)
        /\ ToSet(assignment') = ToSet(replicas) \cup {leader}
        /\ (\E b \in ToSet(replicas) : b # leader) => Head(assignment') # leader
    BY <1>2, <1>3, RelegatedOrder
  <2>2. ASSUME ~StaleMetadata
        PROVE  Whole'
    <3>1. ToSet(replicas) = Replicas /\ ~taken
      BY <1>1, <2>2 DEF Whole
    <3>2. Several => \E b \in ToSet(replicas) : b # leader
      BY <3>1 DEF Several
    <3> QED
      BY <1>1, <1>2, <1>3, <2>1, <3>1, <3>2 DEF Whole, AssignsAll, Several
  <2> QED
    BY <1>1, <2>1, <2>2 DEF ElectTypeOK
<1>4. CASE /\ StaleMetadata
           /\ assignment' = relegateLeader(<<>>, {}, 0)
  <2>1. <<>> \in Seq(Int) /\ 0 \in Int
    OBVIOUS
  <2>2. assignment' \in Seq(Int)
    BY <1>4, <2>1, RelegatedOrder
  <2> QED
    BY <1>1, <1>4, <2>2 DEF ElectTypeOK
<1>5. CASE election' = "failed" /\ UNCHANGED <<seenLeader, assignment>>
  BY <1>1, <1>5 DEF ElectTypeOK, Whole
<1> QED
  BY <1>3, <1>4, <1>5 DEF ElectLook

LEMMA AssignKeepsWhole ==
  ASSUME ElectInv, ElectAssign
  PROVE  ElectInv'
<1> USE DEF ElectInv
<1>1. /\ UNCHANGED <<isr, leader, seenLeader, assignment>>
      /\ election = "assigning" /\ election' \in {"electing", "failed"}
  BY DEF ElectAssign
<1>2. CASE UNCHANGED <<replicas, taken>>
  BY <1>1, <1>2 DEF ElectTypeOK, Whole
<1>3. CASE Acceptable(assignment) /\ replicas' = assignment /\ taken' = TRUE
  <2>1. ToSet(assignment) \subseteq Replicas /\ IsInjective(assignment)
    BY <1>3 DEF Acceptable
  <2>2. assignment \in Seq(Replicas)
    BY <2>1 DEF ToSet
  <2>3. ~StaleMetadata => Whole'
    BY <1>1, <1>3, <2>1 DEF Whole, AssignsAll, Several
  <2> QED
    BY <1>1, <1>3, <2>1, <2>2, <2>3 DEF ElectTypeOK
<1> QED
  BY <1>2, <1>3 DEF ElectAssign

LEMMA ElectStep ==
  ASSUME ElectInv, ElectNext
  PROVE  ElectInv'
<1>1. CASE ElectLook
  BY <1>1, LookKeepsWhole
<1>2. CASE ElectAssign
  BY <1>2, AssignKeepsWhole
<1>3. CASE ElectPreferred
  <2>1. leader' = leader \/ leader' \in isr
    BY <1>3 DEF ElectPreferred
  <2> QED
    BY <1>3, <2>1 DEF ElectPreferred, ElectInv, ElectTypeOK, Whole, AssignsAll, Several
<1>4. CASE PartitionChanges
  BY <1>4 DEF PartitionChanges, ElectInv, ElectTypeOK, Whole, AssignsAll, Several
<1>5. CASE ElectEnded
  BY <1>5 DEF ElectEnded, electVars, partition, ElectInv, ElectTypeOK, Whole, AssignsAll, Several
<1> QED
  BY <1>1, <1>2, <1>3, <1>4, <1>5 DEF ElectNext

(* What the order of the loops in relegateLeader comes to in a state. *)
LEMMA WholeIsRelegated ==
  ASSUME ElectInv, ~StaleMetadata
  PROVE  LeaderRelegated
<1> DEFINE order == relegateLeader(replicas, isr, leader)
<1> SUFFICES ASSUME leader # NoLeader
             PROVE  /\ ToSet(order) = ToSet(replicas) /\ Len(order) = Len(replicas)
                    /\ \A i, j \in DOMAIN order : i < j =>
                         \/ Place(order[i]) < Place(order[j])
                         \/ /\ Place(order[i]) = Place(order[j])
                            /\ Position(order[i]) < Position(order[j])
  BY DEF LeaderRelegated
<1>1. /\ replicas \in Seq(Int) /\ IsInjective(replicas)
      /\ leader \in ToSet(replicas) /\ leader \in Int
  <2>1. Replicas \subseteq Int /\ replicas \in Seq(Replicas)
    BY ReplicasAssumption DEF ElectInv
  <2>2. replicas \in Seq(Int)
    BY <2>1, SeqMonotonic
  <2>3. IsInjective(replicas) /\ ToSet(replicas) = Replicas /\ leader \in Replicas
    BY DEF ElectInv, ElectTypeOK, Whole
  <2> QED
    BY <2>1, <2>2, <2>3
<1>2. /\ order \in Seq(Int)
      /\ ToSet(order) = ToSet(replicas) \cup {leader}
      /\ \A i, j \in 1..Len(order) : i < j =>
           \/ Rank(order[i], isr, leader) < Rank(order[j], isr, leader)
           \/ /\ Rank(order[i], isr, leader) = Rank(order[j], isr, leader)
              /\ \E k, m \in 1..Len(replicas) :
                   k < m /\ order[i] = replicas[k] /\ order[j] = replicas[m]
  BY <1>1, RelegatedOrder
<1>3. IsInjective(order)
  BY <1>1, RelegatedOnce
<1> HIDE DEF order
<1>4. ToSet(order) = ToSet(replicas)
  BY <1>1, <1>2
<1>5. Len(order) = Len(replicas)
  BY <1>1, <1>2, <1>3, <1>4, SameLength
<1>6. \A b : Place(b) = Rank(b, isr, leader)
  BY DEF Place, Rank
<1>7. \A k \in 1..Len(replicas) : Position(replicas[k]) = k
  BY <1>1 DEF Position, IsInjective
<1>8. ASSUME NEW i \in DOMAIN order, NEW j \in DOMAIN order, i < j
      PROVE  \/ Place(order[i]) < Place(order[j])
             \/ /\ Place(order[i]) = Place(order[j])
                /\ Position(order[i]) < Position(order[j])
  <2>1. i \in 1..Len(order) /\ j \in 1..Len(order)
    BY <1>2
  <2> QED
    BY <1>2, <1>6, <1>7, <1>8, <2>1
<1> QED
  BY <1>4, <1>5, <1>8

-------------------------------------------------------------------------------
(* The three together.                                                     *)

IInv == DenyInv /\ DeleteInv /\ ElectInv

LEMMA Initially ==
  ASSUME Init
  PROVE  IInv
<1>1. DenyInv
  BY DEF Init, DenyInit, DenyInv, DenyTypeOK, NoDenialRemains, DeniedWhileStarted
<1>2. DeleteInv
  BY OffsetsAssumption DEF Init, DeleteInit, DeleteInv, DeleteTypeOK, DeleteShapes,
       Progress, PassedAreDone, OthersUntouched, NewestKept
<1>3. ElectInv
  <2>1. replicas \in Seq(Replicas) /\ IsInjective(replicas) /\ ToSet(replicas) = Replicas
    BY InitialOrder DEF Init, ElectInit
  <2>2. /\ isr \subseteq Replicas /\ leader \in isr \cup {NoLeader}
        /\ election = "new" /\ assignment = <<>> /\ taken = FALSE
    BY DEF Init, ElectInit
  <2>3. ElectTypeOK
    BY <2>1, <2>2 DEF ElectTypeOK, ToSet
  <2> QED
    BY <2>1, <2>2, <2>3 DEF ElectInv, Whole
<1> QED
  BY <1>1, <1>2, <1>3 DEF IInv

LEMMA Inductive ==
  ASSUME IInv, [Next]_vars
  PROVE  IInv'
<1>1. CASE DenyNext /\ UNCHANGED <<deleteVars, electVars>>
  <2>1. DenyInv'
    BY <1>1, DenyStep DEF IInv
  <2>2. DeleteInv'
    BY <1>1 DEF IInv, deleteVars, DeleteInv, DeleteTypeOK, DeleteShapes, Progress,
                PassedAreDone, OthersUntouched, NewestKept
  <2>3. ElectInv'
    BY <1>1 DEF IInv, electVars, partition, ElectInv, ElectTypeOK, Whole, AssignsAll, Several
  <2> QED
    BY <2>1, <2>2, <2>3 DEF IInv
<1>2. CASE DeleteNext /\ UNCHANGED <<denyVars, electVars>>
  <2>1. DenyInv'
    BY <1>2 DEF IInv, denyVars, DenyInv, DenyTypeOK, NoDenialRemains, DeniedWhileStarted
  <2>2. DeleteInv'
    BY <1>2, DeleteStep DEF IInv
  <2>3. ElectInv'
    BY <1>2 DEF IInv, electVars, partition, ElectInv, ElectTypeOK, Whole, AssignsAll, Several
  <2> QED
    BY <2>1, <2>2, <2>3 DEF IInv
<1>3. CASE ElectNext /\ UNCHANGED <<denyVars, deleteVars>>
  <2>1. DenyInv'
    BY <1>3 DEF IInv, denyVars, DenyInv, DenyTypeOK, NoDenialRemains, DeniedWhileStarted
  <2>2. DeleteInv'
    BY <1>3 DEF IInv, deleteVars, DeleteInv, DeleteTypeOK, DeleteShapes, Progress,
                PassedAreDone, OthersUntouched, NewestKept
  <2>3. ElectInv'
    BY <1>3, ElectStep DEF IInv
  <2> QED
    BY <2>1, <2>2, <2>3 DEF IInv
<1>4. CASE UNCHANGED vars
  <2>1. DenyInv'
    BY <1>4 DEF vars, IInv, denyVars, DenyInv, DenyTypeOK, NoDenialRemains, DeniedWhileStarted
  <2>2. DeleteInv'
    BY <1>4 DEF vars, IInv, deleteVars, DeleteInv, DeleteTypeOK, DeleteShapes, Progress,
                PassedAreDone, OthersUntouched, NewestKept
  <2>3. ElectInv'
    BY <1>4 DEF vars, IInv, electVars, partition, ElectInv, ElectTypeOK, Whole, AssignsAll, Several
  <2> QED
    BY <2>1, <2>2, <2>3 DEF IInv
<1> QED
  BY <1>1, <1>2, <1>3, <1>4 DEF Next

LEMMA Invariance == Spec => []IInv
<1>1. Init => IInv
  BY Initially
<1>2. IInv /\ [Next]_vars => IInv'
  BY Inductive
<1> QED
  BY <1>1, <1>2, PTL DEF Spec

(* Every variable of the three attacks has a value the program and the     *)
(* brokers can give it, for any topic, broker ids and parameters.          *)
THEOREM TypeCorrect == Spec => []TypeOK
<1>1. IInv => TypeOK
  BY DEF IInv, TypeOK, DenyInv, DeleteInv, ElectInv
<1> QED
  BY <1>1, Invariance, PTL

(* broker_deny_user.go keeps nothing between its calls and yet deletes all *)
(* it created: once every one of any number of executions is stopped, an   *)
(* entry is left only if a broker has refused, for this entry, to delete   *)
(* it in the last Stop, which the code does not notice (lines 181-189).    *)
(* Neither a failed request nor the error of a filter leaves one.          *)
THEOREM StopRemovesDenials == Spec => []NoDenialRemains
<1>1. IInv => NoDenialRemains
  BY DEF IInv, DenyInv
<1> QED
  BY <1>1, Invariance, PTL

(* A successful Start of a denial denies everything until some execution   *)
(* begins to stop. *)
THEOREM StartDenies == Spec => []DeniedWhileStarted
<1>1. IInv => DeniedWhileStarted
  BY DEF IInv, DenyInv
<1> QED
  BY <1>1, Invariance, PTL

(* delete_last_records.go never deletes one of the newest records it is to *)
(* keep, for any number of partitions and records, any number to keep, and *)
(* producers that append while it works.                                   *)
THEOREM NewestAreKept == Spec => []NewestKept
<1>1. IInv => NewestKept
  BY DEF IInv, DeleteInv
<1> QED
  BY <1>1, Invariance, PTL

(* When the loop over the partitions has ended without an error, the       *)
(* chosen partitions have lost what was too old and no other has lost any, *)
(* for any numbers the user enters: the choice is what int32 leaves of     *)
(* them (lines 133-138), and text that is no number lets the attack fail.  *)
THEOREM DeletesAsAsked == Spec => []DeletedAsAsked
<1>1. ASSUME IInv
      PROVE  DeletedAsAsked
  <2> SUFFICES ASSUME deletion = "deleted"
               PROVE  /\ \A n \in ToSet(chosen) :
                           /\ n # NotANumber /\ Int32(n) \in Topic
                           /\ logs[Int32(n)].start >= ends[Int32(n)] - offset
                      /\ \A p \in Topic :
                           (\A n \in ToSet(chosen) : Int32(n) # p) => logs[p].start = first[p]
    BY DEF DeletedAsAsked
  <2>1. DeleteInv
    BY <1>1 DEF IInv
  <2>2. at - 1 = Len(chosen) /\ chosen \in Seq(Asked \cup {NotANumber})
    BY <2>1 DEF DeleteInv, DeleteTypeOK, DeleteShapes, Progress
  <2>3. ToSet(chosen) = {chosen[i] : i \in 1..at - 1}
    BY <2>2 DEF ToSet
  <2> QED
    BY <2>1, <2>3 DEF DeleteInv, PassedAreDone, OthersUntouched
<1> QED
  BY <1>1, Invariance, PTL

(* relegateLeader puts the replicas in sync first and the leader last and  *)
(* keeps the order otherwise, for every order, set in sync and leader the  *)
(* brokers come to. *)
THEOREM LeaderIsRelegated ==
  ASSUME ~StaleMetadata
  PROVE  Spec => []LeaderRelegated
<1>1. IInv => LeaderRelegated
  BY WholeIsRelegated DEF IInv
<1> QED
  BY <1>1, Invariance, PTL

(* A success of the election means a leader other than the one before and, *)
(* if the brokers have carried out the assignment, other than the one the  *)
(* attack found.  Line 124 drops the answer that says whether they have:   *)
(* of a refused assignment the theorem claims only that the leader moved.  *)
(* A single replica may get back the leadership it has lost in between.    *)
THEOREM SuccessMeansNewLeader ==
  ASSUME ~StaleMetadata, Several
  PROVE  Spec => SuccessMovesLeader
<1>1. ASSUME IInv, [Next]_vars
      PROVE  [election # "elected" /\ election' = "elected"
                => leader' # leader /\ (taken => leader' # seenLeader)]_vars
  <2> SUFFICES ASSUME election # "elected", election' = "elected", Next
               PROVE  leader' # leader /\ (taken => leader' # seenLeader)
    BY <1>1 DEF vars, electVars
  <2>1. ElectPreferred
    BY DEF Next, electVars, ElectNext, ElectLook, ElectAssign, PartitionChanges, ElectEnded
  <2>2. Head(replicas) \in isr \ {leader} /\ leader' = Head(replicas)
    BY <2>1 DEF ElectPreferred
  <2>3. taken => Head(replicas) # seenLeader
    BY <1>1 DEF IInv, ElectInv, Whole
  <2> QED
    BY <2>2, <2>3
<1> QED
  BY <1>1, Invariance, PTL DEF Spec, SuccessMovesLeader

================================================================================
