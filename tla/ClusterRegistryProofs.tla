------------------------- MODULE ClusterRegistryProofs -------------------------
(***************************************************************************)
(* Proofs about ClusterRegistry, for every list of configured names (with  *)
(* or without names that occur twice), every legacy configuration and      *)
(* every number of concurrent discoveries.                                 *)
(***************************************************************************)
EXTENDS ClusterRegistry, SequenceTheorems, TLAPS

-------------------------------------------------------------------------------
(* The lists of clusters.                                                  *)

(* A list with one more entry at its end. *)
LEMMA AppendedList ==
  ASSUME NEW S, NEW s \in Seq(S), NEW e \in S
  PROVE  /\ Append(s, e) \in Seq(S)
         /\ ToSet(Append(s, e)) = ToSet(s) \cup {e}
         /\ IsInjective(s) /\ e \notin ToSet(s) => IsInjective(Append(s, e))
<1>1. /\ Len(s) \in Nat
      /\ DOMAIN s = 1..Len(s)
      /\ DOMAIN Append(s, e) = 1..Len(s) + 1
      /\ Append(s, e) \in Seq(S)
      /\ \A i \in 1..Len(s) : Append(s, e)[i] = s[i]
      /\ Append(s, e)[Len(s) + 1] = e
  BY AppendProperties, LenProperties
<1>2. ToSet(Append(s, e)) = ToSet(s) \cup {e}
  BY <1>1 DEF ToSet
<1>3. ASSUME IsInjective(s), e \notin ToSet(s) PROVE IsInjective(Append(s, e))
  BY <1>1, <1>3 DEF ToSet, IsInjective
<1> QED
  BY <1>1, <1>2, <1>3

(* The first entry of a list and the rest. *)
LEMMA HeadAndTail ==
  ASSUME NEW S, NEW s \in Seq(S), s # << >>
  PROVE  /\ Head(s) \in S
         /\ Head(s) \in ToSet(s)
         /\ Tail(s) \in Seq(S)
         /\ ToSet(Tail(s)) \subseteq ToSet(s)
<1>1. /\ Head(s) \in S /\ Tail(s) \in Seq(S)
      /\ Len(Tail(s)) = Len(s) - 1
      /\ \A i \in 1..Len(Tail(s)) : Tail(s)[i] = s[i + 1]
  BY HeadTailProperties
<1>2. /\ Len(s) \in Nat \ {0}
      /\ DOMAIN s = 1..Len(s)
      /\ DOMAIN Tail(s) = 1..Len(s) - 1
  BY <1>1, LenProperties, EmptySeq
<1>3. Head(s) = s[1]
  OBVIOUS
<1>4. \A i \in 1..Len(s) - 1 : i + 1 \in 1..Len(s)
  BY <1>2
<1>5. ToSet(Tail(s)) \subseteq ToSet(s)
  BY <1>1, <1>2, <1>4 DEF ToSet
<1>6. 1 \in DOMAIN s
  BY <1>2
<1> QED
  BY <1>1, <1>3, <1>5, <1>6 DEF ToSet

(* A list without one of its entries, when no entry occurs twice: what     *)
(* append(pending[:i], pending[i+1:]...) leaves.                           *)
LEMMA RemovedFromList ==
  ASSUME NEW S, NEW s \in Seq(S), IsInjective(s), NEW e \in ToSet(s)
  PROVE  /\ RemoveFirst(s, e) \in Seq(S)
         /\ ToSet(RemoveFirst(s, e)) = ToSet(s) \ {e}
         /\ IsInjective(RemoveFirst(s, e))
<1>1. /\ Len(s) \in Nat /\ DOMAIN s = 1..Len(s)
      /\ \A i \in 1..Len(s) : s[i] \in S
  BY LenProperties, ElementOfSeq
<1>2. PICK k \in 1..Len(s) : s[k] = e
  BY <1>1 DEF ToSet
<1>3. {i \in 1..Len(s) : s[i] = e} = {k}
  BY <1>1, <1>2 DEF IsInjective
<1>4. Min({k}) = k
  BY <1>2 DEF Min
<1>5. RemoveFirst(s, e) = RemoveAt(s, k)
  BY <1>2, <1>3, <1>4, Zenon DEF RemoveFirst, SelectInSeq
<1>n. PICK n \in Nat : n = Len(s)
  BY <1>1
<1>k. /\ k \in Int /\ 1 <= k /\ k <= n
      /\ \A i \in 1..n : s[i] \in S
  BY <1>1, <1>2, <1>n
<1> DEFINE a == SubSeq(s, 1, k - 1)
           b == SubSeq(s, k + 1, n)
           r == a \o b
<1>6. /\ a \in Seq(S) /\ Len(a) = k - 1
      /\ \A i \in 1..k - 1 : a[i] = s[i]
  <2>1. /\ 1 \in Int /\ k - 1 \in Int
        /\ \A i \in 1..k - 1 : s[i] \in S
    BY <1>k
  <2>2. /\ a \in Seq(S)
        /\ Len(a) = IF 1 <= k - 1 THEN (k - 1) - 1 + 1 ELSE 0
        /\ \A i \in 1..(k - 1) - 1 + 1 : a[i] = s[1 + i - 1]
    BY <2>1, SubSeqProperties
  <2> HIDE DEF a
  <2> QED
    BY <1>k, <2>2
<1>7. /\ b \in Seq(S) /\ Len(b) = n - k
      /\ \A i \in 1..n - k : b[i] = s[i + k]
  <2>1. /\ k + 1 \in Int /\ n \in Int
        /\ \A i \in k + 1..n : s[i] \in S
    BY <1>k
  <2>2. /\ b \in Seq(S)
        /\ Len(b) = IF k + 1 <= n THEN n - (k + 1) + 1 ELSE 0
        /\ \A i \in 1..n - (k + 1) + 1 : b[i] = s[k + 1 + i - 1]
    BY <2>1, SubSeqProperties
  <2> HIDE DEF b
  <2> QED
    BY <1>k, <2>2
<1>8. /\ r \in Seq(S) /\ Len(r) = n - 1
      /\ \A i \in 1..n - 1 : r[i] = IF i < k THEN s[i] ELSE s[i + 1]
  <2> HIDE DEF a, b
  <2>1. /\ r \in Seq(S)
        /\ Len(r) = Len(a) + Len(b)
        /\ \A i \in 1..Len(a) + Len(b) : r[i] = IF i <= Len(a) THEN a[i] ELSE b[i - Len(a)]
    BY <1>6, <1>7, ConcatProperties, Zenon
  <2> HIDE DEF r
  <2>2. Len(r) = n - 1
    BY <1>k, <1>6, <1>7, <2>1
  <2>3. ASSUME NEW i \in 1..n - 1
        PROVE  r[i] = IF i < k THEN s[i] ELSE s[i + 1]
    <3>1. CASE i < k
      BY <1>k, <1>6, <1>7, <2>1, <3>1
    <3>2. CASE i >= k
      <4>1. r[i] = b[i - (k - 1)] /\ i - (k - 1) \in 1..n - k
        BY <1>k, <1>6, <1>7, <2>1, <3>2
      <4> QED
        BY <1>k, <1>7, <3>2, <4>1
    <3> QED
      BY <1>k, <3>1, <3>2
  <2> QED
    BY <2>1, <2>2, <2>3
<1>9. DOMAIN r = 1..n - 1
  BY <1>8, LenProperties
<1> HIDE DEF r
<1>10. IsInjective(r)
  <2>1. \A x, y \in 1..n : s[x] = s[y] => x = y
    BY <1>1, <1>n DEF IsInjective
  <2>2. ASSUME NEW x \in 1..n - 1, NEW y \in 1..n - 1, r[x] = r[y]
        PROVE  x = y
    <3>1. PICK u \in 1..n : u = (IF x < k THEN x ELSE x + 1) /\ r[x] = s[u]
      BY <1>k, <1>8
    <3>2. PICK v \in 1..n : v = (IF y < k THEN y ELSE y + 1) /\ r[y] = s[v]
      BY <1>k, <1>8
    <3>3. u = v
      BY <2>1, <2>2, <3>1, <3>2
    <3> QED
      BY <1>k, <3>1, <3>2, <3>3
  <2> QED
    BY <1>9, <2>2 DEF IsInjective
<1>11. ToSet(r) \subseteq ToSet(s) \ {e}
  BY <1>1, <1>2, <1>n, <1>k, <1>8, <1>9 DEF ToSet, IsInjective
<1>12. ASSUME NEW x \in ToSet(s), x # e PROVE x \in ToSet(r)
  <2>1. PICK i \in 1..n : s[i] = x /\ i # k
    BY <1>1, <1>2, <1>n, <1>12 DEF ToSet
  <2>2. CASE i < k
    BY <1>1, <1>2, <1>n, <1>k, <1>8, <1>9, <2>1, <2>2 DEF ToSet
  <2>3. CASE i > k
    <3>1. i - 1 \in DOMAIN r /\ r[i - 1] = s[i]
      BY <1>1, <1>2, <1>n, <1>k, <1>8, <1>9, <2>1, <2>3
    <3> QED
      BY <2>1, <3>1 DEF ToSet
  <2> QED
    BY <1>k, <2>1, <2>2, <2>3
<1>13. RemoveFirst(s, e) = r
  BY <1>5, <1>n DEF RemoveAt, r, a, b
<1> QED
  BY <1>8, <1>10, <1>11, <1>12, <1>13

-------------------------------------------------------------------------------
(* The inductive invariant.                                                *)

(* The types of what TypeOK describes by its elements only. *)
Shapes ==
  /\ clusters \in [DOMAIN clusters -> Sources]
  /\ pending \in Seq(Indices)
  /\ todo \in [Discoveries -> Seq(Indices)]
  /\ waiting \in [Discoveries -> SUBSET Sources]
  /\ snapshot \in [Discoveries -> SUBSET Sources]
  /\ answered \in [Discoveries -> SUBSET Sources]

(* Only parsed clusters are pending or in a copy of the pending list. *)
OnlyParsed ==
  /\ ToSet(pending) \subseteq 1..next - 1
  /\ \A d \in Discoveries : ToSet(todo[d]) \subseteq 1..next - 1

(* Every cluster is registered under the name it is configured with. *)
OwnName ==
  \A n \in DOMAIN clusters :
    /\ clusters[n] = Legacy => n = LegacyName
    /\ clusters[n] # Legacy => clusters[n] \in 1..next - 1 /\ Names[clusters[n]] = n

(* Names are refused while parsing exactly if they are taken; discoveries  *)
(* run only after startup, and register what they have taken from a copy.  *)
Staged ==
  /\ stage = "parsing" => indexed = DOMAIN clusters
  /\ stage # "running" => \A d \in Discoveries : pc[d] = "idle"
  /\ \A d \in Discoveries : pc[d] = "registering" => todo[d] # << >>

IInv == TypeOK /\ Shapes /\ OnlyParsed /\ OwnName /\ Staged /\ NothingLost

LEMMA NumberOfNames == Len(Names) \in Nat /\ Legacy \notin Indices /\ Indices \subseteq Sources
<1>1. Len(Names) \in Nat
  BY RegistryAssumption, LenProperties
<1>2. Legacy \notin Indices
  BY <1>1 DEF Indices, Legacy
<1>3. Indices \subseteq Sources
  BY DEF Sources
<1> QED
  BY <1>1, <1>2, <1>3

(* What an entry under a free name changes in the map. *)
LEMMA Entry ==
  ASSUME NEW name, NEW i, name \notin DOMAIN clusters, clusters' = With(name, i)
  PROVE  /\ DOMAIN clusters' = DOMAIN clusters \cup {name}
         /\ clusters'[name] = i
         /\ \A n \in DOMAIN clusters : clusters'[n] = clusters[n]
         /\ clusters' \in [DOMAIN clusters \cup {name} -> Registered \cup {i}]
         /\ Registered' = Registered \cup {i}
<1>1. /\ DOMAIN clusters' = DOMAIN clusters \cup {name}
      /\ clusters'[name] = i
      /\ \A n \in DOMAIN clusters : clusters'[n] = clusters[n]
  BY DEF With
<1>2. Registered' = Registered \cup {i}
  BY <1>1 DEF Registered
<1>3. clusters' \in [DOMAIN clusters \cup {name} -> Registered \cup {i}]
  BY DEF With, Registered
<1> QED
  BY <1>1, <1>2, <1>3

LEMMA InitIInv == Init => IInv
<1> SUFFICES ASSUME Init PROVE IInv
  OBVIOUS
<1>1. Len(Names) \in Nat
  BY NumberOfNames
<1>2. DOMAIN clusters = {} /\ clusters = << >> /\ ToSet(pending) = {} /\ Registered = {}
  BY DEF Init, ToSet, Registered
<1>3. \A d \in Discoveries : todo[d] = << >> /\ ToSet(todo[d]) = {}
  BY DEF Init, ToSet
<1>4. Shapes
  BY <1>2, EmptySeq DEF Init, Shapes
<1>5. IsInjective(pending)
  BY DEF Init, IsInjective
<1>6. TypeOK
  BY <1>1, <1>2, <1>3, <1>5 DEF Init, TypeOK
<1>7. OnlyParsed /\ OwnName /\ NothingLost
  BY <1>2, <1>3 DEF Init, OnlyParsed, OwnName, NothingLost
<1>8. Staged
  BY <1>2 DEF Init, Staged
<1> QED
  BY <1>4, <1>6, <1>7, <1>8 DEF IInv

(* What the steps do to the registry: nothing, or one of the four things   *)
(* that RegistryPromise allows.  A discovery that registers a cluster from *)
(* its copy finds it still pending: had another one registered it in the   *)
(* meantime, its name would be taken.                                      *)
Found ==
  /\ next \in Indices
  /\ Names[next] \notin DOMAIN clusters
  /\ clusters' = With(Names[next], next)
  /\ next' = next + 1
  /\ pending' = pending

Missed ==
  /\ next \in Indices
  /\ pending' = Append(pending, next)
  /\ next' = next + 1
  /\ clusters' = clusters

FoundLate(i) ==
  /\ Names[i] \notin DOMAIN clusters
  /\ clusters' = With(Names[i], i)
  /\ pending' = Without(i)
  /\ next' = next

FellBack ==
  /\ next = Len(Names) + 1
  /\ DOMAIN clusters = {}
  /\ LegacyName # ""
  /\ clusters' = With(LegacyName, Legacy)
  /\ UNCHANGED <<next, pending>>

LEMMA RegistryStep ==
  ASSUME IInv, [Next]_vars
  PROVE  \/ UNCHANGED <<next, clusters, pending>>
         \/ Found
         \/ Missed
         \/ \E i \in ToSet(pending) : FoundLate(i)
         \/ FellBack
<1> USE DEF startup, registry, discovery
<1>1. CASE ParseResolved
  BY <1>1 DEF ParseResolved, IInv, Staged, Found
<1>2. CASE ParseUnresolved
  BY <1>2 DEF ParseUnresolved, Missed
<1>3. CASE ParseEnds
  <2>1. next = Len(Names) + 1
    <3>1. next \in 1..Len(Names) + 1 /\ next \notin 1..Len(Names)
      BY <1>3 DEF ParseEnds, IInv, TypeOK, Indices
    <3> QED
      BY <3>1, NumberOfNames
  <2> QED
    BY <1>3, <2>1 DEF ParseEnds, FellBack
<1>4. ASSUME NEW d \in Discoveries, Register(d)
      PROVE  \/ UNCHANGED <<next, clusters, pending>>
             \/ \E i \in ToSet(pending) : FoundLate(i)
  <2> DEFINE i == Head(todo[d])
  <2>1. todo[d] \in Seq(Indices) /\ todo[d] # << >>
    BY <1>4 DEF Register, IInv, Shapes, Staged
  <2>2. i \in Indices /\ i \in ToSet(todo[d])
    BY <2>1, HeadAndTail
  <2>3. i \in 1..next - 1
    BY <2>2 DEF IInv, OnlyParsed
  <2>4. ASSUME Names[i] \notin DOMAIN clusters PROVE i \notin Registered
    BY <2>2, <2>4, NumberOfNames DEF Registered, IInv, OwnName
  <2>5. i \in Registered \/ i \in ToSet(pending)
    BY <2>3 DEF IInv, NothingLost
  <2>6. CASE Names[i] \in DOMAIN clusters
    BY <1>4, <2>6 DEF Register
  <2>7. CASE Names[i] \notin DOMAIN clusters
    BY <1>4, <2>4, <2>5, <2>7 DEF Register, FoundLate
  <2> QED
    BY <2>6, <2>7
<1>5. CASE ParseDuplicate \/ TestEnds \/ ClusterChanges \/ UNCHANGED vars
  BY <1>5 DEF ParseDuplicate, TestEnds, ClusterChanges, vars
<1>6. ASSUME NEW i \in Sources, TestCluster(i) PROVE UNCHANGED <<next, clusters, pending>>
  BY <1>6 DEF TestCluster
<1>7. ASSUME NEW d \in Discoveries, DiscoveryBegins(d) \/ Resolve(d) \/ Discover(d)
      PROVE  UNCHANGED <<next, clusters, pending>>
  BY <1>7 DEF DiscoveryBegins, Resolve, Discover, FanOut, Collect, Report
<1> QED
  BY <1>1, <1>2, <1>3, <1>4, <1>5, <1>6, <1>7 DEF Next, Startup, Retry, Ended

-------------------------------------------------------------------------------
(* Each part of the invariant is kept.  The parts about the registry follow*)
(* from RegistryStep.                                                      *)

(* What RegistryStep means for the sets: which clusters are registered and *)
(* which are pending after the step.                                       *)
LEMMA SetsStep ==
  ASSUME IInv
  PROVE  /\ Found => /\ Registered' = Registered \cup {next}
                     /\ DOMAIN clusters' = DOMAIN clusters \cup {Names[next]}
                     /\ ToSet(pending') = ToSet(pending)
         /\ Missed => /\ Registered' = Registered
                      /\ ToSet(pending') = ToSet(pending) \cup {next}
                      /\ pending' \in Seq(Indices) /\ IsInjective(pending')
         /\ \A i \in ToSet(pending) :
              FoundLate(i) => /\ Registered' = Registered \cup {i}
                              /\ DOMAIN clusters' = DOMAIN clusters \cup {Names[i]}
                              /\ ToSet(pending') = ToSet(pending) \ {i}
                              /\ pending' \in Seq(Indices) /\ IsInjective(pending')
         /\ FellBack => /\ Registered' = {Legacy}
                        /\ DOMAIN clusters' = {LegacyName}
                        /\ ToSet(pending') = ToSet(pending)
<1>1. ASSUME Found
      PROVE  /\ Registered' = Registered \cup {next}
             /\ DOMAIN clusters' = DOMAIN clusters \cup {Names[next]}
             /\ ToSet(pending') = ToSet(pending)
  BY <1>1, Entry DEF Found
<1>2. ASSUME Missed
      PROVE  /\ Registered' = Registered
             /\ ToSet(pending') = ToSet(pending) \cup {next}
             /\ pending' \in Seq(Indices) /\ IsInjective(pending')
  <2>1. pending \in Seq(Indices) /\ IsInjective(pending) /\ next \in Indices
    BY <1>2 DEF IInv, Shapes, TypeOK, Missed
  <2>2. next \notin ToSet(pending)
    BY <2>1, NumberOfNames DEF IInv, OnlyParsed, Indices
  <2>3. pending' = Append(pending, next) /\ clusters' = clusters
    BY <1>2 DEF Missed
  <2> QED
    BY <2>1, <2>2, <2>3, AppendedList DEF Registered
<1>3. ASSUME NEW i \in ToSet(pending), FoundLate(i)
      PROVE  /\ Registered' = Registered \cup {i}
             /\ DOMAIN clusters' = DOMAIN clusters \cup {Names[i]}
             /\ ToSet(pending') = ToSet(pending) \ {i}
             /\ pending' \in Seq(Indices) /\ IsInjective(pending')
  <2>1. pending \in Seq(Indices) /\ IsInjective(pending)
    BY DEF IInv, Shapes, TypeOK
  <2>2. pending' = RemoveFirst(pending, i)
    BY <1>3 DEF FoundLate, Without
  <2>3. /\ Registered' = Registered \cup {i}
        /\ DOMAIN clusters' = DOMAIN clusters \cup {Names[i]}
    BY <1>3, Entry DEF FoundLate
  <2> QED
    BY <2>1, <2>2, <2>3, RemovedFromList
<1>4. ASSUME FellBack
      PROVE  /\ Registered' = {Legacy}
             /\ DOMAIN clusters' = {LegacyName}
             /\ ToSet(pending') = ToSet(pending)
  <2>1. Registered = {} /\ DOMAIN clusters = {}
    BY <1>4 DEF FellBack, Registered
  <2>2. Registered' = Registered \cup {Legacy} /\ DOMAIN clusters' = DOMAIN clusters \cup {LegacyName}
    BY <1>4, Entry DEF FellBack
  <2> QED
    BY <1>4, <2>1, <2>2 DEF FellBack
<1> QED
  BY <1>1, <1>2, <1>3, <1>4

LEMMA NothingLostStep == IInv /\ [Next]_vars => NothingLost'
<1> SUFFICES ASSUME IInv, [Next]_vars PROVE NothingLost'
  OBVIOUS
<1>1. /\ next \in Int
      /\ NothingLost
      /\ ToSet(pending) \subseteq 1..next - 1
      /\ Registered \subseteq {Legacy} \cup 1..next - 1
  BY NumberOfNames DEF IInv, TypeOK, OnlyParsed, OwnName, Registered
<1>2. CASE UNCHANGED <<next, clusters, pending>>
  BY <1>1, <1>2 DEF NothingLost, Registered
<1>3. CASE Found
  <2>1. /\ Registered' = Registered \cup {next}
        /\ ToSet(pending') = ToSet(pending)
        /\ next' = next + 1 /\ next # Legacy
    BY <1>3, SetsStep, NumberOfNames DEF Found
  <2> QED
    BY <1>1, <2>1 DEF NothingLost
<1>4. CASE Missed
  <2>1. /\ Registered' = Registered
        /\ ToSet(pending') = ToSet(pending) \cup {next}
        /\ next' = next + 1 /\ next # Legacy
    BY <1>4, SetsStep, NumberOfNames DEF Missed
  <2> QED
    BY <1>1, <2>1 DEF NothingLost
<1>5. ASSUME NEW i \in ToSet(pending), FoundLate(i) PROVE NothingLost'
  <2>1. /\ Registered' = Registered \cup {i}
        /\ ToSet(pending') = ToSet(pending) \ {i}
        /\ next' = next
    BY <1>5, SetsStep DEF FoundLate
  <2> QED
    BY <1>1, <2>1 DEF NothingLost
<1>6. CASE FellBack
  <2>1. Registered = {}
    BY <1>6 DEF FellBack, Registered
  <2>2. /\ Registered' = {Legacy}
        /\ ToSet(pending') = ToSet(pending)
        /\ next' = next
    BY <1>6, SetsStep DEF FellBack
  <2> QED
    BY <1>1, <2>1, <2>2 DEF NothingLost, Legacy
<1> QED
  BY <1>2, <1>3, <1>4, <1>5, <1>6, RegistryStep

(* The copies of the discoveries: a step takes one from the pending list,  *)
(* shortens one, or leaves them alone.                                     *)
Copies(e)    == todo' = [todo EXCEPT ![e] = pending]
DropsOne(e)  == todo[e] # << >> /\ todo' = [todo EXCEPT ![e] = Tail(@)]

LEMMA CopiesStep ==
  ASSUME IInv, [Next]_vars
  PROVE  /\ todo' \in [Discoveries -> Seq(Indices)]
         /\ \A d \in Discoveries : ToSet(todo'[d]) \subseteq ToSet(todo[d]) \cup ToSet(pending)
<1> USE DEF startup, registry, discovery
<1> DEFINE Kept == /\ todo' \in [Discoveries -> Seq(Indices)]
                   /\ \A d \in Discoveries :
                        ToSet(todo'[d]) \subseteq ToSet(todo[d]) \cup ToSet(pending)
<1>1. todo \in [Discoveries -> Seq(Indices)] /\ pending \in Seq(Indices)
  BY DEF IInv, Shapes
<1>2. CASE UNCHANGED todo
  BY <1>1, <1>2
<1>3. ASSUME NEW e \in Discoveries, Copies(e) PROVE Kept
  <2>1. \A d \in Discoveries : todo'[d] = pending \/ todo'[d] = todo[d]
    BY <1>1, <1>3 DEF Copies
  <2>2. todo' \in [Discoveries -> Seq(Indices)]
    BY <1>1, <1>3 DEF Copies
  <2> QED
    BY <2>1, <2>2
<1>4. ASSUME NEW e \in Discoveries, DropsOne(e) PROVE Kept
  <2>1. todo[e] \in Seq(Indices)
    BY <1>1
  <2>2. Tail(todo[e]) \in Seq(Indices) /\ ToSet(Tail(todo[e])) \subseteq ToSet(todo[e])
    BY <1>4, <2>1, HeadAndTail DEF DropsOne
  <2>3. \A d \in Discoveries : (d = e /\ todo'[d] = Tail(todo[e])) \/ todo'[d] = todo[d]
    BY <1>1, <1>4 DEF DropsOne
  <2>4. todo' \in [Discoveries -> Seq(Indices)]
    BY <1>1, <1>4, <2>2 DEF DropsOne
  <2> QED
    BY <2>2, <2>3, <2>4
<1>5. ASSUME NEW e \in Discoveries, DiscoveryBegins(e)
      PROVE  Copies(e)
  BY <1>5 DEF Copies, DiscoveryBegins
<1>6. ASSUME NEW e \in Discoveries, Resolve(e)
      PROVE  UNCHANGED todo \/ DropsOne(e)
  BY <1>6 DEF DropsOne, Resolve
<1>7. ASSUME NEW e \in Discoveries, Register(e)
      PROVE  DropsOne(e)
  BY <1>7 DEF DropsOne, Register, IInv, Staged
<1>8. ASSUME NEW e \in Discoveries, Discover(e) PROVE UNCHANGED todo
  BY <1>8 DEF Discover, FanOut, Collect, Report
<1>9. ASSUME Startup \/ ClusterChanges \/ UNCHANGED vars PROVE UNCHANGED todo
  BY <1>9 DEF Startup, ParseDuplicate, ParseResolved, ParseUnresolved, ParseEnds,
              TestCluster, TestEnds, ClusterChanges, vars
<1>10. UNCHANGED todo \/ \E e \in Discoveries : Copies(e) \/ DropsOne(e)
  BY <1>5, <1>6, <1>7, <1>8, <1>9 DEF Next, Retry, Ended
<1> HIDE DEF startup, registry, discovery
<1> QED
  BY <1>2, <1>3, <1>4, <1>10

LEMMA OnlyParsedStep == IInv /\ [Next]_vars => OnlyParsed'
<1> SUFFICES ASSUME IInv, [Next]_vars PROVE OnlyParsed'
  OBVIOUS
<1>1. /\ next \in Nat /\ 1 <= next
      /\ ToSet(pending) \subseteq 1..next - 1
      /\ \A d \in Discoveries : ToSet(todo[d]) \subseteq 1..next - 1
  BY NumberOfNames DEF IInv, TypeOK, OnlyParsed
<1>2. /\ next' = next \/ next' = next + 1
      /\ ToSet(pending') \subseteq ToSet(pending) \cup (1..next' - 1)
  <2>1. CASE UNCHANGED <<next, clusters, pending>>
    BY <2>1
  <2>2. CASE Found
    BY <2>2, SetsStep DEF Found
  <2>3. CASE Missed
    <3>1. next' = next + 1 /\ ToSet(pending') = ToSet(pending) \cup {next}
      BY <2>3, SetsStep DEF Missed
    <3> QED
      BY <1>1, <3>1
  <2>4. ASSUME NEW i \in ToSet(pending), FoundLate(i)
        PROVE  next' = next /\ ToSet(pending') \subseteq ToSet(pending)
    BY <2>4, SetsStep DEF FoundLate
  <2>5. CASE FellBack
    BY <2>5, SetsStep DEF FellBack
  <2> QED
    BY <2>1, <2>2, <2>3, <2>4, <2>5, RegistryStep
<1>3. 1..next - 1 \subseteq 1..next' - 1
  BY <1>1, <1>2
<1>4. \A d \in Discoveries : ToSet(todo'[d]) \subseteq ToSet(todo[d]) \cup ToSet(pending)
  BY CopiesStep
<1> QED
  BY <1>1, <1>2, <1>3, <1>4, Zenon DEF OnlyParsed

LEMMA OwnNameStep == IInv /\ [Next]_vars => OwnName'
<1> SUFFICES ASSUME IInv, [Next]_vars PROVE OwnName'
  OBVIOUS
<1>1. /\ next \in Nat /\ 1 <= next
      /\ \A n \in DOMAIN clusters :
           /\ clusters[n] = Legacy => n = LegacyName
           /\ clusters[n] # Legacy => clusters[n] \in 1..next - 1 /\ Names[clusters[n]] = n
      /\ \A i \in 1..next - 1 : i # Legacy
      /\ next # Legacy
      /\ ToSet(pending) \subseteq 1..next - 1
  BY NumberOfNames DEF IInv, TypeOK, OwnName, OnlyParsed, Legacy
<1>2. CASE UNCHANGED <<next, clusters, pending>>
  BY <1>1, <1>2 DEF OwnName
<1>3. CASE Found
  <2>1. /\ DOMAIN clusters' = DOMAIN clusters \cup {Names[next]}
        /\ clusters'[Names[next]] = next
        /\ \A n \in DOMAIN clusters : clusters'[n] = clusters[n]
        /\ next' = next + 1
    BY <1>3, Entry DEF Found
  <2> QED
    BY <1>1, <2>1 DEF OwnName
<1>4. CASE Missed
  BY <1>1, <1>4 DEF OwnName, Missed
<1>5. ASSUME NEW i \in ToSet(pending), FoundLate(i) PROVE OwnName'
  <2>1. /\ DOMAIN clusters' = DOMAIN clusters \cup {Names[i]}
        /\ clusters'[Names[i]] = i
        /\ \A n \in DOMAIN clusters : clusters'[n] = clusters[n]
        /\ next' = next
    BY <1>5, Entry DEF FoundLate
  <2> QED
    BY <1>1, <2>1 DEF OwnName
<1>6. CASE FellBack
  <2>1. DOMAIN clusters' = {LegacyName} /\ clusters'[LegacyName] = Legacy
    BY <1>6, Entry DEF FellBack
  <2> QED
    BY <2>1 DEF OwnName
<1> QED
  BY <1>2, <1>3, <1>4, <1>5, <1>6, RegistryStep

LEMMA StagedStep == IInv /\ [Next]_vars => Staged'
<1> SUFFICES ASSUME IInv, [Next]_vars PROVE Staged'
  OBVIOUS
<1> USE DEF startup, registry, discovery, Staged
<1>1. /\ stage \in {"parsing", "testing", "running", "fatal"}
      /\ pc \in [Discoveries -> {"idle", "retrying", "registering", "collecting"}]
      /\ todo \in [Discoveries -> Seq(Indices)]
      /\ Staged
  BY DEF IInv, TypeOK, Shapes
<1>2. CASE ParseDuplicate
  BY <1>1, <1>2 DEF ParseDuplicate
<1>3. CASE ParseResolved
  <2>1. DOMAIN clusters' = DOMAIN clusters \cup {Names[next]}
    BY <1>3 DEF ParseResolved, With
  <2> QED
    BY <1>1, <1>3, <2>1 DEF ParseResolved
<1>4. CASE ParseUnresolved
  BY <1>1, <1>4 DEF ParseUnresolved
<1>5. CASE ParseEnds
  BY <1>1, <1>5 DEF ParseEnds
<1>6. ASSUME NEW i \in Sources, TestCluster(i) PROVE Staged'
  BY <1>1, <1>6 DEF TestCluster
<1>7. CASE TestEnds
  BY <1>1, <1>7 DEF TestEnds
<1>8. ASSUME NEW d \in Discoveries, Retry(d) \/ Discover(d) PROVE Staged'
  <2>1. stage = "running" /\ UNCHANGED <<stage, indexed>>
    BY <1>1, <1>8 DEF Retry, Discover, DiscoveryBegins, Resolve, Register, FanOut, Collect, Report
  <2>2. ASSUME NEW e \in Discoveries, pc'[e] = "registering" PROVE todo'[e] # << >>
    <3>1. CASE DiscoveryBegins(d)
      BY <1>1, <2>2, <3>1 DEF DiscoveryBegins
    <3>2. CASE Resolve(d)
      BY <1>1, <2>2, <3>2 DEF Resolve
    <3>3. CASE Register(d)
      BY <1>1, <2>2, <3>3 DEF Register
    <3>4. CASE Discover(d)
      BY <1>1, <2>2, <3>4 DEF Discover, FanOut, Collect, Report
    <3> QED
      BY <1>8, <3>1, <3>2, <3>3, <3>4 DEF Retry
  <2> QED
    BY <2>1, <2>2
<1>9. CASE ClusterChanges \/ UNCHANGED vars
  BY <1>1, <1>9 DEF ClusterChanges, vars
<1> HIDE DEF startup, registry, discovery, Staged
<1> QED
  BY <1>2, <1>3, <1>4, <1>5, <1>6, <1>7, <1>8, <1>9 DEF Next, Startup, Ended

(* The map has only configured clusters under configured names. *)
LEMMA RegisteredStep ==
  ASSUME IInv, [Next]_vars
  PROVE  /\ clusters' \in [DOMAIN clusters' -> Sources]
         /\ DOMAIN clusters' \subseteq {Names[i] : i \in Indices} \cup {LegacyName}
         /\ Registered' \subseteq Sources
<1>1. /\ clusters \in [DOMAIN clusters -> Sources]
      /\ DOMAIN clusters \subseteq {Names[i] : i \in Indices} \cup {LegacyName}
      /\ Registered \subseteq Sources
  BY DEF IInv, Shapes, TypeOK
<1>2. CASE UNCHANGED <<next, clusters, pending>> \/ Missed
  BY <1>1, <1>2 DEF Missed, Registered
<1>3. ASSUME NEW name \in {Names[i] : i \in Indices} \cup {LegacyName}, NEW i \in Sources,
             name \notin DOMAIN clusters, clusters' = With(name, i)
      PROVE  /\ clusters' \in [DOMAIN clusters' -> Sources]
             /\ DOMAIN clusters' \subseteq {Names[j] : j \in Indices} \cup {LegacyName}
             /\ Registered' \subseteq Sources
  <2>1. /\ DOMAIN clusters' = DOMAIN clusters \cup {name}
        /\ clusters' \in [DOMAIN clusters \cup {name} -> Registered \cup {i}]
        /\ Registered' = Registered \cup {i}
    BY <1>3, Entry
  <2> QED
    BY <1>1, <2>1
<1>4. CASE Found
  BY <1>3, <1>4, NumberOfNames DEF Found
<1>5. ASSUME NEW i \in ToSet(pending), FoundLate(i)
      PROVE  i \in Indices /\ Names[i] \notin DOMAIN clusters /\ clusters' = With(Names[i], i)
  BY <1>5 DEF IInv, TypeOK, FoundLate
<1>6. CASE FellBack
  <2>1. Legacy \in Sources /\ LegacyName \notin DOMAIN clusters /\ clusters' = With(LegacyName, Legacy)
    BY <1>6 DEF FellBack, Sources
  <2> QED
    BY <1>3, <2>1
<1> QED
  BY <1>2, <1>3, <1>4, <1>5, <1>6, NumberOfNames, RegistryStep

(* The results of a discovery change when it starts to collect them and    *)
(* with each of them.                                                      *)
LEMMA CollectingStep ==
  ASSUME [Next]_vars
  PROVE  \/ UNCHANGED <<waiting, snapshot, answered>>
         \/ \E d \in Discoveries : FanOut(d) \/ \E i \in Sources : Collect(d, i)
<1> USE DEF startup, registry, discovery
<1>1. ASSUME Startup \/ ClusterChanges \/ UNCHANGED vars
      PROVE  UNCHANGED <<waiting, snapshot, answered>>
  BY <1>1 DEF Startup, ParseDuplicate, ParseResolved, ParseUnresolved, ParseEnds, TestCluster,
              TestEnds, ClusterChanges, vars
<1>2. ASSUME NEW d \in Discoveries, Retry(d) \/ Report(d)
      PROVE  UNCHANGED <<waiting, snapshot, answered>>
  BY <1>2 DEF Retry, DiscoveryBegins, Resolve, Register, Report
<1> HIDE DEF startup, registry, discovery
<1> QED
  BY <1>1, <1>2 DEF Next, Discover, Ended

LEMMA ShapesStep == IInv /\ [Next]_vars => Shapes'
<1> SUFFICES ASSUME IInv, [Next]_vars PROVE Shapes'
  OBVIOUS
<1> USE DEF startup, registry, discovery
<1>1. Shapes /\ TypeOK
  BY DEF IInv
<1>2. pending' \in Seq(Indices)
  <2>1. CASE UNCHANGED <<next, clusters, pending>> \/ Found \/ FellBack
    BY <1>1, <2>1 DEF Shapes, Found, FellBack
  <2>2. CASE Missed \/ \E i \in ToSet(pending) : FoundLate(i)
    BY <2>2, SetsStep
  <2> QED
    BY <2>1, <2>2, RegistryStep
<1>3. clusters' \in [DOMAIN clusters' -> Sources]
  BY RegisteredStep
<1>4. todo' \in [Discoveries -> Seq(Indices)]
  BY CopiesStep
<1>5. /\ waiting' \in [Discoveries -> SUBSET Sources]
      /\ snapshot' \in [Discoveries -> SUBSET Sources]
      /\ answered' \in [Discoveries -> SUBSET Sources]
  <2>1. CASE UNCHANGED <<waiting, snapshot, answered>>
    BY <1>1, <2>1 DEF Shapes
  <2>2. ASSUME NEW d \in Discoveries, FanOut(d)
        PROVE  /\ waiting' \in [Discoveries -> SUBSET Sources]
               /\ snapshot' \in [Discoveries -> SUBSET Sources]
               /\ answered' \in [Discoveries -> SUBSET Sources]
    BY <1>1, <2>2 DEF Shapes, TypeOK, FanOut
  <2>3. ASSUME NEW d \in Discoveries, NEW i \in Sources, Collect(d, i)
        PROVE  /\ waiting' \in [Discoveries -> SUBSET Sources]
               /\ snapshot' \in [Discoveries -> SUBSET Sources]
               /\ answered' \in [Discoveries -> SUBSET Sources]
    BY <1>1, <2>3 DEF Shapes, Collect
  <2> QED
    BY <2>1, <2>2, <2>3, CollectingStep
<1> QED
  BY <1>2, <1>3, <1>4, <1>5 DEF Shapes

LEMMA TypeStep == IInv /\ [Next]_vars => TypeOK'
<1> SUFFICES ASSUME IInv, [Next]_vars PROVE TypeOK'
  OBVIOUS
<1> USE DEF startup, registry, discovery
<1>1. Shapes /\ TypeOK
  BY DEF IInv
<1>2. up' \subseteq Sources
  BY <1>1 DEF TypeOK, Next, Startup, ParseDuplicate, ParseResolved, ParseUnresolved, ParseEnds,
     TestCluster, TestEnds, Retry, DiscoveryBegins, Resolve, Register, Discover, FanOut, Collect,
     Report, ClusterChanges, Ended, vars
<1>3. stage' \in {"parsing", "testing", "running", "fatal"}
  BY <1>1 DEF TypeOK, Next, Startup, ParseDuplicate, ParseResolved, ParseUnresolved, ParseEnds,
     TestCluster, TestEnds, Retry, DiscoveryBegins, Resolve, Register, Discover, FanOut, Collect,
     Report, ClusterChanges, Ended, vars
<1>4. next' \in 1..Len(Names) + 1
  <2>1. next \in 1..Len(Names) + 1 /\ Len(Names) \in Nat
    BY <1>1, NumberOfNames DEF TypeOK
  <2>2. CASE Found \/ Missed
    BY <2>1, <2>2 DEF Found, Missed, Indices
  <2>3. CASE next' = next
    BY <2>1, <2>3
  <2> QED
    BY <2>2, <2>3, RegistryStep DEF FoundLate, FellBack
<1>5. /\ DOMAIN clusters' \subseteq {Names[i] : i \in Indices} \cup {LegacyName}
      /\ Registered' \subseteq Sources
  BY RegisteredStep
<1>6. ToSet(pending') \subseteq Indices /\ IsInjective(pending')
  <2>1. CASE UNCHANGED <<next, clusters, pending>> \/ Found \/ FellBack
    BY <1>1, <2>1 DEF TypeOK, Found, FellBack
  <2>2. CASE Missed \/ \E i \in ToSet(pending) : FoundLate(i)
    <3>1. ToSet(pending') \subseteq ToSet(pending) \cup Indices /\ IsInjective(pending')
      BY <2>2, SetsStep DEF Missed
    <3> QED
      BY <1>1, <3>1 DEF TypeOK
  <2> QED
    BY <2>1, <2>2, RegistryStep
<1>7. pc' \in [Discoveries -> {"idle", "retrying", "registering", "collecting"}]
  BY <1>1 DEF TypeOK, Next, Startup, ParseDuplicate, ParseResolved, ParseUnresolved, ParseEnds,
     TestCluster, TestEnds, Retry, DiscoveryBegins, Resolve, Register, Discover, FanOut, Collect,
     Report, ClusterChanges, Ended, vars
<1>8. outcome' \in [Discoveries -> {"none", "targets", "error"}]
  BY <1>1 DEF TypeOK, Next, Startup, ParseDuplicate, ParseResolved, ParseUnresolved, ParseEnds,
     TestCluster, TestEnds, Retry, DiscoveryBegins, Resolve, Register, Discover, FanOut, Collect,
     Report, ClusterChanges, Ended, vars
<1>9. \A d \in Discoveries : ToSet(todo'[d]) \subseteq Indices
  <2>1. \A d \in Discoveries : ToSet(todo[d]) \cup ToSet(pending) \subseteq Indices
    BY <1>1 DEF TypeOK
  <2> QED
    BY <2>1, CopiesStep
<1>10. \A d \in Discoveries : answered'[d] \cup waiting'[d] \subseteq snapshot'[d]
  <2>1. CASE UNCHANGED <<waiting, snapshot, answered>>
    BY <1>1, <2>1 DEF TypeOK
  <2>2. ASSUME NEW d \in Discoveries, FanOut(d), NEW e \in Discoveries
        PROVE  answered'[e] \cup waiting'[e] \subseteq snapshot'[e]
    BY <1>1, <2>2 DEF Shapes, TypeOK, FanOut
  <2>3. ASSUME NEW d \in Discoveries, NEW i \in Sources, Collect(d, i), NEW e \in Discoveries
        PROVE  answered'[e] \cup waiting'[e] \subseteq snapshot'[e]
    BY <1>1, <2>3 DEF Shapes, TypeOK, Collect
  <2> QED
    BY <2>1, <2>2, <2>3, CollectingStep
<1> QED
  BY <1>2, <1>3, <1>4, <1>5, <1>6, <1>7, <1>8, <1>9, <1>10 DEF TypeOK

-------------------------------------------------------------------------------
(* The theorems.                                                           *)

LEMMA IInvStep == IInv /\ [Next]_vars => IInv'
  BY TypeStep, ShapesStep, OnlyParsedStep, OwnNameStep, StagedStep, NothingLostStep DEF IInv

LEMMA InvariantHolds == Spec => []IInv
  BY InitIInv, IInvStep, PTL DEF Spec

(* Every variable keeps its type; no cluster is twice in the pending list, *)
(* however many discoveries register clusters at the same time.            *)
THEOREM TypeCorrect == Spec => []TypeOK
<1>1. IInv => TypeOK
  BY DEF IInv
<1> QED
  BY InvariantHolds, <1>1, PTL

(* RetryPendingClusters and RegisterCluster lose no configured cluster:    *)
(* each that was parsed is registered or pending and never both, for every *)
(* list of names and every number of concurrent discoveries.               *)
THEOREM NoClusterIsLost == Spec => []NothingLost
<1>1. IInv => NothingLost
  BY DEF IInv
<1> QED
  BY InvariantHolds, <1>1, PTL

(* What Config.Clusters holds under a name is the cluster that is          *)
(* configured with that name, or the legacy cluster.                       *)
THEOREM RegisteredUnderOwnName == Spec => []OwnName
<1>1. IInv => OwnName
  BY DEF IInv
<1> QED
  BY InvariantHolds, <1>1, PTL

LEMMA PromiseInit == Init => Promise!Init
<1> SUFFICES ASSUME Init PROVE Promise!Init
  OBVIOUS
<1>1. next - 1 = 0 /\ clusters = << >>
  BY DEF Init
<1>2. ToSet(pending) = {}
  BY DEF Init, ToSet
<1> QED
  BY <1>1, <1>2 DEF Promise!Init

LEMMA PromiseStep == IInv /\ [Next]_vars => [Promise!Next]_Promise!vars
<1> SUFFICES ASSUME IInv, [Next]_vars PROVE [Promise!Next]_Promise!vars
  OBVIOUS
<1>1. Len(Names) \in Nat /\ next \in 1..Len(Names) + 1
  BY NumberOfNames DEF IInv, TypeOK
<1>2. CASE UNCHANGED <<next, clusters, pending>>
  BY <1>2 DEF Promise!vars
<1>3. CASE Found
  <2>1. /\ next - 1 < Len(Names) /\ next - 1 + 1 = next
        /\ next' - 1 = (next - 1) + 1
    BY <1>1, <1>3 DEF Found, Indices
  <2>2. ToSet(pending') = ToSet(pending)
    BY <1>3 DEF Found
  <2>3. Promise!Find
    BY <1>3, <2>1, <2>2 DEF Found, Promise!Find, Promise!Entered, With
  <2> QED
    BY <2>3 DEF Promise!Next
<1>4. CASE Missed
  <2>1. /\ next - 1 < Len(Names) /\ next - 1 + 1 = next
        /\ next' - 1 = (next - 1) + 1
    BY <1>1, <1>4 DEF Missed, Indices
  <2>2. ToSet(pending') = ToSet(pending) \cup {next}
    BY <1>4, SetsStep
  <2>3. Promise!Miss
    BY <1>4, <2>1, <2>2 DEF Missed, Promise!Miss
  <2> QED
    BY <2>3 DEF Promise!Next
<1>5. ASSUME NEW i \in ToSet(pending), FoundLate(i)
      PROVE  Promise!Next
  <2>1. ToSet(pending') = ToSet(pending) \ {i}
    BY <1>5, SetsStep
  <2>2. Promise!FindLate
    BY <1>5, <2>1 DEF FoundLate, Promise!FindLate, Promise!Entered, With
  <2> QED
    BY <2>2 DEF Promise!Next
<1>6. CASE FellBack
  <2>1. next = Len(Names) + 1 /\ next' = next /\ pending' = pending
    BY <1>6 DEF FellBack
  <2>2. next - 1 = Len(Names)
    BY <1>1, <2>1
  <2>3. Promise!FallBack
    BY <1>6, <2>1, <2>2 DEF FellBack, Promise!FallBack, Promise!Entered, With, Legacy
  <2> QED
    BY <2>3 DEF Promise!Next
<1> QED
  BY <1>2, <1>3, <1>4, <1>5, <1>6, RegistryStep

(* The registry, with its startup, locks and copies, implements            *)
(* RegistryPromise: clusters are looked at in order, entered once under a  *)
(* free name, never replaced, and only pending ones are entered later.     *)
THEOREM RegistryImplementsPromise == Spec => ImplementsPromise
  BY InvariantHolds, PromiseInit, PromiseStep, PTL DEF Spec, ImplementsPromise, Promise!Spec
================================================================================
