-------------------------------- MODULE Attacks --------------------------------
(***************************************************************************)
(* The three attacks that leave no goroutine and no value to restore with  *)
(* the extension: any one of them, with any parameters, next to the        *)
(* changes of the cluster that concern it.                                 *)
(***************************************************************************)
EXTENDS DenyAccess, DeleteRecords, ElectLeader

VARIABLE attack  \* the action the agent has called

vars == <<attack, denyVars, deleteVars, electVars>>

(* What does not concern the attack is in one state out of many.           *)
Init ==
  /\ attack \in {"deny", "delete", "elect"}
  /\ DenyInit
  /\ DeleteInit
  /\ ElectInit
  /\ attack # "delete" => \A p \in Topic : logs[p].end = 0
  /\ attack # "elect" => replicas = SetToSeq(Replicas) /\ isr = Replicas /\ leader = NoLeader

Next ==
  /\ UNCHANGED attack
  /\ \/ attack = "deny" /\ DenyNext /\ UNCHANGED <<deleteVars, electVars>>
     \/ attack = "delete" /\ DeleteNext /\ UNCHANGED <<denyVars, electVars>>
     \/ attack = "elect" /\ ElectNext /\ UNCHANGED <<denyVars, deleteVars>>

Spec == Init /\ [][Next]_vars

-------------------------------------------------------------------------------
(* Every variable has a value the program and the brokers can give it; no  *)
(* log begins before its old first record or after its end.                *)
TypeOK == DenyTypeOK /\ DeleteTypeOK /\ ElectTypeOK

(* Once all denials are stopped, all that remains of them are entries each *)
(* of which a broker has refused to delete in the last Stop, however many  *)
(* were created and deleted by calls that failed half way or were lost.    *)
(* Such a refusal does not make Stop fail, although the description says   *)
(* that the rule "is automatically removed".                               *)
NoDenialRemains ==
  (\A e \in Denials : denial[e] \in {"new", "prepared", "stopped"}) => acls \subseteq undeleted

(* A Start that reports success denies everything it should, as long as no *)
(* other execution of the same denial has begun to stop.                   *)
DeniedWhileStarted ==
  (/\ \E e \in Denials : denial[e] = "started"
   /\ \A e \in Denials : denial[e] \notin {"stopped", "stopFailed"}) => acls = Bindings

(* "10 means keep the 10 most recent records": whatever fails and however  *)
(* many records come in meanwhile, so many of the newest are never deleted *)
(* if there were as many.                                                  *)
NewestKept ==
  offset >= 0 =>
    \A p \in Topic : \/ logs[p].end - logs[p].start >= offset
                     \/ logs[p].start = first[p]

(* After success every chosen partition has lost all records that were too *)
(* old when the attack looked, and no other partition any record.  What a  *)
(* number chooses is its remainder of 32 bits: it need not be the number   *)
(* of a partition of this topic, although "only the selected partitions    *)
(* are affected" then.                                                     *)
DeletedAsAsked ==
  deletion = "deleted" =>
    /\ \A n \in ToSet(chosen) :
         /\ n # NotANumber /\ Int32(n) \in Topic
         /\ logs[Int32(n)].start >= ends[Int32(n)] - offset
    /\ \A p \in Topic :
         (\A n \in ToSet(chosen) : Int32(n) # p) => logs[p].start = first[p]

(* The new order of the replicas, for every order, set in sync and leader: *)
(* the same replicas, first those in sync, last the leader, and otherwise  *)
(* in the order they had.                                                  *)
Place(b) == IF b = leader THEN 2 ELSE IF b \in isr THEN 0 ELSE 1
Position(b) == CHOOSE i \in DOMAIN replicas : replicas[i] = b

LeaderRelegated ==
  leader # NoLeader =>
    LET order == relegateLeader(replicas, isr, leader)
    IN /\ ToSet(order) = ToSet(replicas) /\ Len(order) = Len(replicas)
       /\ \A i, j \in DOMAIN order : i < j =>
            \/ Place(order[i]) < Place(order[j])
            \/ /\ Place(order[i]) = Place(order[j])
               /\ Position(order[i]) < Position(order[j])

(* If the attack reports success, the election has just moved the          *)
(* leadership, and not back to the leader the attack found, even if it had *)
(* moved by itself in between.  It may have moved back if the brokers have *)
(* not carried out the assignment: the answer that says so is dropped, and *)
(* the attack reports success all the same.                                *)
SuccessMovesLeader ==
  [][election # "elected" /\ election' = "elected"
       => leader' # leader /\ (taken => leader' # seenLeader)]_vars

(* The attack is about the order of the replicas: it adds none and takes   *)
(* none away.                                                              *)
ReplicasKept == ToSet(replicas) = Replicas
================================================================================
