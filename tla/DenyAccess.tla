------------------------------- MODULE DenyAccess ------------------------------
(***************************************************************************)
(* broker_deny_user.go: Start creates access control entries that deny a   *)
(* user a topic and a consumer group, Stop deletes them.  Neither keeps    *)
(* anything: the entries are computed anew from the parameters, so that    *)
(* executions with the same parameters share them.                         *)
(***************************************************************************)
EXTENDS Integers

CONSTANTS
  Denials,  \* executions with the same user, topic and consumer group
  Bindings  \* the entries: topic and group, each with read, write, describe

ASSUME BindingsAssumption == Bindings # {}

VARIABLES
  denial,    \* how far the agent's calls of each execution have come
  acls,      \* the entries the brokers have
  undeleted  \* history: those a broker refused to delete in the last Stop

denyVars == <<denial, acls, undeleted>>

DenyInit ==
  /\ denial = [e \in Denials |-> "new"]
  /\ acls = {} /\ undeleted = {}

DenyPrepare(e) ==
  /\ denial[e] = "new"
  /\ denial' = [denial EXCEPT ![e] = "prepared"]
  /\ UNCHANGED <<acls, undeleted>>

(* Seeded fault: the results of the single entries are not looked at. *)
DenyStartIgnoresResults(e) ==
  /\ denial[e] = "prepared"
  /\ \E created \in SUBSET Bindings : acls' = acls \cup created
  /\ denial' = [denial EXCEPT ![e] = "started"]
  /\ UNCHANGED undeleted

(* CreateACLs answers for each entry; one error makes an error of them     *)
(* all, and what was created stays.  The request as a whole may fail before*)
(* or after the brokers have done their part.                              *)
DenyStart(e) ==
  /\ denial[e] = "prepared"
  /\ \E created \in SUBSET Bindings :
       /\ acls' = acls \cup created
       /\ \/ created = Bindings /\ denial' = [denial EXCEPT ![e] = "started"]
          \/ denial' = [denial EXCEPT ![e] = "startFailed"]
  /\ UNCHANGED undeleted

(* Seeded fault: the errors of the filters are not looked at either. *)
DenyStopIgnoresResults(e) ==
  /\ denial[e] \in {"prepared", "started", "startFailed", "stopFailed"}
  /\ \E deleted \in SUBSET Bindings : \E refused \in SUBSET (acls \ deleted) :
       acls' = acls \ deleted /\ undeleted' = refused
  /\ denial' = [denial EXCEPT ![e] = "stopped"]

(* DeleteACLs has a filter for each entry and answers for each filter: with*)
(* an error, which makes an error of them all, or with what it has matched.*)
(* A filter that matches nothing is in order.  So is, to the code, one     *)
(* whose entry the broker has refused to delete: that is said by an error  *)
(* of the entry, and the loop looks at those of the filters only.          *)
DenyStop(e) ==
  /\ denial[e] \in {"prepared", "started", "startFailed", "stopFailed"}
  /\ \E deleted \in SUBSET Bindings : \E refused \in SUBSET (acls \ deleted) :
       /\ acls' = acls \ deleted /\ undeleted' = refused
       /\ \/ /\ deleted \cup refused = Bindings
             /\ denial' = [denial EXCEPT ![e] = "stopped"]
          \/ denial' = [denial EXCEPT ![e] = "stopFailed"]

DenyEnded == (\A e \in Denials : denial[e] = "stopped") /\ UNCHANGED denyVars

DenyNext ==
  \/ \E e \in Denials : DenyPrepare(e) \/ DenyStart(e) \/ DenyStop(e)
  \/ DenyEnded

DenyTypeOK ==
  /\ denial \in [Denials -> {"new", "prepared", "started", "startFailed",
                             "stopped", "stopFailed"}]
  /\ acls \subseteq Bindings /\ undeleted \subseteq acls
================================================================================
