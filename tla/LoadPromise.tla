------------------------------ MODULE LoadPromise ------------------------------
(***************************************************************************)
(* What a "produce messages" execution promises, without channels,         *)
(* tickers and goroutines: requests are granted while the execution is     *)
(* open, begun one per grant and at most Width at a time, and a request    *)
(* that has begun is counted exactly once.  An execution with a limit      *)
(* begins no request once Limit requests are counted; once closed it only  *)
(* uses up the grants it has.                                              *)
(***************************************************************************)
EXTENDS Integers

CONSTANTS Limited, Limit, Width

VARIABLES open, grants, inflight, counted

vars == <<open, grants, inflight, counted>>

Init == open = TRUE /\ grants = 0 /\ inflight = 0 /\ counted = 0

Exhausted == Limited /\ counted >= Limit

Grant ==
  /\ open
  /\ grants' = grants + 1
  /\ UNCHANGED <<open, inflight, counted>>

Begin ==
  /\ grants > 0
  /\ inflight < Width
  /\ ~Exhausted
  /\ grants' = grants - 1
  /\ inflight' = inflight + 1
  /\ UNCHANGED <<open, counted>>

(* A grant is dropped unused only when there is nothing left to produce. *)
Discard ==
  /\ grants > 0
  /\ Exhausted \/ ~open
  /\ grants' = grants - 1
  /\ UNCHANGED <<open, inflight, counted>>

Count ==
  /\ inflight > 0
  /\ inflight' = inflight - 1
  /\ counted' = counted + 1
  /\ UNCHANGED <<open, grants>>

Close ==
  /\ open' = FALSE
  /\ UNCHANGED <<grants, inflight, counted>>

(* A restart loses what was granted and in flight. *)
Abandon ==
  /\ grants' = 0
  /\ inflight' = 0
  /\ UNCHANGED <<open, counted>>

Next == Grant \/ Begin \/ Discard \/ Count \/ Close \/ Abandon

Spec == Init /\ [][Next]_vars
================================================================================
