---------------------------- MODULE RegistryPromise ----------------------------
(***************************************************************************)
(* What the registry of clusters promises, without startup, locks, copies  *)
(* and discoveries: the configured clusters are looked at in order, each   *)
(* is in the book or missing, a missing one may be entered at any time,    *)
(* and an entry is made once and stays as it is.  The legacy cluster is    *)
(* entered only into an empty book.                                        *)
(***************************************************************************)
EXTENDS Integers, Sequences

CONSTANTS Names, LegacyName

VARIABLES
  looked,   \* number of clusters that were looked at
  book,     \* name -> index of the cluster registered under it
  missing   \* clusters that did not answer, or not yet

vars == <<looked, book, missing>>

Init == looked = 0 /\ book = << >> /\ missing = {}

Entered(name, i) == [n \in DOMAIN book \cup {name} |-> IF n = name THEN i ELSE book[n]]

Find ==
  /\ looked < Len(Names)
  /\ Names[looked + 1] \notin DOMAIN book
  /\ book' = Entered(Names[looked + 1], looked + 1)
  /\ looked' = looked + 1
  /\ UNCHANGED missing

Miss ==
  /\ looked < Len(Names)
  /\ missing' = missing \cup {looked + 1}
  /\ looked' = looked + 1
  /\ UNCHANGED book

FindLate ==
  /\ \E i \in missing :
       /\ Names[i] \notin DOMAIN book
       /\ book' = Entered(Names[i], i)
       /\ missing' = missing \ {i}
  /\ UNCHANGED looked

FallBack ==
  /\ looked = Len(Names)
  /\ DOMAIN book = {}
  /\ LegacyName # ""
  /\ book' = Entered(LegacyName, 0)
  /\ UNCHANGED <<looked, missing>>

Next == Find \/ Miss \/ FindLate \/ FallBack

Spec == Init /\ [][Next]_vars
================================================================================
