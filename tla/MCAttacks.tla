------------------------------- MODULE MCAttacks -------------------------------
(* Model-checking module of Attacks: the numbers of records to keep, of    *)
(* which a user may also enter a negative one, and the numbers entered for *)
(* partitions: the two of the topic, one it does not have and one that is  *)
(* too wide and becomes the first.                                         *)
EXTENDS Attacks

Counts == -1..2
Numbers == {0, 1, 2, Wrap}
================================================================================
