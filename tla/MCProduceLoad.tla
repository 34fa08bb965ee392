----------------------------- MODULE MCProduceLoad -----------------------------
(* Model-checking module of ProduceLoad.                                   *)
EXTENDS ProduceLoad, TLC

(* No action distinguishes one worker from another. *)
Symmetry == Permutations(Workers)
================================================================================
