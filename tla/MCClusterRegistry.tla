--------------------------- MODULE MCClusterRegistry ---------------------------
(* Model-checking module of ClusterRegistry: configured names.             *)
EXTENDS ClusterRegistry

TwoNames      == <<"a", "b">>
SharedAndOwn  == <<"a", "b", "a">>
================================================================================
