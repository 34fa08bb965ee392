------------------------------ MODULE MCExtension ------------------------------
(* Model-checking module of Extension: configured names, and the security  *)
(* settings of their configurations, no two alike.                         *)
EXTENDS Extension

TwoNames == <<"a", "b">>

Differing ==
  LET Plaintext   == [saslMechanism |-> "", saslUser |-> "", certificates |-> FALSE, useTLS |-> FALSE]
      Certificate == [saslMechanism |-> "", saslUser |-> "", certificates |-> TRUE,  useTLS |-> TRUE]
      Password    == [saslMechanism |-> "SCRAM-SHA-512", saslUser |-> "chaos",
                      certificates |-> FALSE, useTLS |-> TRUE]
  IN  [i \in 0..2 |-> <<Plaintext, Certificate, Password>>[i + 1]]
================================================================================
