---------------------------- MODULE MCParallelRun ----------------------------
(* Two slots of two wrappers with the port numbers of capabilities.json.      *)
EXTENDS ParallelRun

TwoWrappers == <<"gnutls", "openssl">>
Ports      == [b \in Wrappers |-> IF b = "openssl" THEN 15051 ELSE 15052]
Cell2      == {2}
Cell3      == {3}
FragileOne == {<<1, "openssl">>}
Leftover   == {15151}
=============================================================================
