------------------------------ MODULE MCRunArgs ------------------------------
(* The ports, the stride and the limits are those of the code; two wrappers, *)
(* two cells, and suite files that say something about each kind of key.     *)
EXTENDS RunArgs

File(keys, attach, jobs, port, casePort) ==
    [keys |-> keys, attach |-> attach, jobs |-> jobs, port |-> port, casePort |-> casePort]

AllFlags == {"server", "signature_schemes"}

Files     == {File(AllFlags, None, None, None, 0), File({"server"}, None, 2, None, 0),
              File({}, TRUE, 2, 0, 0), File({"server"}, FALSE, None, 25551, 0),
              File({}, None, None, None, 25551)}

GrpcPorts == [b \in Backends |-> IF b = "openssl" THEN 15051 ELSE 15053]
TlsPorts  == [b \in Backends |-> IF b = "openssl" THEN 25551 ELSE 25553]
=============================================================================
