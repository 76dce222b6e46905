---------------------------- MODULE MCDebugLogs ----------------------------
(* A sweep over the ciphers of one pair of wrappers, and one more pair.       *)
EXTENDS DebugLogs

Cell(server, client, cipher, groups) ==
    [server |-> server, client |-> client, cipher |-> cipher, groups |-> groups]

CipherSweep == << Cell("openssl", "gnutls", "aes128", "x25519"),
                  Cell("openssl", "gnutls", "aes256", "x25519"),
                  Cell("gnutls", "gnutls", "aes256", "x25519") >>
=============================================================================
