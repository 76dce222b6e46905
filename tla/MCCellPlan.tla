----------------------------- MODULE MCCellPlan -----------------------------
(* The three wrappers of the repository with a few tokens of each axis, the *)
(* features their capabilities.json declare and certificates of every kind; *)
(* the arguments of matrices and of two suites.                             *)
EXTENDS CliArgs

AllWrappers == {"openssl", "gnutls", "nss"}

Declares(c13, c12, groups, schemes, versions, alpn, supported, fields) ==
    [ciphers |-> [v \in Versions |-> IF v = "1.3" THEN c13 ELSE c12],
     supported_groups |-> groups, signature_schemes |-> schemes, alpn |-> alpn,
     tls_version |-> versions,
     wired |-> {"psk", "anonymous", "resumption"}, supported |-> supported,
     unsupported_tls_fields |-> fields]

EveryScheme == DOMAIN SchemeFacts

RealCaps ==
    [openssl |-> Declares({"aes128"}, {"ecdhe_rsa", "ecdhe_ecdsa", "rsa_aes", "psk_aes"},
                   {"x25519", "x448", "ffdhe2048"}, EveryScheme,
                   Versions, {"h2"}, {"psk", "anonymous", "resumption"}, {}),
     gnutls  |-> Declares({"aes128", "aes128ccm8"},
                   {"ecdhe_rsa", "ecdhe_ecdsa", "rsa_aes", "psk_aes", "dh_anon"},
                   {"x25519", "x448", "ffdhe2048"}, {"rsa_pss", "ecdsa", "ed25519"} \cup
                      {"rsa_pure", "ecdsa384"},
                   {}, {"h2"}, {"psk", "anonymous", "resumption"}, {}),
     nss     |-> Declares({"aes128"}, {"ecdhe_rsa", "ecdhe_ecdsa", "rsa_aes", "dhe_dss"},
                   {"x25519", "ffdhe2048"}, EveryScheme \ {"ed25519"},
                   {}, {}, {"psk", "resumption"},
                   {"certificate", "private_key", "alpn_protocols", "expect_hrr"})]

OldAndNew == {"mtls", "0rtt"}
FullCaps  == [w \in Wrappers |-> [RealCaps[w] EXCEPT !.wired = @ \cup OldAndNew,
                                                     !.supported = @ \cup OldAndNew]]

AllCerts  == {"rsa_default", "rsa_pss_pure", "ecdsa_p256", "ecdsa_p384", "ed25519",
              "dsa_default"}
WithoutEd == AllCerts \ {"ed25519"}

None       == [form |-> "none",  toks |-> <<>>]
All        == [form |-> "all",   toks |-> <<>>]
Just(t)    == [form |-> "list",  toks |-> <<t>>]
Both(t, u) == [form |-> "list",  toks |-> <<t, u>>]
Minus(t)   == [form |-> "minus", toks |-> <<t>>]
Pair(l, r) == [form |-> "pair",  toks |-> <<l, r>>]

\* Every combination of a few values per axis.
Matrices ==
    [server : {Just("openssl"), Both("gnutls", "nss")},
     client : {All, Just("gnutls")},
     tls_version : {None, All, Just("1.2"), Just("1.3"), Pair("1.2", "1.3")},
     cipher_suite : {None, All, Both("aes128", "ecdhe_ecdsa"), Pair("ecdhe_rsa", ""),
                     Pair("rsa_aes", "aes128"), Pair("ecdhe_rsa", "psk_aes")},
     supported_groups : {None, Both("x448", "ffdhe2048")},
     signature_schemes : {None, Just("ed25519"), Pair(<<"ecdsa", "rsa_pss">>, <<"rsa_pss">>)},
     alpn : {None},
     test_features : {{}, {"psk"}},
     suite_cases : {{}}]

Odd(axis, arg) ==
    [[server |-> Just("openssl"), client |-> Just("nss"), tls_version |-> Just("1.2"),
      cipher_suite |-> None, supported_groups |-> None, signature_schemes |-> None,
      alpn |-> None, test_features |-> {"anonymous"}, suite_cases |-> {}]
     EXCEPT ![axis] = arg]

AsymmetricWrappers == [form |-> "pair", toks |-> <<"openssl:gnutls">>]

\* A misspelt token, a subtraction, an unknown pair of wrappers, ALPN.
OddOnes ==
    {Odd("server", AsymmetricWrappers), Odd("client", Minus("openssl")),
     Odd("cipher_suite", Minus("rsa_aes")), Odd("cipher_suite", Just("unknown")),
     Odd("tls_version", Pair("1.2", "")), Odd("alpn", All), Odd("alpn", Just("h2")),
     Odd("alpn", Pair(<<"h2">>, <<>>)), Odd("cipher_suite", Just("dhe_dss"))}

\* Schemes whose names contain the patterns of others.
Scheme(s) == [Odd("tls_version", Just("1.3")) EXCEPT !.test_features = {},
                                                     !.signature_schemes = s]

\* The cases of a suite file.
Case1 == [server |-> "openssl", client |-> "gnutls", cipher_suite |-> <<"aes128">>,
          signature_schemes |-> << <<"rsa_pss">> >>, test_features |-> {"resumption"},
          expect_hrr |-> "true"]
Case2 == [server |-> "openssl", client |-> "nss", cipher_suite |-> <<"aes128">>,
          supported_groups |-> << <<"x25519">>, <<"ffdhe2048", "x25519">> >>,
          expect_hrr |-> "true"]
Case3 == [server |-> "gnutls", client |-> "openssl", cipher_suite |-> <<"ecdhe_rsa">>,
          supported_groups |-> << <<"x25519">> >>]

Suites ==
    {[Odd("tls_version", v) EXCEPT !.suite_cases = {Case1, Case2, Case3},
                                   !.test_features = f] :
        v \in {None, Just("1.3")}, f \in {{}, {"resumption"}}}

PlanRequests == Matrices \cup OddOnes \cup Suites
                  \cup {Scheme(Both("ecdsa384", "rsa_pure")), Scheme(Both("rsa_pss", "ecdsa"))}

\* Every wrapper against every other.
AllPairs(features) ==
    [server : {All}, client : {All},
     tls_version : {None, Just("1.3"), Pair("1.3", "1.2")},
     cipher_suite : {None, All, Pair("aes128", "ecdhe_rsa")},
     supported_groups : {None, Just("x25519")},
     signature_schemes : {None, Both("ecdsa", "ed25519")},
     alpn : {None, Just("h2")},
     test_features : features, suite_cases : {{}}]

Dss(schemes) == [Odd("cipher_suite", Just("dhe_dss")) EXCEPT
                   !.server = All, !.client = All, !.signature_schemes = schemes,
                   !.test_features = {}]

AllRequests == PlanRequests \cup AllPairs({{}, {"psk"}, {"mtls", "resumption"}})
                 \cup {Dss(None), Dss(Just("ecdsa"))}
=============================================================================
