------------------------------- MODULE CliArgs -------------------------------
(***************************************************************************)
(* From the TlsConfigs of an executed cell (CellPlan) to the command lines  *)
(* of its two CLI tools: the three tls_argv_for_config and start methods    *)
(* (src/wrappers/*/wrapper.py), the checks a wrapper makes of a config      *)
(* before it starts anything, and the leaf its server presents.             *)
(*                                                                          *)
(* A command line is what it tells the tool: values, not flags.             *)
(***************************************************************************)
EXTENDS CellPlan

CONSTANTS
    PskKeys,      \* wrappers whose capabilities.json has keys of the right length
    NssImports    \* prefixes of the identities that pk12util can import

ASSUME CliAssumption == PskKeys \subseteq Wrappers /\ NssImports \subseteq Certs

CipherNeeds(cfg, feature) ==
    /\ feature \in cfg.psk_modes
    /\ cfg.cipher_suite # "" /\ CipherFacts[cfg.cipher_suite].feature = feature

-----------------------------------------------------------------------------
(* What a wrapper refuses, with WrapperSkipError                            *)

\* unsupported_cli_params: fields that must be empty for this backend.
Blocked(w, cfg) ==
    LET fields == Caps[w].unsupported_tls_fields IN
    \/ fields \cap {"certificate", "private_key"} # {} /\ cfg.leaf # ""
    \/ "alpn_protocols" \in fields /\ cfg.alpn # <<>>
    \/ "expect_hrr" \in fields /\ cfg.expect_hrr

\* The lists are looked at, and mapped, in TLS 1.3 only.
Mapped(cfg, dim) == IF cfg.version = "1.3" THEN cfg[dim] ELSE <<>>

\* The unsupported part of a TranslationResult.
Untranslatable(w, cfg) ==
    \/ cfg.cipher_suite \notin Caps[w].ciphers[cfg.version] \cup {""}
    \/ \E dim \in OrthogonalDims : ~ Range(Mapped(cfg, dim)) \subseteq Caps[w][dim]
    \/ w # "nss" /\ CipherNeeds(cfg, "psk") /\ w \notin PskKeys

\* _validate_config_supported
LateSkip(w, cfg) == Blocked(w, cfg) \/ Untranslatable(w, cfg)

-----------------------------------------------------------------------------
(* What the tools are told                                                  *)

\* What a cipher needs besides a certificate: NSS takes a key for any TLS 1.3
\* handshake, and a GnuTLS client has no argument for an anonymous one.
ToldCredentials(w, cfg, side) ==
    {f \in cfg.psk_modes :
        \/ f = "psk" /\ IF w = "nss" THEN cfg.version = "1.3" /\ w \in PskKeys
                                     ELSE CipherNeeds(cfg, "psk")
        \/ f = "anonymous" /\ CipherNeeds(cfg, "anonymous")
                           /\ (w = "gnutls" => side = "server")}

\* Enabled features that leave a trace on the command line of a tool.
ToldFeatures(w, cfg, side) ==
    ToldCredentials(w, cfg, side) \cup
    {f \in cfg.psk_modes : \/ f = "mtls"
                           \/ f = "resumption" /\ side = "client"
                           \/ f = "0rtt" /\ w # "nss"}

-----------------------------------------------------------------------------
(* The leaf of the server                                                   *)

\* Wrong variant: only the cipher is asked.
PrefixForConfig_CipherOnly(cfg) ==
    IF cfg.cipher_suite # "" THEN PrefixFor(CipherFacts[cfg.cipher_suite].needles)
                             ELSE "rsa_default"

\* get_cert_prefix_for_config
PrefixForConfig(cfg) ==
    CASE cfg.signature_schemes # <<>> -> PrefixFor(SchemeFacts[cfg.signature_schemes[1]].needles)
      [] cfg.cipher_suite # ""        -> PrefixFor(CipherFacts[cfg.cipher_suite].needles)
      [] OTHER                        -> "rsa_default"

UsesDsaAuth(cfg) == cfg.cipher_suite # "" /\ CipherFacts[cfg.cipher_suite].au = "dsa"

\* The DSA leaf of certs/ for a DSS cipher, or else the PEM pair of the config,
\* or else that of certs/: _ensure_cert_paths.  NSS has a nickname for each.
ServedLeaf(w, cfg) ==
    CASE UsesDsaAuth(cfg) /\ "dsa_default" \in Certs -> "dsa_default"
      [] w # "nss" /\ cfg.leaf # ""                  -> cfg.leaf
      [] OTHER                                       -> PrefixForConfig(cfg)

Servable(w) == IF w = "nss" THEN NssImports ELSE Certs

-----------------------------------------------------------------------------
(* Properties                                                               *)

(* SKIP is decided before the run, from the cell; each wrapper decides again *)
(* from the config it is sent, with tables of its own.  The two agree: no    *)
(* executed cell is skipped by a wrapper after all.                          *)
NoLateSkip ==
    \A x \in ran : ~ HalfVersion(x[2]) =>
        \A s \in Sides : ~ LateSkip(x[2][s], TlsConfig(x[2], s))

(* The server presents the very leaf whose presence was checked before the   *)
(* run, although driver and wrapper choose it apart, from the cell, from the *)
(* PEM pair sent or from the config; and an NSS server has imported it.      *)
ServedLeafIsChecked ==
    \A x \in ran :
        LET w   == x[2].server
            cfg == TlsConfig(x[2], "server")
        IN NeedsLeaf(x[2]) =>
              ServedLeaf(w, cfg) = LeafPrefix(x[2]) /\ ServedLeaf(w, cfg) \in Servable(w)

(* A cipher that authenticates with a shared key works only if both tools are *)
(* given the key, and one without authentication only if the server is told.  *)
(* The checks before the run look for the feature at one cipher of the cell,  *)
(* each wrapper at the cipher and the features of the config it gets: where   *)
(* both mean the same feature, the tool is told.                              *)
CredentialIsTold ==
    \A x \in ran : \A s \in Sides :
        LET cfg    == TlsConfig(x[2], s)
            needed == CipherFeature(x[2])
        IN /\ cfg.cipher_suite # "" /\ CipherFacts[cfg.cipher_suite].feature = needed
           /\ needed = "psk" \/ (needed = "anonymous" /\ s = "server")
           => needed \in ToldFeatures(x[2][s], cfg, s)
=============================================================================
