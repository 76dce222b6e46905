------------------------------ MODULE CellPlan ------------------------------
(***************************************************************************)
(* From the arguments of a run to its cells: the expansion of the matrix    *)
(* axes and the normalisation of a cell (src/core/matrix.py), the pre-run   *)
(* SKIP checks (src/core/validation.py), the TlsConfigs a cell sends        *)
(* (src/core/runner.py) and the loop of src/main.py around them.            *)
(*                                                                          *)
(* A raw value "x" is <<x>>, an asymmetric "l:r" is <<l, r>>.  A scalar     *)
(* that is not given is "", a comma list is a sequence of tokens.  TLS      *)
(* versions are "1.2" and "1.3" only, and only a comma list is misspelt.    *)
(***************************************************************************)
EXTENDS Naturals, Sequences, FiniteSets, Functions

CONSTANTS
    Wrappers,   \* ids found under wrappers/
    Caps,       \* the capabilities.json of each
    Certs,      \* the prefixes of the identity PEM pairs under certs/
    Requests    \* possible argument namespaces, after the suite file

Versions == {"1.2", "1.3"}
Sides    == {"server", "client"}
OrthogonalDims == {"supported_groups", "signature_schemes"}
ListDims == OrthogonalDims \cup {"alpn"}
Axes     == {"server", "client", "tls_version", "cipher_suite"} \cup ListDims

CapsAssumption ==
    \A w \in Wrappers :
        /\ DOMAIN Caps[w].ciphers = Versions
        /\ Caps[w].tls_version \subseteq Versions
ASSUME CapsAssumption

VARIABLES
    args,      \* the argument namespace
    phase,     \* of main(); "failed" is its exit code 2
    combos,    \* the raw cells
    backends,  \* the wrappers the session was started with
    ran,       \* <<raw, cell>> of the cells that were executed
    skips      \* <<raw, cell>> of the cells that were skipped before the run

vars == <<args, phase, combos, backends, ran, skips>>

-----------------------------------------------------------------------------
(* What the names of catalog ids say (src/core/features.py, identity.py)    *)

\* needles: the patterns of _SCHEME_PREFIX_RULES that occur in the name.
Facts(kx, au, feature, pem, needles) ==
    [kx |-> kx, au |-> au, feature |-> feature, pem |-> pem, needles |-> needles]

CipherFacts ==
    [aes128     |-> Facts("static-rsa", "rsa", "", FALSE, {}),
     aes128ccm8 |-> Facts("static-rsa", "rsa", "", FALSE, {}),
     ecdhe_rsa  |-> Facts("ecdhe", "rsa", "", TRUE, {"rsa"}),
     ecdhe_ecdsa |-> Facts("ecdhe", "ecdsa", "", TRUE, {"ecdsa", "dsa"}),
     dhe_dss    |-> Facts("dhe", "dsa", "", TRUE, {"dss"}),
     rsa_aes    |-> Facts("static-rsa", "rsa", "", TRUE, {"rsa"}),
     psk_aes    |-> Facts("unknown", "unknown", "psk", FALSE, {}),
     dh_anon    |-> Facts("unknown", "unknown", "anonymous", FALSE, {})]

SchemeFacts ==
    [rsa_pss  |-> [kind |-> "rsa",   needles |-> {"rsa"}],
     rsa_pure |-> [kind |-> "rsa",   needles |-> {"rsa-pss-pss", "rsa"}],
     ecdsa    |-> [kind |-> "ecdsa", needles |-> {"ecdsa", "dsa"}],
     ecdsa384 |-> [kind |-> "ecdsa", needles |-> {"secp384", "ecdsa", "dsa"}],
     ed25519  |-> [kind |-> "eddsa", needles |-> {"ed25519"}],
     mldsa44  |-> [kind |-> "unknown", needles |-> {"dsa"}]]

GroupFamily == [x25519 |-> "ec", x448 |-> "ec", ffdhe2048 |-> "ffdhe"]

\* Wrong variant: the general rule stands before the special one.
SchemePrefixRules_DsaFirst ==
    << <<"ed25519", "ed25519">>, <<"dss", "dsa_default">>, <<"dsa", "dsa_default">>,
       <<"secp384", "ecdsa_p384">>, <<"ecdsa", "ecdsa_p256">>,
       <<"rsa-pss-pss", "rsa_pss_pure">>, <<"rsa", "rsa_default">> >>

\* Ed448 and P-521, which no id here names, are left out.
SchemePrefixRules ==
    << <<"ed25519", "ed25519">>, <<"secp384", "ecdsa_p384">>, <<"ecdsa", "ecdsa_p256">>,
       <<"dss", "dsa_default">>, <<"dsa", "dsa_default">>,
       <<"rsa-pss-pss", "rsa_pss_pure">>, <<"rsa", "rsa_default">> >>

\* get_cert_prefix_for_scheme: the first rule that matches the name.
PrefixFor(needles) ==
    LET rules == SelectSeq(SchemePrefixRules, LAMBDA r : r[1] \in needles) IN
    IF rules = <<>> THEN "rsa_default" ELSE rules[1][2]

KindOfLeaf ==
    [rsa_default |-> "rsa", rsa_pss_pure |-> "rsa-pss", ecdsa_p256 |-> "ecdsa",
     ecdsa_p384 |-> "ecdsa", ed25519 |-> "eddsa", dsa_default |-> "dsa"]

-----------------------------------------------------------------------------
(* Expansion of the axes                                                    *)

\* What wrapper w declares for an axis; a cipher axis may be cut to a version.
Declared(w, axis, mode) ==
    CASE axis # "cipher_suite" -> Caps[w][axis]
      [] mode \in Versions     -> Caps[w].ciphers[mode]
      [] OTHER                 -> UNION {Caps[w].ciphers[v] : v \in Versions}

CatalogTokens(axis) ==
    IF axis = "tls_version" THEN Versions
    ELSE UNION {Declared(w, axis, "") : w \in Wrappers}

\* tls_mode_from_version on the raw text: one "13" in it decides.
TextMode(arg) ==
    IF "1.3" \in Range(arg.toks) \/ "1.2" \notin Range(arg.toks)
    THEN "1.3" ELSE "1.2"

\* tls_mode_filter_from_args
CipherMode(req) ==
    LET arg == req.tls_version IN
    CASE arg.form = "none" -> ""
      [] arg.form = "pair" ->
            IF arg.toks[1] = arg.toks[2] THEN arg.toks[1] ELSE ""
      [] OTHER -> TextMode(arg)

DefaultCipher == [v \in Versions |-> IF v = "1.3" THEN "aes128" ELSE "ecdhe_rsa"]

DefaultCipherOf(mode, allowed) ==
    CASE DefaultCipher[mode] \in allowed -> DefaultCipher[mode]
      [] allowed = {} -> ""
      [] OTHER        -> CHOOSE c \in allowed : TRUE

Union(axis, ws, mode) == UNION {Declared(w, axis, mode) : w \in ws}

\* Wrong variant: the cipher axis is not cut to the version of the matrix.
ExpandAll_AnyVersion(axis, ws, mode) ==
    IF Union(axis, ws, "") # {} THEN Union(axis, ws, "") ELSE CatalogTokens(axis)

\* ALL: what the wrappers of the matrix declare, or else the whole catalog.
ExpandAll(axis, ws, mode) ==
    IF Union(axis, ws, mode) # {} THEN Union(axis, ws, mode) ELSE CatalogTokens(axis)

\* A comma list; a cipher list keeps the ciphers of the version, if any is.
ExpandList(axis, toks, ws, mode) ==
    LET known == toks \cap Union(axis, ws, mode) IN
    IF axis = "cipher_suite" /\ mode # "" /\ known # {} THEN known ELSE toks

\* One value per cell: a token alone is a list of one on the list axes.
Single(axis, t) == IF axis \in ListDims THEN << <<t>> >> ELSE <<t>>
Unset(axis)     == IF axis \in ListDims THEN << <<>> >> ELSE <<"">>

\* expand_capability_dimension; {} where it raises ValueError.
ExpandAxis(axis, arg, ws, mode) ==
    LET toks == Range(arg.toks)
        singles(S) == {Single(axis, t) : t \in S}
    IN CASE arg.form = "pair"  -> {arg.toks}
         [] arg.form = "all"   -> singles(ExpandAll(axis, ws, mode))
         [] arg.form = "minus" -> singles(ExpandAll(axis, ws, mode) \ toks)
         [] arg.form = "list"  -> IF toks \subseteq CatalogTokens(axis)
                                  THEN singles(ExpandList(axis, toks, ws, mode))
                                  ELSE {}
         [] axis = "cipher_suite" /\ mode # "" ->
                singles({DefaultCipherOf(mode, Union(axis, ws, mode))})
         [] OTHER -> {Unset(axis)}

\* Without an explicit pair every server token meets every client token.
ExpandAlpn(arg, ws) ==
    LET vals == ExpandAxis("alpn", arg, ws, "") IN
    IF arg.form \in {"pair", "none"} THEN vals
    ELSE {<<s[1], c[1]>> : s \in vals, c \in vals}

\* --server and --client; a pair "l:r" stays one unknown wrapper id.
ExpandWrappers(arg) ==
    CASE arg.form = "all"   -> Wrappers
      [] arg.form = "minus" -> Wrappers \ Range(arg.toks)
      [] arg.form = "pair"  -> Range(arg.toks)
      [] OTHER -> IF Range(arg.toks) \subseteq Wrappers THEN Range(arg.toks) ELSE {}

\* The cells of the cross product of all axes.
MatrixCells(req) ==
    LET servers == ExpandWrappers(req.server)
        clients == ExpandWrappers(req.client)
        ws      == (servers \cup clients) \cap Wrappers
        mode    == CipherMode(req)
        values(axis) == ExpandAxis(axis, req[axis], ws, mode)
    IN [server : servers, client : clients,
        tls_version : values("tls_version"), cipher_suite : values("cipher_suite"),
        supported_groups : values("supported_groups"),
        signature_schemes : values("signature_schemes"),
        alpn : ExpandAlpn(req.alpn, ws),
        test_features : {req.test_features}, expect_hrr : {""}]

\* An argument taken as the value of a cell, unexpanded: a suite whose cases
\* leave a key out gives one value for it.
AsValue(axis, arg) ==
    CASE arg.form = "none" -> Unset(axis)
      [] arg.form = "pair" -> arg.toks
      [] axis \in ListDims -> <<arg.toks>>
      [] OTHER             -> <<arg.toks[1]>>

\* An explicit case of a suite file: its own keys, the arguments for the rest.
CaseCell(req, case) ==
    [k \in Axes \cup {"test_features", "expect_hrr"} |->
        CASE k \in DOMAIN case -> case[k]
          [] k = "test_features" -> req.test_features
          [] k = "expect_hrr" -> ""
          [] k \in {"server", "client"} -> req[k].toks[1]
          [] OTHER -> AsValue(k, req[k])]

\* build_matrix_combos: the axes are expanded first, and may raise, even if a
\* suite lists its cases.  The order of the cells is left out; equal cases of a
\* suite are one.
Combos(req) ==
    IF req.suite_cases = {} \/ MatrixCells(req) = {} THEN MatrixCells(req)
    ELSE {CaseCell(req, case) : case \in req.suite_cases}

-----------------------------------------------------------------------------
(* Normalisation of a cell                                                  *)

\* The value of one side: asymmetric_role_part, _pick_scalar, _pick_list.
Part(v, side) == IF Len(v) = 2 /\ side = "client" THEN v[2] ELSE v[1]

Cipher(cell, side)  == Part(cell.cipher_suite, side)
CipherModes(w, c)   == {v \in Versions : c \in Caps[w].ciphers[v]}
CellCipherModes(cell, side) == CipherModes(cell[side], Cipher(cell, side))

\* The version given, or else that of the ciphers, or else 1.3.
EffectiveMode(cell) ==
    CASE cell.tls_version[1] # "" -> cell.tls_version[1]
      [] UNION {CellCipherModes(cell, s) : s \in Sides} = {"1.2"} -> "1.2"
      [] OTHER -> "1.3"

ImpliedVersion(cell, side) ==
    LET modes == CellCipherModes(cell, side) IN
    IF Cardinality(modes) = 1 THEN CHOOSE v \in modes : TRUE ELSE ""

\* A cipher that exists in one version only sets the version of the cell.
WithImpliedVersion(cell) ==
    LET srv == ImpliedVersion(cell, "server")
        cli == ImpliedVersion(cell, "client")
        implied == IF srv # "" /\ cli # "" /\ srv # cli THEN <<srv, cli>>
                   ELSE IF srv # "" THEN <<srv>> ELSE <<cli>>
    IN IF cell.tls_version # <<"">> THEN cell
       ELSE [cell EXCEPT !.tls_version = implied]

\* A TLS 1.2 cell keeps groups and schemes only if the ARGUMENTS give them.
ClearOrthogonal(cell, req) ==
    [k \in DOMAIN cell |->
        IF k \in OrthogonalDims /\ req[k].form = "none" THEN Unset(k) ELSE cell[k]]

\* Wrong variant: the version a cipher implies is not filled in.
Normalize_NoImpliedVersion(cell, req) ==
    IF ~ {cell.server, cell.client} \subseteq Wrappers THEN cell
    ELSE [ (IF EffectiveMode(cell) = "1.2" THEN ClearOrthogonal(cell, req) ELSE cell)
           EXCEPT !.test_features = req.test_features]

\* normalize_cell_tls_micro_params: test_features always come from the arguments.
Normalize(cell, req) ==
    LET versioned == WithImpliedVersion(cell) IN
    IF ~ {cell.server, cell.client} \subseteq Wrappers THEN cell
    ELSE [ (IF EffectiveMode(versioned) = "1.2"
            THEN ClearOrthogonal(versioned, req) ELSE versioned)
           EXCEPT !.test_features = req.test_features]

-----------------------------------------------------------------------------
(* SKIP checks (CELL_SKIP_CHECKS)                                           *)

SideMode(cell, side) ==
    IF Len(cell.tls_version) = 2 /\ Part(cell.tls_version, side) # ""
    THEN Part(cell.tls_version, side) ELSE EffectiveMode(cell)

\* TLS 1.2: the groups must suit the key exchange of the cipher.
GroupsConflict(kx, groups) ==
    \/ kx = "static-rsa" /\ groups # {}
    \/ kx = "ecdhe" /\ \E g \in groups : GroupFamily[g] # "ec"
    \/ kx = "dhe"   /\ \E g \in groups : GroupFamily[g] # "ffdhe"

\* Wrong variant: only the first scheme of the list is compared.
SchemesConflict_FirstOnly(au, schemes) ==
    au # "unknown" /\ Cardinality(schemes) = 1
        /\ \E s \in schemes : SchemeFacts[s].kind # au

\* TLS 1.2: every scheme must suit the authentication of the cipher.
SchemesConflict(au, schemes) ==
    au # "unknown" /\ \E s \in schemes : SchemeFacts[s].kind # au

SemanticSkip(cell) ==
    \E side \in Sides :
        /\ SideMode(cell, side) = "1.2" /\ Cipher(cell, side) # ""
        /\ LET facts == CipherFacts[Cipher(cell, side)] IN
              \/ GroupsConflict(facts.kx, Range(Part(cell.supported_groups, side)))
              \/ SchemesConflict(facts.au, Range(Part(cell.signature_schemes, side)))

HasFeature(w, f) == f \in Caps[w].wired /\ f \in Caps[w].supported

\* The server's cipher, or else the client's, may need a feature of its own.
CipherFeature(cell) ==
    LET c == IF Cipher(cell, "server") # "" THEN Cipher(cell, "server")
                                            ELSE Cipher(cell, "client")
    IN IF c = "" THEN "" ELSE CipherFacts[c].feature

\* Wrong variant: what the ciphers need is not looked at.
FeatureSkip_EnabledOnly(cell) ==
    \E f \in cell.test_features, s \in Sides : ~ HasFeature(cell[s], f)

FeatureSkip(cell) ==
    LET needed == CipherFeature(cell) IN
    \/ \E f \in cell.test_features, s \in Sides : ~ HasFeature(cell[s], f)
    \/ needed # "" /\ needed \notin cell.test_features

\* The first server scheme, or else the server's cipher, names the PEM pair.
LeafPrefix(cell) ==
    LET schemes == Part(cell.signature_schemes, "server")
        cipher  == Cipher(cell, "server")
    IN CASE schemes # <<>> -> PrefixFor(SchemeFacts[schemes[1]].needles)
         [] cipher = ""    -> "rsa_default"
         [] OTHER          -> PrefixFor(CipherFacts[cipher].needles)

NeedsLeaf(cell) ==
    \/ Part(cell.signature_schemes, "server") # <<>>
    \/ Cipher(cell, "server") # "" /\ CipherFacts[Cipher(cell, "server")].pem

IdentitySkip(cell) == NeedsLeaf(cell) /\ LeafPrefix(cell) \notin Certs

ExpectHrrSkip(cell) ==
    /\ cell.expect_hrr \in {"true", "1", "yes"}
    /\ "expect_hrr" \in Caps[cell.client].unsupported_tls_fields

\* Wrong variant: both sides are compared with the server's version.
CipherSkip_ServerMode(cell) ==
    \E s \in Sides :
        /\ Cipher(cell, s) # ""
        /\ Cipher(cell, s) \notin Caps[cell[s]].ciphers[SideMode(cell, "server")]

CipherSkip(cell) ==
    \E s \in Sides :
        /\ Cipher(cell, s) # ""
        /\ Cipher(cell, s) \notin Caps[cell[s]].ciphers[SideMode(cell, s)]

DimensionSkip(cell) ==
    \E dim \in ListDims, s \in Sides :
        ~ Range(Part(cell[dim], s)) \subseteq Caps[cell[s]][dim]

VersionSkip(cell) ==
    /\ Len(cell.tls_version) = 1 /\ cell.tls_version[1] # ""
    /\ \E s \in Sides : /\ Caps[cell[s]].tls_version # {}
                        /\ SideMode(cell, s) \notin Caps[cell[s]].tls_version

\* cell_capability_skip_reason of a normalised cell; an unknown wrapper id has
\* no capabilities.json.
Skipped(cell) ==
    {cell.server, cell.client} \subseteq Wrappers =>
        \/ SemanticSkip(cell) \/ FeatureSkip(cell) \/ IdentitySkip(cell)
        \/ ExpectHrrSkip(cell) \/ CipherSkip(cell) \/ DimensionSkip(cell)
        \/ VersionSkip(cell)

-----------------------------------------------------------------------------
(* What an executed cell sends                                              *)

Given(x, default) == IF x # "" THEN x ELSE default

\* The certificate of the server's config; a backend may not take one.
SentLeaf(cell) ==
    IF /\ LeafPrefix(cell) \in Certs
       /\ Caps[cell.server].unsupported_tls_fields \cap {"certificate", "private_key"} = {}
    THEN LeafPrefix(cell) ELSE ""

\* tls_config_from_cell without the TLS port.
TlsConfig(cell, side) ==
    [version           |-> Given(Part(cell.tls_version, side), "1.3"),
     cipher_suite      |-> Cipher(cell, side),
     supported_groups  |-> Part(cell.supported_groups, side),
     signature_schemes |-> Part(cell.signature_schemes, side),
     signature_schemes_cert |->
         Part(cell.signature_schemes, CHOOSE other \in Sides : other # side),
     alpn              |-> Part(cell.alpn, side),
     psk_modes         |-> cell.test_features,
     expect_hrr        |-> side = "client" /\ cell.expect_hrr = "true",
     leaf              |-> IF side = "server" THEN SentLeaf(cell) ELSE ""]

-----------------------------------------------------------------------------
(* main()                                                                   *)

Init ==
    /\ args \in Requests
    /\ phase = "expand" /\ combos = {}
    /\ backends = {} /\ ran = {} /\ skips = {}

\* build_matrix_combos, or the ValueError of an axis.
Expand ==
    /\ phase = "expand"
    /\ combos' = Combos(args)
    /\ phase' = IF combos' = {} THEN "failed" ELSE "plan"
    /\ UNCHANGED <<args, backends, ran, skips>>

\* Wrong variant: every wrapper that is named is started.
RequiredBackends_Named == UNION {{raw.server, raw.client} : raw \in combos}

\* Wrong variant: the plan looks at the raw cells.
RequiredBackends_Raw ==
    UNION {{c.server, c.client} \cap Wrappers : c \in {d \in combos : ~ Skipped(d)}}

\* required_backends_from_matrix
RequiredBackends ==
    LET cells == {Normalize(raw, args) : raw \in combos} IN
    UNION {{c.server, c.client} \cap Wrappers : c \in {d \in cells : ~ Skipped(d)}}

PlanBackends ==
    /\ phase = "plan"
    /\ backends' = RequiredBackends
    /\ phase' = "run"
    /\ UNCHANGED <<args, combos, ran, skips>>

\* The next raw cell and what run_matrix_cell makes of it.
Todo == combos \ {x[1] : x \in ran \cup skips}
Raw  == CHOOSE raw \in Todo : TRUE
Cell == Normalize(Raw, args)

Advance ==
    /\ phase' = IF Todo = {Raw} THEN "done" ELSE "run"
    /\ UNCHANGED <<args, combos, backends>>

SkipCell ==
    /\ phase = "run" /\ Skipped(Cell)
    /\ skips' = skips \cup {<<Raw, Cell>>}
    /\ UNCHANGED ran
    /\ Advance

ExecuteCell ==
    /\ phase = "run" /\ ~ Skipped(Cell)
    /\ ran' = ran \cup {<<Raw, Cell>>}
    /\ UNCHANGED skips
    /\ Advance

Done == phase \in {"done", "failed"} /\ UNCHANGED vars

Next == Expand \/ PlanBackends \/ SkipCell \/ ExecuteCell \/ Done

Spec == Init /\ [][Next]_vars

-----------------------------------------------------------------------------
(* Properties                                                               *)

(* Type invariant: only planned cells are run or skipped, and only known     *)
(* wrappers are started.                                                     *)
TypeOK ==
    /\ phase \in {"expand", "plan", "run", "done", "failed"}
    /\ {x[1] : x \in ran \cup skips} \subseteq combos
    /\ backends \subseteq Wrappers
    /\ \A x \in ran \cup skips : DOMAIN x[2] = DOMAIN x[1]

(* The plan made before the session starts and the decision made again for   *)
(* each cell agree: an executed cell finds both its wrappers in the session  *)
(* (else grpc_addr raises KeyError), and no wrapper is started in vain.      *)
SessionHasWrappers ==
    /\ \A x \in ran : {x[2].server, x[2].client} \subseteq backends
    /\ phase = "done" => backends = UNION {{x[2].server, x[2].client} : x \in ran}

\* A version is missing on one side only ("1.2:"): then the checks take the
\* other side's version and the config of that side falls back to 1.3.
HalfVersion(cell) ==
    Len(cell.tls_version) = 2 /\ "" \in Range(cell.tls_version)

\* The wrapper of this side declares everything its config asks for.
Offers(w, cfg) ==
    /\ cfg.cipher_suite # "" => cfg.cipher_suite \in Caps[w].ciphers[cfg.version]
    /\ \A dim \in ListDims : Range(cfg[dim]) \subseteq Caps[w][dim]
    /\ \A f \in cfg.psk_modes : HasFeature(w, f)

(* What the checks look at is what is sent: each wrapper of an executed cell *)
(* declares the cipher of its TlsConfig for the version in that TlsConfig,   *)
(* and its groups, schemes, ALPN ids and features.                           *)
SentIsSupported ==
    \A x \in ran : ~ HalfVersion(x[2]) =>
        \A s \in Sides : Offers(x[2][s], TlsConfig(x[2], s))

(* A server that takes a PEM pair is sent one whenever the cell needs it,    *)
(* and in TLS 1.2 its key is of the kind the cipher authenticates with.      *)
LeafSuitsCipher ==
    \A x \in ran :
        LET cfg == TlsConfig(x[2], "server") IN
        NeedsLeaf(x[2]) /\ Caps[x[2].server].unsupported_tls_fields = {} =>
            /\ cfg.leaf # ""
            /\ cfg.version = "1.2" /\ cfg.cipher_suite # ""
                  /\ CipherFacts[cfg.cipher_suite].au # "unknown" =>
                     KindOfLeaf[cfg.leaf] = CipherFacts[cfg.cipher_suite].au

\* In TLS 1.2 the groups and schemes of a config contradict its cipher.
Contradictory(cfg) ==
    /\ cfg.version = "1.2" /\ cfg.cipher_suite # ""
    /\ LET facts == CipherFacts[cfg.cipher_suite] IN
          \/ GroupsConflict(facts.kx, Range(cfg.supported_groups))
          \/ SchemesConflict(facts.au, Range(cfg.signature_schemes))

\* The key a scheme signs with.
KeyOfScheme ==
    [rsa_pss |-> "rsa", rsa_pure |-> "rsa-pss", ecdsa |-> "ecdsa",
     ecdsa384 |-> "ecdsa", ed25519 |-> "eddsa", mldsa44 |-> "mldsa"]

(* The leaf of an executed cell has the key of the first scheme its server   *)
(* may sign with: no rule for names takes another's scheme ("keep specific   *)
(* before general", identity.py:12).                                         *)
LeafSuitsScheme ==
    \A x \in ran :
        LET schemes == TlsConfig(x[2], "server").signature_schemes IN
        schemes # <<>> => KindOfLeaf[LeafPrefix(x[2])] = KeyOfScheme[schemes[1]]

(* Nothing that could run is skipped: of a skipped cell one side's config is *)
(* not offered by its wrapper or contradicts itself, or a credential (a      *)
(* feature, a PEM pair, the HRR observation) is missing.                     *)
SkippedIsUnfit ==
    \A x \in skips :
        LET c == x[2] IN
        \/ ~ {c.server, c.client} \subseteq Wrappers
        \/ HalfVersion(c)
        \/ \E s \in Sides : ~ Offers(c[s], TlsConfig(c, s)) \/ Contradictory(TlsConfig(c, s))
        \/ CipherFeature(c) \notin c.test_features \cup {""}
        \/ NeedsLeaf(c) /\ LeafPrefix(c) \notin Certs
        \/ "expect_hrr" \in Caps[c.client].unsupported_tls_fields /\ c.expect_hrr # ""

\* A matrix of one version: named alone, or the same on both sides.
OneVersion(req) ==
    \/ req.tls_version.form = "list" /\ Len(req.tls_version.toks) = 1
    \/ req.tls_version.form = "pair" /\ req.tls_version.toks[1] = req.tls_version.toks[2]

(* `ALL` ciphers of a matrix of one version: every cipher that a server and  *)
(* a client both declare for it gets a cell, and no cell has a cipher that   *)
(* none of the wrappers of the matrix declares for it.                       *)
AllCiphersPlanned ==
    /\ phase = "plan" /\ args.suite_cases = {}
    /\ args.cipher_suite.form = "all" /\ OneVersion(args)
    =>
    LET mode == args.tls_version.toks[1]
        ws   == UNION {{c.server, c.client} : c \in combos} \cap Wrappers
        of(c) == UNION {Caps[w].ciphers[mode] : w \in ws \cap {c.server, c.client}}
    IN /\ \A c \in combos : \E w \in ws : Cipher(c, "server") \in Caps[w].ciphers[mode]
       /\ \A c \in combos : \A k \in of(c) :
             \E d \in combos : /\ d.server = c.server /\ d.client = c.client
                                      /\ Cipher(d, "server") = k

(* What a suite file says of a cell reaches the cell: no value given by the  *)
(* arguments or by the case is lost on the way to its configs                *)
(* ("values come from the file").                                            *)
ValuesReachCell ==
    \A x \in ran :
        /\ x[2].test_features = x[1].test_features
        /\ \A dim \in OrthogonalDims : x[2][dim] = x[1][dim]
=============================================================================
