SPECIFICATION Spec
CONSTANTS
    Wrappers <- AllWrappers
    Caps <- FullCaps
    Certs <- AllCerts
    Requests <- Suites
    PskKeys <- AllWrappers
    NssImports <- WithoutEd
INVARIANT ValuesReachCell
