SPECIFICATION Spec
CONSTANTS
    Wrappers <- AllWrappers
    Caps <- FullCaps
    Certs <- AllCerts
    Requests <- AllRequests
    PskKeys <- AllWrappers
    NssImports <- WithoutEd
INVARIANTS
    TypeOK
    SessionHasWrappers
    SentIsSupported
    
    
    
    AllCiphersPlanned
    NoLateSkip
    ServedLeafIsChecked
    
