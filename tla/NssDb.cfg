\* A serial run and a wrapper started by hand share the default path.
CONSTANTS
    Wrappers = {"serial", "byhand", "slot1"}
    SlotOf <- Slots
    NoSlot = NoSlot
    NumIdentities = 3
    NoOne = NoOne
SPECIFICATION Spec
INVARIANTS TypeOK BuildsAlone InUseIsComplete OnlyLastUntrusted
