SPECIFICATION Spec
CONSTANT Environments <- SwitchingDecommit
INVARIANT AlwaysCoalesced
