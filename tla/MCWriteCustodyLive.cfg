CONSTANTS
    e1 = e1
    e2 = e2
    c1 = c1
    Executions = {e1, e2}
    ReviewExecutions = {e1}
    Coordinators = {c1}
    None = None
    HostFaults = FALSE
    CleanupFaults = TRUE
    MaxAttempts = 2
SPECIFICATION FairSpec
CHECK_DEADLOCK FALSE
INVARIANTS
    NothingAbandoned
PROPERTIES
    EveryDelegationEnds
    ProvenCloseReturnsCustody
