CONSTANTS
    e1 = e1
    e2 = e2
    c1 = c1
    c2 = c2
    Executions = {e1, e2}
    ReviewExecutions = {}
    Coordinators = {c1, c2}
    None = None
    HostFaults = TRUE
    CleanupFaults = FALSE
    MaxAttempts = 2
SPECIFICATION Spec
SYMMETRY Symmetry
CHECK_DEADLOCK FALSE
INVARIANTS
    TypeOK
    ChildIsOwner
    ActingIsOwner
    HelperUnderDurableTermination
PROPERTIES
    ImplementsExclusiveCustody
    ForcedTerminationStaysHome
