CONSTANTS
    e1 = e1
    e2 = e2
    c1 = c1
    c2 = c2
    Executions = {e1, e2}
    ReviewExecutions = {e1}
    Coordinators = {c1, c2}
    None = None
    HostFaults = TRUE
    CleanupFaults = FALSE
    MaxAttempts = 2
SPECIFICATION Spec
SYMMETRY CoordinatorSymmetry
CHECK_DEADLOCK FALSE
INVARIANTS
    HelperUnderDurableTermination
