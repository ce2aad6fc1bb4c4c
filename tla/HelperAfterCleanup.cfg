CONSTANTS
    e1 = e1
    e2 = e2
    c1 = c1
    c2 = c2
    Executions = {e1, e2}
    ReviewExecutions = {}
    Coordinators = {c1, c2}
    None = None
    HostFaults = FALSE
    CleanupFaults = TRUE
    MaxAttempts = 2
SPECIFICATION Spec
SYMMETRY Symmetry
CHECK_DEADLOCK FALSE
INVARIANTS
    HandoffAwaitsHelper
