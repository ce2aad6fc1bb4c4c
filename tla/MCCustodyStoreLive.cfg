CONSTANTS
    m1 = m1
    m2 = m2
    c1 = c1
    c2 = c2
    Mutations = {m1, m2}
    Coordinators = {c1, c2}
    None = None
    MaxRenames = 2
    MaxReservations = 2
SPECIFICATION FairSpec
CHECK_DEADLOCK FALSE
PROPERTIES
    EveryMutationSettles
