CONSTANTS
    m1 = m1
    m2 = m2
    m3 = m3
    c1 = c1
    Mutations = {m1, m2, m3}
    Coordinators = {c1}
    None = None
    MaxRenames = 2
    MaxReservations = 2
SPECIFICATION Spec
SYMMETRY Symmetry
CHECK_DEADLOCK FALSE
PROPERTIES
    NoLostUpdate
