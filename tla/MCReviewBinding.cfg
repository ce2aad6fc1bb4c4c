CONSTANTS
    p1 = p1
    p2 = p2
    t1 = t1
    t2 = t2
    main = main
    gone = gone
    h1 = h1
    h2 = h2
    w1 = w1
    Paths = {p1, p2}
    Texts = {t1, t2}
    Targets = {main, gone}
    Heads = {h1, h2}
    Clean = Clean
    Review = Review
    Writers = {w1}
    None = None
    MaxAttempts = 2
    MaxWrites = 3
SYMMETRY Symmetry
SPECIFICATION Spec
CHECK_DEADLOCK FALSE
INVARIANTS
    TypeOK
    ExactExisted
    BoundIntervalHeld
    BoundSubjectIsCurrent
    MutationIsReal
