CONSTANTS
    TerminationTimeout = 4
    CloseReserve = 1
SPECIFICATION FairSpec
CHECK_DEADLOCK FALSE
INVARIANTS
    TypeOK
    AskedAtMostOnce
    NeverLeftUnasked
PROPERTIES
    ImplementsBoundedCommand
    NothingAskedAfterAnswer
    EveryCallIsAnswered
