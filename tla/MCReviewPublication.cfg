CONSTANTS
    r1 = r1
    r2 = r2
    Reviews = {r1, r2}
    None = None
    MaxRenames = 2
    MaxReceipts = 1
SPECIFICATION FairSpec
CHECK_DEADLOCK FALSE
INVARIANTS
    TypeOK
    ReportsTruth
    StoreKeepsItsBound
PROPERTIES
    ReceiptUnderCustody
    FinalizationEnds
    LateSettlementReturnsCustody
