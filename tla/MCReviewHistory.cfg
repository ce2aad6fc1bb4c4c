CONSTANTS
    Reviews = {1, 2, 3}
    now = now
    old = old
    older = older
    ours = ours
    other = other
    ChangeSets = {now, old, older}
    Current = now
    Scopes = {ours, other}
    Scope <- MCScope
    Ours = ours
    Result <- MCResult
    Evidenced <- MCEvidenced
    MaxReceipts = 2
    MaxPointers = 1
    MaxDiscovered = 2
    MaxChangeSets = 2
    MaxLoads = 2
SPECIFICATION Spec
SYMMETRY Symmetry
CHECK_DEADLOCK FALSE
INVARIANTS
    TypeOK
    CompleteHistoryMissesNothing
    SelectedAlone
    NoneFoundIsNone
    ReceiptHasArtifact
    NewestPointersSurvive
