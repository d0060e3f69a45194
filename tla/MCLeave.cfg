SPECIFICATION Spec
CONSTANTS
    Worker = {w1, w2}
    Request = {r1, r2}
    None = None
    Duration = {0, 1, 2}
    MaxDuration = 2
    Opening = 2
    Accrual = 1
    MaxCredits = 1
    MaxAborts = 1
    MaxCalls = 6
SYMMETRY Symmetry
CHECK_DEADLOCK FALSE
INVARIANTS
    TypeOK
    OverdraftBounded
    ApprovedByWholeChain
    DebitedOnceUnlessOverlapped
    BalanceMatchesRequests
    TakenBackedByDebits
    SlaJobsCurrent
