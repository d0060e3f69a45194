SPECIFICATION Spec
CONSTANTS
    Worker = {w1, w2}
    Employee = {e1, e2, e3}
    None = None
    MaxCalls <- MCMaxCalls
    MaxAborts = 1
    Asset = {a1, a2}
    Assignment = {k1, k2, k3}
    Claim = {c1}
    OnboardingSession = {s1}
    TotalSteps = 3
    Slot = {k1, k2, k3}
    LastDate = 1
    Application = {p1}
    Round = {1}
    Goal = {k1, k2, k3}
    Full = 2
    Weights = {1, 2}
    Ratings = {1, 2}
    Course = {c1, c2}
    Email = {m1, m2, m3}
    Founder = m1
    Secret = {k1, k2, k3}
SYMMETRY Symmetry
CHECK_DEADLOCK FALSE
INVARIANTS
    HoldersBounded
    OneOpenShift
    NoStageIsSkipped
    WeightBounded
    
    ChartIsComplete
    FactorIsHeld
    PagesAreUnderstood
PROPERTIES
    DecisionsAreKept
    StepsAreKept
    OutcomeIsFinal
    ProgressIsKept
