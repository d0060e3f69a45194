SPECIFICATION Spec
CONSTANTS
    c1 = c1
    c2 = c2
    c3 = c3
    t1 = t1
    t2 = t2
    Call = {c1, c2, c3}
    Tab = {t1, t2}
    TabOf <- MCTabOf
    Jti = {1, 2, 3, 4}
    None = None
    Resetter = {x1}
    MaxFailed = 5
    MaxCalls = 2
    MaxMishaps = 0
    Resets = FALSE
CHECK_DEADLOCK FALSE
INVARIANTS
    LockedByAttempts
