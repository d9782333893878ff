\* One key, three requests at once, and a budget they can overrun.
CONSTANTS
    Max = 2
    Window = 3
    Keys = {k1}
    NoKey = NoKey
    Requests = {r1, r2, r3}
SPECIFICATION FairSpec
INVARIANTS SendCap BadTokenCap LockoutIsEarned
PROPERTY BudgetReturns
