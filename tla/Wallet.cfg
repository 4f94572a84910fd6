SPECIFICATION Spec
CONSTANTS
    Workers = {r1, r2}
    Amounts = {1, 2}
    Rates = {0, 5000}
    MaxCalls = 4
INVARIANT TypeOK
INVARIANT NeverNegative
INVARIANT Recomputable
CHECK_DEADLOCK FALSE
