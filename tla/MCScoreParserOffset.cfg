CONSTANTS
    Files <- MCFiles
    Limits <- MCLimits
SPECIFICATION Spec
INVARIANTS LimitErrorAtDelta
CHECK_DEADLOCK FALSE
