CONSTANTS
    Files <- MCFiles
    Limits <- MCLimits
SPECIFICATION Spec
INVARIANTS TypeOK FirstFaultWins BoundedIsTrusted StrictImpliesCompatible CompatibleStopsAtEot
CHECK_DEADLOCK FALSE
