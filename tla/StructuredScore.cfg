CONSTANTS
    Files <- GeneratedFiles
    Limits <- FiniteLimits
SPECIFICATION Spec
INVARIANTS GeneratedScoresAgree
CHECK_DEADLOCK FALSE
