CONSTANTS
    Chars <- MCChars
    Bytes <- MCBytes
    MaxBytes = 5
    MaxTexts = 2
    TextLimits = {2, 5}
    Unlimited = 1000
    U32Max = 7
SPECIFICATION Spec
INVARIANTS TypeOK TextsReadBack BudgetExact
CHECK_DEADLOCK FALSE
