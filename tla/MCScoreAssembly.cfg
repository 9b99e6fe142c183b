\* A start of 9 or more does not fit u32; two delta times of 9 do not fit u64.
CONSTANTS
    U32Max = 8
    U64Max = 17
    Channels = {0, 9}
    Programs = 2
    Events <- MCEvents
    Files <- MCFiles
    Free = Free
    NotHeld = NotHeld
SPECIFICATION Spec
INVARIANTS TypeOK GlobalsInOrder RecordsMatchFile RefusedAtFirstError
CHECK_DEADLOCK FALSE
