\* U32Max = 2 gives three row indices and lets a duration be one less than,
\* equal to and beyond u32::MAX; U64Max = 4 lets one reach u64::MAX.
CONSTANTS
    U32Max = 2
    U64Max = 4
    Data = {d1, d2}
    Open = Open
SPECIFICATION Spec
INVARIANTS TypeOK WideExactlyWhenNeeded
PROPERTIES ImplementsCompletedNotes
CHECK_DEADLOCK FALSE
