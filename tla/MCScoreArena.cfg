CONSTANTS
    Inputs <- MCInputs
    Columns <- MCColumns
    U32Max = 4
    Readers = {r1, r2, r3}
    NoReader = NoReader
SPECIFICATION Spec
INVARIANTS TypeOK TracksReadOwnGroup NotesWholeAndOnce
PROPERTIES HeapGrowsOnce NotesReturns
CHECK_DEADLOCK FALSE
