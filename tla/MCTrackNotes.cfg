\* Six notes let two keys overlap, release both queues and use one again.
\* Starts 0 and 1 are packed, 2 = u32::MAX is the marker, 3 is beyond u32.
CONSTANTS
    Keys = {k1, k2}
    U32Max = 2
    MaxTime = 3
    MaxNotes = 6
    Free = Free
SYMMETRY KeySymmetry
SPECIFICATION Spec
INVARIANTS TypeOK ListsAreQueues HeadersConserved FreeSlotHasNoQueue
PROPERTIES ImplementsNoteFifo
CHECK_DEADLOCK FALSE
