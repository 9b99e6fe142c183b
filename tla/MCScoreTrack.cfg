\* Events are one tick apart, so a time identifies an event.  With U32Max = 2
\* the fourth event starts beyond u32 and the third start is the packed marker.
CONSTANTS
    U32Max = 2
    U64Max = 8
    Channels = {0, 1}
    Programs = 2
    Events <- MCEvents
    Deltas = {1}
    MaxEvents = 6
    Free = Free
    NotHeld = NotHeld
SPECIFICATION Spec
INVARIANTS TypeOK GroupsIndexed DanglingRowsSound TracksMatchEvents
CHECK_DEADLOCK FALSE
