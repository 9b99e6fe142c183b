------------------------------ MODULE NoteBuilder ------------------------------
(***************************************************************************)
(* The life of one NoteColumnsBuilder: the track's clock advances, a       *)
(* note-on pushes a row, a note-off completes a row that is still open,    *)
(* and the end of the track turns the column into a NoteSegment.  Which    *)
(* open row a note-off completes is the business of ScoreTrack; here it is *)
(* any open one.  NoteBuilder implements CompletedNotes.                   *)
(***************************************************************************)
EXTENDS NoteColumns

CONSTANTS
    Data,       \* the pitch and velocity of a note, opaque
    Open        \* the duration CompletedNotes gives to a note that has not ended

ASSUME OpenAssumption == Open \notin 0..U64Max

VARIABLES
    now,        \* the tick time of the event being applied (u64)
    columns,    \* the builder
    phase,      \* "building", then "published" or, on SizeOverflow, "overflow"
    segment     \* the NoteSegment, once there is one

vars == <<now, columns, phase, segment>>

(* Every row index fits u32 and every time and duration fits u64. *)
TypeOK ==
    /\ now \in 0..U64Max
    /\ columns \in Columns(Data)
    /\ columns.maxDone \subseteq DOMAIN columns.rows
    /\ phase \in {"building", "published", "overflow"}
    /\ Len(columns.rows) <= U32Max + 1

Init ==
    /\ now = 0
    /\ columns = EmptyColumns
    /\ phase = "building"
    /\ segment = [wide |-> FALSE, rows |-> <<>>]

(* A delta time moves the clock. *)
Advance(t) ==
    /\ phase = "building"
    /\ now < t
    /\ now' = t
    /\ UNCHANGED <<columns, phase, segment>>

NoteOn(data) ==
    /\ phase = "building"
    /\ CanPush(columns)
    /\ columns' = Push(columns, now, data)
    /\ UNCHANGED <<now, phase, segment>>

NoteOnOverflow ==
    /\ phase = "building"
    /\ ~CanPush(columns)
    /\ phase' = "overflow"
    /\ UNCHANGED <<now, columns, segment>>

NoteOff(i) ==
    /\ phase = "building"
    /\ IsDangling(columns, i)
    /\ columns' = Complete(columns, i, now - columns.rows[i].time)
    /\ UNCHANGED <<now, phase, segment>>

Finish ==
    /\ phase = "building"
    /\ phase' = "published"
    /\ segment' = IntoSegment(columns)
    /\ UNCHANGED <<now, columns>>

Next ==
    \/ \E t \in 0..U64Max : Advance(t)
    \/ \E data \in Data : NoteOn(data)
    \/ \E i \in DOMAIN columns.rows : NoteOff(i)
    \/ NoteOnOverflow
    \/ Finish

Spec == Init /\ [][Next]_vars

--------------------------------------------------------------------------------
(***************************************************************************)
(* What the column means: a dangling row is an open note, any other row is *)
(* a note that ended with the duration the row holds.                      *)
(***************************************************************************)
NoteAt(col, i) == [time     |-> col.rows[i].time,
                   duration |-> IF IsDangling(col, i) THEN Open ELSE col.rows[i].duration,
                   data     |-> col.rows[i].data]

NotesOf(col) == [i \in DOMAIN col.rows |-> NoteAt(col, i)]

Promise == INSTANCE CompletedNotes WITH
    MaxTime <- U64Max, MaxIndex <- U32Max,
    notes <- NotesOf(columns), published <- segment.rows

(* The column implements CompletedNotes: whatever promotions happen and    *)
(* whatever durations equal a marker, each note ends exactly when it is    *)
(* completed, its timing never changes afterwards, and the segment holds   *)
(* exactly the completed notes in start order (push, complete,             *)
(* promote_to_wide, into_segment).                                         *)
ImplementsCompletedNotes == Promise!Spec

(* The column is wide exactly when a time or a completed duration needs    *)
(* it: a narrow column never truncates one, and a wide column never pays   *)
(* for a width no note asked for (push, complete).                         *)
WideExactlyWhenNeeded ==
    columns.wide <=> \E i \in DOMAIN columns.rows :
                        \/ columns.rows[i].time > U32Max
                        \/ ~IsDangling(columns, i) /\ columns.rows[i].duration > U32Max

================================================================================
