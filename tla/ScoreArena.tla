------------------------------- MODULE ScoreArena ------------------------------
(***************************************************************************)
(* TickScore as a store: the end of ScoreTrackBuilder::finish, which moves *)
(* the columns of one group after the other into the columns of the score  *)
(* and keeps u32 ranges of them, and then the finished score, shared by    *)
(* threads that read its ranges, its size and its global list of notes.    *)
(* That list, notes(), is built by the first reader that asks for it, in a *)
(* OnceLock the others wait on.                                            *)
(*                                                                         *)
(* An item of a column is <<group, index>>, so that a range that reads     *)
(* another track's items is seen.  The four columns besides the notes are  *)
(* filled by the same function; Columns names as many as the bounds want.  *)
(***************************************************************************)
EXTENDS Integers, Sequences, FiniteSets, SequencesExt

CONSTANTS
    Inputs,     \* bound: sequences of groups, each a column -> its length
    Columns,    \* the columns besides the notes, in the order of finish
    U32Max,     \* the greatest u32, made small
    Readers,    \* threads that share the finished score
    NoReader    \* not one of them

ASSUME ArenaAssumption ==
    /\ U32Max \in Nat
    /\ NoReader \notin Readers

ColumnNames == {Columns[i] : i \in DOMAIN Columns}

(* The columns are different fields, and every group has a vector for each. *)
ASSUME ColumnAssumption ==
    /\ Columns \in Seq(STRING \ {"notes"})
    /\ \A i, j \in DOMAIN Columns : Columns[i] = Columns[j] => i = j
    /\ Inputs \subseteq Seq([ColumnNames \cup {"notes"} -> Nat])

VARIABLES
    groups,     \* the non-empty groups of the file, in the order of finish
    phase,      \* building, shared or failed
    segments,   \* note_segments: the notes of each track
    noteCount,  \* note_count
    columns,    \* column -> its items
    ranges,     \* the ranges of the group under way, notes first
    tracks,     \* the tracks pushed, each its ranges
    once,       \* the state of the OnceLock: empty, running or complete
    filler,     \* the reader that runs the closure of notes()
    list,       \* the vector the closure fills
    filled,     \* the segments it has taken
    pc,         \* reader -> where it is in notes()
    seen,       \* reader -> what its last notes() returned
    size        \* reader -> what its last heap_bytes() counted

score == <<groups, phase, segments, noteCount, columns, ranges, tracks>>
cache == <<once, filler, list, filled>>
calls == <<pc, seen, size>>
vars == <<score, cache, calls>>

Items(g, n) == [i \in 1..n |-> <<g, i>>]
Group == Len(tracks) + 1
ScoreRange(start, len) == [start |-> start, len |-> len]

(* track_notes, track_controls, ...: the slice under a range, if it exists. *)
Reads(s, r, items) ==
    r.start + r.len <= Len(s) /\ SubSeq(s, r.start + 1, r.start + r.len) = items

Init ==
    /\ groups \in Inputs
    /\ phase = "building"
    /\ segments = <<>> /\ noteCount = 0
    /\ columns = [c \in ColumnNames |-> <<>>]
    /\ ranges = <<>> /\ tracks = <<>>
    /\ once = "empty" /\ filler = NoReader /\ list = <<>> /\ filled = 0
    /\ pc = [r \in Readers |-> "idle"]
    /\ seen = [r \in Readers |-> <<>>]
    /\ size = [r \in Readers |-> 0]

--------------------------------------------------------------------------------
(* Any start, length or end beyond u32 is a SizeOverflow: nothing is       *)
(* appended and the score under way is dropped.                            *)
Overflow ==
    /\ phase' = "failed"
    /\ UNCHANGED <<groups, segments, noteCount, columns, ranges, tracks>>

(* Mutant: only the start of the range is checked. *)
StartFits(start, len) == start <= U32Max

Fits(start, len) == start <= U32Max /\ len <= U32Max /\ start + len <= U32Max

(* Mutant: the range starts at the count of segments. *)
PushNoteSegmentByIndex ==
    LET len == groups[Group]["notes"]
    IN  IF ~Fits(noteCount, len) THEN Overflow
        ELSE /\ noteCount' = noteCount + len
             /\ segments' = Append(segments, Items(Group, len))
             /\ ranges' = <<ScoreRange(Len(segments), len)>>
             /\ UNCHANGED <<groups, phase, columns, tracks>>

PushNoteSegment ==
    LET len == groups[Group]["notes"]
    IN  IF ~Fits(noteCount, len) THEN Overflow
        ELSE /\ noteCount' = noteCount + len
             /\ segments' = Append(segments, Items(Group, len))
             /\ ranges' = <<ScoreRange(noteCount, len)>>
             /\ UNCHANGED <<groups, phase, columns, tracks>>

AppendColumn(c) ==
    LET start == Len(columns[c])
        len == groups[Group][c]
    IN  IF ~Fits(start, len) THEN Overflow
        ELSE /\ columns' = [columns EXCEPT ![c] = @ \o Items(Group, len)]
             /\ ranges' = Append(ranges, ScoreRange(start, len))
             /\ UNCHANGED <<groups, phase, segments, noteCount, tracks>>

PushTrack ==
    /\ tracks' = Append(tracks, ranges)
    /\ ranges' = <<>>
    /\ UNCHANGED <<groups, phase, segments, noteCount, columns>>

(* The calls of finish for one group, in their order. *)
FinishGroup ==
    /\ phase = "building" /\ Group <= Len(groups)
    /\ \/ ranges = <<>> /\ PushNoteSegment
       \/ Len(ranges) \in DOMAIN Columns /\ AppendColumn(Columns[Len(ranges)])
       \/ Len(ranges) = Len(Columns) + 1 /\ PushTrack
    /\ UNCHANGED <<cache, calls>>

(* The parser returns the score; the caller shares it. *)
Share ==
    /\ phase = "building" /\ Group > Len(groups)
    /\ phase' = "shared"
    /\ UNCHANGED <<groups, segments, noteCount, columns, ranges, tracks, cache, calls>>

--------------------------------------------------------------------------------
(* notes() by several threads: OnceLock::get_or_init. *)

Call(r) ==
    /\ phase = "shared" /\ pc[r] = "idle"
    /\ pc' = [pc EXCEPT ![r] = "get"]
    /\ UNCHANGED <<score, cache, seen, size>>

Return(r) ==
    /\ pc' = [pc EXCEPT ![r] = "idle"]
    /\ seen' = [seen EXCEPT ![r] = list]
    /\ UNCHANGED <<score, size>>

(* The value if there is one, else the slow path. *)
Get(r) ==
    /\ pc[r] = "get"
    /\ IF once = "complete" THEN Return(r)
       ELSE pc' = [pc EXCEPT ![r] = "initialize"] /\ UNCHANGED <<score, seen, size>>
    /\ UNCHANGED cache

(* One thread runs the closure, the others wait until it is complete. *)
Initialize(r) ==
    /\ pc[r] = "initialize"
    /\ \/ /\ once = "empty"
          /\ once' = "running" /\ filler' = r /\ filled' = 0
          /\ pc' = [pc EXCEPT ![r] = "fill"]
          /\ UNCHANGED <<score, list, seen, size>>
       \/ once = "complete" /\ Return(r) /\ UNCHANGED cache

(* Mutant: a segment is put before those already there. *)
FillInFront(r) ==
    /\ pc[r] = "fill" /\ filled < Len(segments)
    /\ list' = segments[filled + 1] \o list
    /\ filled' = filled + 1
    /\ UNCHANGED <<score, once, filler, calls>>

(* Mutant: the loop does not get past a track without notes. *)
FillUntilEmpty(r) ==
    /\ pc[r] = "fill" /\ filled < Len(segments)
    /\ segments[filled + 1] # <<>>
    /\ list' = list \o segments[filled + 1]
    /\ filled' = filled + 1
    /\ UNCHANGED <<score, once, filler, calls>>

(* The loop of the closure: extend with the next segment. *)
Fill(r) ==
    /\ pc[r] = "fill" /\ filled < Len(segments)
    /\ list' = list \o segments[filled + 1]
    /\ filled' = filled + 1
    /\ UNCHANGED <<score, once, filler, calls>>

Publish(r) ==
    /\ pc[r] = "fill" /\ filled = Len(segments)
    /\ once' = "complete" /\ filler' = NoReader
    /\ UNCHANGED <<list, filled>>
    /\ Return(r)

(* Mutant: the notes of a list that is still being filled are counted. *)
CachedNow == Len(list)

(* The notes of the cache, if it is there. *)
Cached == IF once = "complete" THEN Len(list) ELSE 0

(* The items of the columns besides the notes. *)
OtherItems == FlattenSeq([i \in DOMAIN Columns |-> columns[Columns[i]]])

(* heap_bytes: notes in their segments, notes of the cache, other items. *)
HeapBytes(r) ==
    /\ phase = "shared" /\ pc[r] = "idle"
    /\ size' = [size EXCEPT ![r] = Len(FlattenSeq(segments)) + Cached + Len(OtherItems)]
    /\ UNCHANGED <<score, cache, pc, seen>>

InNotes(r) == Get(r) \/ Initialize(r) \/ Fill(r) \/ Publish(r)
Next == FinishGroup \/ Share \/ \E r \in Readers : Call(r) \/ InNotes(r) \/ HeapBytes(r)

(* The parser and each thread that is in a call go on; nobody must call.   *)
Fairness == WF_vars(FinishGroup \/ Share) /\ \A r \in Readers : WF_vars(InNotes(r))

Spec == Init /\ [][Next]_vars /\ Fairness

--------------------------------------------------------------------------------
(* Lengths and counts fit u32: what would not is refused before it is      *)
(* appended (push_note_segment, append_column).                            *)
TypeOK ==
    /\ phase \in {"building", "shared", "failed"}
    /\ noteCount \in 0..U32Max
    /\ \A c \in ColumnNames : Len(columns[c]) \in 0..U32Max
    /\ once \in {"empty", "running", "complete"}
    /\ filler \in Readers \cup {NoReader} /\ filled \in 0..Len(segments)
    /\ pc \in [Readers -> {"idle", "get", "initialize", "fill"}]

(* What a track's range reads of a column, of all the notes for the notes. *)
AllNotes == FlattenSeq(segments)
RangeOf(t, c) ==
    IF c = "notes" THEN tracks[t][1] ELSE tracks[t][1 + CHOOSE i \in DOMAIN Columns : Columns[i] = c]
Column(c) == IF c = "notes" THEN AllNotes ELSE columns[c]

Under(i, r) == r.start < i /\ i <= r.start + r.len

(* Each track reads its own group through its ranges, in every column, and *)
(* every item of a shared score is under the range of some track: the rows *)
(* of the global list under a track's range are the rows of the track's    *)
(* own segment (track_notes against notes(), track_controls, ...).         *)
TracksReadOwnGroup ==
    \A c \in ColumnNames \cup {"notes"} :
        /\ \A t \in DOMAIN tracks : Reads(Column(c), RangeOf(t, c), Items(t, groups[t][c]))
        /\ phase = "shared" =>
              \A i \in 1..Len(Column(c)) : \E t \in DOMAIN tracks : Under(i, RangeOf(t, c))

(* Every call of notes() returns every note once, in track order, however  *)
(* many threads call at once (notes(), NoteCache); note_count is its length. *)
NotesWholeAndOnce ==
    /\ once = "complete" => list = AllNotes /\ Len(list) = noteCount
    /\ \A r \in Readers : seen[r] \in {<<>>, AllNotes}
    /\ Cardinality({r \in Readers : pc[r] = "fill"}) <= 1

(* heap_bytes counts the cache whole or not at all, and a thread that asks *)
(* again never sees it shrink (heap_bytes against notes()).                *)
HeapGrowsOnce ==
    [][\A r \in Readers :
          size'[r] # size[r] =>
             /\ size'[r] \in {s + Len(OtherItems) : s \in {noteCount, 2 * noteCount}}
             /\ size'[r] >= size[r]]_vars

(* A call of notes() returns, whoever fills the list (get_or_init).        *)
NotesReturns == \A r \in Readers : pc[r] # "idle" ~> pc[r] = "idle"

================================================================================
