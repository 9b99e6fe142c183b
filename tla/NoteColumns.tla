------------------------------ MODULE NoteColumns ------------------------------
(***************************************************************************)
(* NoteColumnsBuilder of miso-midi-core: the growing column of note rows   *)
(* of one score group.  A column starts narrow (u32 time and duration per  *)
(* row) and is promoted to wide (u64) by the first time or duration that   *)
(* does not fit.  A note that is still sounding has no flag of its own: it *)
(* holds the all-ones duration of the current width, and the indices of    *)
(* the rare completed notes whose duration IS that value are kept apart.   *)
(*                                                                         *)
(* This module is the data structure: a column is a record, and each       *)
(* method of the builder is an operator on it.  NoteBuilder gives it a     *)
(* life cycle, ScoreTrack uses one column per score group.                 *)
(*                                                                         *)
(* Abstractions.  The byte layout of a row (10 or 18 bytes) is the record  *)
(* of its fields, pitch and velocity are one opaque `data', and u32::MAX   *)
(* and u64::MAX are constants so that TLC meets both boundaries.  Rows are *)
(* numbered from 1; the code's row index n is position n + 1 here.         *)
(***************************************************************************)
EXTENDS Integers, Sequences, Ordering

CONSTANTS
    U32Max,     \* u32::MAX
    U64Max      \* u64::MAX

ASSUME WidthAssumption == U32Max \in Nat /\ U64Max \in Nat /\ 0 < U32Max /\ U32Max < U64Max

Row(Data) == [time : 0..U64Max, duration : 0..U64Max, data : Data]

Columns(Data) == [wide : BOOLEAN, rows : Seq(Row(Data)), maxDone : SUBSET Nat]

(* A column that holds nothing yet. *)
EmptyColumns == [wide |-> FALSE, rows |-> <<>>, maxDone |-> {}]

(* The duration that marks a note as dangling in a column of this width. *)
AllOnes(wide) == IF wide THEN U64Max ELSE U32Max

(* Row i has been started and not completed. *)
IsDangling(col, i) ==
    /\ col.rows[i].duration = AllOnes(col.wide)
    /\ i \notin col.maxDone

(* with_duration: the same row with another duration. *)
WithDuration(row, d) == [time |-> row.time, duration |-> d, data |-> row.data]

(* Mutant: a promotion that does not consult the list of completed maxima. *)
PromoteForgetsMaxDone(col) ==
    [wide    |-> TRUE,
     rows    |-> [i \in DOMAIN col.rows |->
                    IF col.rows[i].duration = AllOnes(col.wide)
                    THEN WithDuration(col.rows[i], U64Max) ELSE col.rows[i]],
     maxDone |-> col.maxDone]

(* promote_to_wide: the rows keep their values in the wider representation, *)
(* and the marker of a dangling note becomes the marker of the new width.  *)
PromoteToWide(col) ==
    [wide    |-> TRUE,
     rows    |-> [i \in DOMAIN col.rows |->
                    IF IsDangling(col, i)
                    THEN WithDuration(col.rows[i], U64Max) ELSE col.rows[i]],
     maxDone |-> col.maxDone]

(* Mutant: the index check is one row late. *)
CanPushOneMore(col) == Len(col.rows) <= U32Max + 1

(* The next row index must fit u32. *)
CanPush(col) == Len(col.rows) <= U32Max

(* push: a narrow column takes a time that fits, any other time promotes it. *)
Push(col, time, data) ==
    LET c == IF time > U32Max THEN PromoteToWide(col) ELSE col
    IN  [wide    |-> c.wide,
         rows    |-> Append(c.rows, [time |-> time, duration |-> AllOnes(c.wide),
                                     data |-> data]),
         maxDone |-> c.maxDone]

(* The rest of complete, once the column c has the width that is needed: an *)
(* all-ones duration is noted as completed.                                *)
SetDuration(c, i, duration) ==
    [wide    |-> c.wide,
     rows    |-> [c.rows EXCEPT ![i] = WithDuration(@, duration)],
     maxDone |-> IF duration = AllOnes(c.wide) THEN c.maxDone \cup {i} ELSE c.maxDone]

(* Mutant: an inclusive comparison promotes for a duration that fits. *)
CompletePromotesAtMax(col, i, duration) ==
    SetDuration(IF duration >= U32Max THEN PromoteToWide(col) ELSE col, i, duration)

(* complete: row i gets its duration, after a promotion if it does not fit. *)
Complete(col, i, duration) ==
    SetDuration(IF duration > U32Max THEN PromoteToWide(col) ELSE col, i, duration)

(* into_segment: dangling rows are dropped, the others keep their order. *)
IntoSegment(col) ==
    [wide |-> col.wide,
     rows |-> Kept(col.rows, {i \in DOMAIN col.rows : ~IsDangling(col, i)})]

================================================================================
