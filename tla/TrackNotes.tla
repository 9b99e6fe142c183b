------------------------------ MODULE TrackNotes -------------------------------
(***************************************************************************)
(* The open-note bookkeeping over a whole track: note-ons and note-offs of *)
(* any key at non-decreasing times.  TrackNotes implements NoteFifo.       *)
(***************************************************************************)
EXTENDS OpenNotes

CONSTANTS
    MaxTime,    \* bound: the largest time
    MaxNotes    \* bound: the most notes

ASSUME TrackAssumption ==
    /\ U32Max \in Nat /\ MaxTime \in Nat /\ MaxNotes \in Nat
    /\ Free \notin 1..MaxNotes
    /\ IsFiniteSet(Keys)

VARIABLES
    now,        \* the tick time of the event being applied
    starts,     \* the start each note's row holds; a note is its number
    ended       \* the last row completed by end_note, and its duration

vars == <<tracker, now, starts, ended>>

Notes == 1..Len(starts)

(* Slots hold notes of the track, positions and headers exist. *)
TypeOK ==
    /\ now \in 0..MaxTime
    /\ starts \in Seq(0..MaxTime) /\ Len(starts) <= MaxNotes
    /\ ended \in [note : Nat, duration : Nat]
    /\ TablesOK(Notes)

Init ==
    /\ TrackerInit
    /\ now = 0
    /\ starts = <<>>
    /\ ended = [note |-> 0, duration |-> 0]

Advance(t) == now < t /\ now' = t /\ UNCHANGED <<tracker, starts, ended>>

NoteOn(key) ==
    /\ Len(starts) < MaxNotes
    /\ starts' = Append(starts, now)
    /\ Open(key, Len(starts) + 1, now)
    /\ UNCHANGED <<now, ended>>

(* end_note returns at once when the slot is free. *)
NoteOff(key) ==
    /\ Close(key, starts)
    /\ ended' = [note |-> slotNote[key], duration |-> now - StartOf(key, starts)]
    /\ UNCHANGED <<now, starts>>

Next ==
    \/ \E t \in 0..MaxTime : Advance(t)
    \/ \E key \in Keys : NoteOn(key) \/ NoteOff(key)

Spec == Init /\ [][Next]_vars

--------------------------------------------------------------------------------
Fifo == INSTANCE NoteFifo WITH sounding <- Sounding

(* Slot, queue and packed start together implement one first-in first-out  *)
(* queue per key: every note-off ends the oldest open note of its key with *)
(* the exact time since it started, across promotions, queue reuse and     *)
(* starts at or beyond u32::MAX (add_note, end_note).                      *)
ImplementsNoteFifo == Fifo!Spec

================================================================================
