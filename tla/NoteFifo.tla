------------------------------- MODULE NoteFifo --------------------------------
(***************************************************************************)
(* What the open-note bookkeeping of a track promises: per channel and     *)
(* pitch the sounding notes form a queue, a note-off ends the oldest of    *)
(* them with the time that passed since it started, and a note-off with    *)
(* nothing to end changes nothing.                                         *)
(***************************************************************************)
EXTENDS Integers, Sequences

CONSTANTS
    Keys,       \* channel/pitch pairs
    MaxTime,    \* the largest time
    MaxNotes    \* the most notes of one track

VARIABLES
    now,        \* the time of the event being applied
    starts,     \* the start of every note of the track, in order of note-ons
    sounding,   \* the open notes of each key, oldest first
    ended       \* the last note that ended, and its duration

vars == <<now, starts, sounding, ended>>

Init ==
    /\ now = 0
    /\ starts = <<>>
    /\ sounding = [k \in Keys |-> <<>>]
    /\ ended = [note |-> 0, duration |-> 0]

Advance(t) == now < t /\ now' = t /\ UNCHANGED <<starts, sounding, ended>>

NoteOn(key) ==
    /\ Len(starts) < MaxNotes
    /\ starts' = Append(starts, now)
    /\ sounding' = [sounding EXCEPT ![key] = Append(@, Len(starts) + 1)]
    /\ UNCHANGED <<now, ended>>

NoteOff(key) ==
    /\ sounding[key] # <<>>
    /\ LET note == Head(sounding[key])
       IN  ended' = [note |-> note, duration |-> now - starts[note]]
    /\ sounding' = [sounding EXCEPT ![key] = Tail(@)]
    /\ UNCHANGED <<now, starts>>

Next ==
    \/ \E t \in 0..MaxTime : Advance(t)
    \/ \E key \in Keys : NoteOn(key) \/ NoteOff(key)

Spec == Init /\ [][Next]_vars

================================================================================
