---------------------------- MODULE CompletedNotes -----------------------------
(***************************************************************************)
(* What a note column promises, with none of its representation: notes are *)
(* started in order, each open note may be ended once, its duration is the *)
(* time that passed, and the column publishes the ended notes, and only    *)
(* those, in the order in which they started.                              *)
(***************************************************************************)
EXTENDS Integers, Sequences

CONSTANTS
    Data,       \* what a note carries besides its timing
    MaxTime,    \* the largest time
    MaxIndex,   \* the largest index a column gives to a note
    Open        \* the duration of a note that has not ended

VARIABLES
    now,        \* the current time of the track
    notes,      \* every note started so far
    phase,      \* "building", "published" or "overflow"
    published   \* the published notes

vars == <<now, notes, phase, published>>

EndedAt(ns) == {i \in DOMAIN ns : ns[i].duration # Open}

(* `at' lists the positions of S, each of them, in increasing order. *)
ListsInOrder(at, S) ==
    /\ \A i \in S : \E k \in DOMAIN at : at[k] = i
    /\ \A j, k \in DOMAIN at : j < k => at[j] < at[k]

Init == now = 0 /\ notes = <<>> /\ phase = "building" /\ published = <<>>

Advance(t) == phase = "building" /\ now < t /\ now' = t /\ UNCHANGED <<notes, phase, published>>

Start(data) ==
    /\ phase = "building"
    /\ Len(notes) <= MaxIndex
    /\ notes' = Append(notes, [time |-> now, duration |-> Open, data |-> data])
    /\ UNCHANGED <<now, phase, published>>

Overflow ==
    /\ phase = "building"
    /\ Len(notes) > MaxIndex
    /\ phase' = "overflow"
    /\ UNCHANGED <<now, notes, published>>

End(i) ==
    /\ phase = "building"
    /\ notes[i].duration = Open
    /\ notes' = [notes EXCEPT ![i].duration = now - notes[i].time]
    /\ UNCHANGED <<now, phase, published>>

Publish ==
    /\ phase = "building"
    /\ phase' = "published"
    /\ \E m \in 0..Len(notes) : \E at \in [1..m -> EndedAt(notes)] :
          /\ ListsInOrder(at, EndedAt(notes))
          /\ published' = [k \in 1..m |-> notes[at[k]]]
    /\ UNCHANGED <<now, notes>>

Next ==
    \/ \E t \in 0..MaxTime : Advance(t)
    \/ \E data \in Data : Start(data)
    \/ \E i \in DOMAIN notes : End(i)
    \/ Overflow
    \/ Publish

Spec == Init /\ [][Next]_vars

================================================================================
