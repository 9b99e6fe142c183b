------------------------------ MODULE MCScoreTrack -----------------------------
(***************************************************************************)
(* ScoreTrack for TLC: notes, pedal, program changes and lyrics on channel *)
(* 0, a note and a bend on channel 1, so that the groups, stragglers and   *)
(* tracks of two channels interleave.                                      *)
(***************************************************************************)
EXTENDS ScoreTrackReference

On(c, v) == [kind |-> "note_on", channel |-> c, pitch |-> 60, velocity |-> v]
CC(c, n, v) == [kind |-> "control", channel |-> c, number |-> n, value |-> v]
PC(c, p) == [kind |-> "program", channel |-> c, program |-> p]

MCEvents ==
    {On(0, 64), On(0, 0), CC(0, 64, 127), CC(0, 64, 0), PC(0, 0), PC(0, 1),
     [kind |-> "lyric", text |-> "la"], On(1, 64), [kind |-> "bend", channel |-> 1]}

================================================================================
