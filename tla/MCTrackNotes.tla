----------------------------- MODULE MCTrackNotes ------------------------------
(* TrackNotes for TLC: keys are interchangeable. *)
EXTENDS TrackNotes, TLC

KeySymmetry == Permutations(Keys)

================================================================================
