----------------------------- MODULE StructuredScore ---------------------------
(***************************************************************************)
(* The generator of the structured fuzz target: every source of bytes      *)
(* becomes a file that all parsers accept with one score.  Of a source     *)
(* only its length and the text its first byte becomes matter to the       *)
(* control of the parser: a byte that is no UTF-8 is three bytes of text.  *)
(***************************************************************************)
EXTENDS ScoreParser, SequencesExt

(* One note of the generator: a program change, the note and its end, each *)
(* behind a delta time of one byte.                                        *)
NoteEvents ==
    <<[kind |-> "other", delta |-> 1, body |-> 2, text |-> 0],
      [kind |-> "note", delta |-> 1, body |-> 3, text |-> 0],
      [kind |-> "other", delta |-> 1, body |-> 3, text |-> 0]>>

MaxSourceBytes == 192
MaxNotes == 32

(* chunks(3).take(MAX_NOTES) *)
NotesIn(bytes) == IF (bytes + 2) \div 3 < MaxNotes THEN (bytes + 2) \div 3 ELSE MaxNotes

Name(text) == [kind |-> "text", delta |-> 1, body |-> 4, text |-> text]
EndOfTrackEvent == [kind |-> "eot", delta |-> 1, body |-> 3, text |-> 0]

(* Mutant: the generator forgets the End-of-Track. *)
TrackWithoutEnd(bytes, text) ==
    <<Name(text)>> \o FlattenSeq([n \in 1..NotesIn(bytes) |-> NoteEvents])

BuildTrack(bytes, text) ==
    <<Name(text)>> \o FlattenSeq([n \in 1..NotesIn(bytes) |-> NoteEvents]) \o <<EndOfTrackEvent>>

BuildSmf(bytes, text) ==
    [header |-> "ok", tracks |-> <<[items |-> BuildTrack(bytes, text)]>>, declared |-> 1,
     badTag |-> 0, cut |-> 0, trailing |-> 0]

(* An empty source has the name "f". *)
GeneratedFiles ==
    {BuildSmf(bytes, text) : bytes \in 0..MaxSourceBytes, text \in {1, 3}} \ {BuildSmf(0, 3)}

FiniteLimits ==
    {[inputBytes |-> 4096, sourceTracks |-> 4, trackBytes |-> 2048, events |-> 256,
      noteStarts |-> 64, textBytes |-> 256]}

--------------------------------------------------------------------------------
(* The assertions of the fuzz target: the limited, the compatible and the  *)
(* strict parser accept what the generator makes, with the score of the    *)
(* trusted parser, up to the same byte (the fuzz_target! body).            *)
GeneratedScoresAgree ==
    \A m \in Modes : Answered(m) =>
        /\ Accepted(m)
        /\ applied[m] = applied["trusted"]
        /\ offset[m] = offset["trusted"] /\ offset[m] = InputBytes

================================================================================
