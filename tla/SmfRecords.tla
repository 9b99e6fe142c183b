------------------------------- MODULE SmfRecords ------------------------------
(***************************************************************************)
(* What a Python caller sees of an owned file: MidiFile.semantic_records   *)
(* of the binding walks the track ranges and gives one tuple per event.    *)
(* It is stated over the decoders, whose score side read the same bytes.   *)
(***************************************************************************)
EXTENDS TrackDecoders

(* normalize_sysex: one leading F0 and one trailing F7 are taken off.      *)
NormalizeSysEx(data) ==
    LET opened == IF data # <<>> /\ data[1] = 240 THEN Tail(data) ELSE data
    IN  IF opened # <<>> /\ Last(opened) = 247 THEN Front(opened) ELSE opened

IsSysEx(status) == status \in {240, 247}

(* The record at a global index, in its track; tracks count from 0. *)
SemanticRecord(t, r) ==
    [track |-> t - 1, delta |-> r.event.delta,
     status |-> IF IsSysEx(r.event.status) THEN 240 ELSE r.event.status,
     type |-> r.event.type,
     data |-> IF IsSysEx(r.event.status) THEN NormalizeSysEx(EventData(r)) ELSE EventData(r)]

(* Mutant: the index in the track is taken for the index in the file.      *)
LocalSemanticRecords ==
    FlattenSeq([t \in DOMAIN owned.tracks |->
        [i \in 1..owned.tracks[t].len |-> SemanticRecord(t, owned.events[i])]])

SemanticRecords ==
    FlattenSeq([t \in DOMAIN owned.tracks |->
        [i \in 1..owned.tracks[t].len |->
            SemanticRecord(t, owned.events[owned.tracks[t].start + i])]])

--------------------------------------------------------------------------------
(* Of a file both parsers accept, a Python caller reads the events the     *)
(* score parser reads, in file order, with the bytes of the file; of a     *)
(* SysEx event either opening status byte gives the same message, which is *)
(* what remains of its bytes without one F0 before and one F7 behind it    *)
(* (semantic_records, normalize_sysex).                                    *)
IsMessage(raw, data) ==
    \E opening \in {<<>>, <<240>>}, closing \in {<<>>, <<247>>} :
        /\ raw = opening \o data \o closing
        /\ opening = <<>> => raw = <<>> \/ raw[1] # 240
        /\ closing = <<>> => data = <<>> \/ Last(data) # 247
SemanticRecordsMatch ==
    answer["owned"] = Ok /\ answer["score"] = Ok =>
        LET records == SemanticRecords
        IN  /\ Len(records) = Len(scored.events)
            /\ \A i \in DOMAIN records :
                  LET heard == scored.events[i]
                      seen == records[i]
                      raw == SubSeq(file, heard.event.to - Len(heard.event.data) + 1, heard.event.to)
                  IN  /\ seen.track + 1 = heard.track
                      /\ <<seen.delta, seen.type>> = <<heard.event.delta, heard.event.type>>
                      /\ IF IsSysEx(heard.event.status)
                         THEN seen.status = 240 /\ IsMessage(raw, seen.data)
                         ELSE seen.status = heard.event.status /\ seen.data = heard.event.data

================================================================================
