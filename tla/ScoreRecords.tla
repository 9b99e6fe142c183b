------------------------------- MODULE ScoreRecords ----------------------------
(***************************************************************************)
(* What a Python caller reads of a score (Score.semantic_records), and     *)
(* what a score should hold, defined from the events of the file alone.    *)
(***************************************************************************)
EXTENDS ScoreAssembly

(* Score::text: the bytes a range names. *)
Text(range) == SubSeq(textData, range.start + 1, range.start + range.len)

TrackRecord(t) ==
    [name |-> Text(t.name), is_drum |-> t.track.channel = 9, program |-> t.track.program,
     notes |-> t.track.notes, controls |-> t.track.controls, pitch_bends |-> t.track.bends,
     pedals |-> t.track.pedals,
     lyrics |-> [i \in DOMAIN t.track.lyrics |->
                    [t.track.lyrics[i] EXCEPT !.text = Text(@)]]]

TrackRecords == [i \in DOMAIN tracks |-> TrackRecord(tracks[i])]

GlobalRecords(g) ==
    IF g # "marker" THEN globals[g]
    ELSE [i \in DOMAIN globals[g] |-> [globals[g][i] EXCEPT !.value = Text(@)]]

--------------------------------------------------------------------------------
(* The events of the file, each at a place: its track and its index there. *)

Places == UNION {{<<t, i>> : i \in DOMAIN file[t]} : t \in DOMAIN file}
EventAt(p) == file[p[1]][p[2]].event
TimeAt(p) == FoldSeq(LAMBDA e, sum : sum + e.delta, 0, SubSeq(file[p[1]], 1, p[2]))

Precedes(p, q) == p[1] < q[1] \/ (p[1] = q[1] /\ p[2] < q[2])
Sooner(p, q) == TimeAt(p) < TimeAt(q) \/ (TimeAt(p) = TimeAt(q) /\ Precedes(p, q))

HasText(p) == EventAt(p).kind \in {"lyric", "marker"} => EventAt(p).text # <<>>

(* What was written is what is read: big-endian bytes, a signed byte. *)
Says(value, e) ==
    CASE e.kind = "tempo" ->
            e.payload = <<value \div 65536, value \div 256 % 256, value % 256>>
      [] e.kind = "time_signature" ->
            /\ value[1] = e.payload[1]
            /\ Cardinality({n \in 1..30 : value[2] % 2 ^ n = 0}) = e.payload[2]
      [] e.kind = "key_signature" ->
            value[1] \in -128..127 /\ e.payload = <<value[1] % 256, value[2]>>
      [] e.kind = "marker" -> value = e.text

(* Tempos, signatures and markers of a finished score are those of all     *)
(* source tracks in order of time, and at one time in the order of the     *)
(* file: none lost, none twice, the later of two tempos at one tick last   *)
(* (the stable sorts at the end of parse_score_smf_impl; meta).            *)
GlobalsInOrder ==
    phase = "finished" =>
        \A g \in GlobalKinds :
            LET places == {p \in Places : EventAt(p).kind = g /\ HasText(p)}
                Rank(p) == 1 + Cardinality({q \in places : Sooner(q, p)})
                records == GlobalRecords(g)
            IN  /\ Len(records) = Cardinality(places)
                /\ \A p \in places : /\ records[Rank(p)].time = TimeAt(p)
                                     /\ Says(records[Rank(p)].value, EventAt(p))

(* The events of track t with their times; an empty lyric is no lyric. *)
LogOf(t) ==
    [i \in DOMAIN file[t] |->
        [event |-> IF HasText(<<t, i>>) THEN EventAt(<<t, i>>) ELSE [kind |-> "ignored"],
         time |-> TimeAt(<<t, i>>)]]

Source(t) == INSTANCE ScoreTrackReference
                 WITH log <- LogOf(t), tracks <- <<>>, Deltas <- {}, MaxEvents <- 0

NameOf(t) ==
    LET names == {i \in DOMAIN file[t] : file[t][i].event.kind = "name"}
    IN  IF names = {} THEN <<>>
        ELSE file[t][CHOOSE i \in names : \A j \in names : j <= i].event.text

ExpectedRecord(t, track) ==
    [name |-> NameOf(t), is_drum |-> track.channel = 9, program |-> track.program,
     notes |-> track.notes, controls |-> track.controls, pitch_bends |-> track.bends,
     pedals |-> track.pedals, lyrics |-> track.lyrics]

(* The tracks of a finished score are those of each source track taken by  *)
(* itself: no group, pedal, program, open note, time or name of a source   *)
(* track reaches another, and every name and lyric reads back as its own   *)
(* text, though all texts share one arena and later ones are pushed after  *)
(* (parse_score_track, finish, push_text, semantic_records).               *)
RecordsMatchFile ==
    phase = "finished" =>
        TrackRecords =
            FlattenSeq([t \in DOMAIN file |->
                LET expected == Source(t)!ExpectedTracks
                IN  [i \in DOMAIN expected |-> ExpectedRecord(t, expected[i])]])

(* A file is refused exactly when some event is late beyond u64 or is a    *)
(* malformed meta event, and it is the first such event of the file that   *)
(* is reported, its time before its payload (parse_score_track: the        *)
(* checked sum, validate_score_meta).                                      *)
RefusedAtFirstError ==
    LET late == {p \in Places : TimeAt(p) > U64Max}
        faulty == late \cup {p \in Places : InvalidMeta(EventAt(p))}
    IN  /\ phase = "finished" => faulty = {}
        /\ phase = "failed" =>
              /\ outcome.at \in faulty
              /\ \A p \in faulty : ~Precedes(p, outcome.at)
              /\ outcome.kind = IF outcome.at \in late THEN "TickOverflow" ELSE "InvalidMetaEvent"

================================================================================
