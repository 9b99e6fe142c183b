------------------------------ MODULE ScoreAssembly ----------------------------
(***************************************************************************)
(* A score from the events of several source tracks: the events of each    *)
(* are applied to a builder of its own (ScoreTrack), while names, lyrics   *)
(* and markers share one arena of text and tempos, signatures and markers  *)
(* of all tracks share one column each, sorted by time at the end.         *)
(*                                                                         *)
(* Abstractions.  An event has been read from the bytes (TrackDecoders),   *)
(* and no limit is set (ScoreParser); a payload that is text is the bytes  *)
(* push_text leaves of it, and all text fits u32 (TextArena); a track of   *)
(* the score has its items where the code has ranges, and all its columns  *)
(* fit u32 (ScoreArena).  An error is placed at its track and event.       *)
(***************************************************************************)
EXTENDS Integers, FiniteSets, SequencesExt

CONSTANTS
    U32Max, U64Max,     \* the greatest integers of each width, made small
    Channels, Programs, Free, NotHeld,  \* as in ScoreTrack
    Events,     \* bound: the events that may occur
    Files       \* bound: the files, each a sequence of tracks of [delta, event]

VARIABLES
    file,           \* the source tracks
    sourceTrack,    \* the one being read
    next,           \* its next event
    stage,          \* before a track, before a delta time or before an event
    programs, groupOf, groups, activePrograms, stragglers, pedalStarts,
    slotNote, slotStart, queueOf, entries, queues, freeQueues, queued,
    now,            \* the running tick
    name,           \* the range of the track's last name
    textData,       \* text_data
    globals,        \* tempos, time and key signatures, markers
    tracks,         \* the tracks of the score
    phase,          \* "reading", then "finished" or "failed"
    outcome         \* the error and its place, or Ok

tracker == <<slotNote, slotStart, queueOf, entries, queues, freeQueues, queued>>
builder == <<programs, groupOf, groups, activePrograms, stragglers, pedalStarts, tracker>>
position == <<sourceTrack, next, stage>>
score == <<textData, globals, tracks>>
vars == <<file, position, builder, now, name, score, phase, outcome>>

Builder == INSTANCE ScoreTrack WITH log <- <<>>, tracks <- <<>>, Deltas <- {}, MaxEvents <- 0

Ok == [kind |-> "ok", at |-> <<>>]
GlobalKinds == {"tempo", "time_signature", "key_signature", "marker"}
EmptyRange == [start |-> 0, len |-> 0]

Init ==
    /\ file \in Files
    /\ sourceTrack = 1 /\ next = 1 /\ stage = "track"
    /\ Builder!Init
    /\ name = EmptyRange
    /\ textData = <<>>
    /\ globals = [g \in GlobalKinds |-> <<>>]
    /\ tracks = <<>>
    /\ outcome = Ok

--------------------------------------------------------------------------------
(* The meta events of the score. *)

PayloadLength == [tempo |-> 3, time_signature |-> 4, key_signature |-> 2]

(* validate_score_meta. *)
InvalidMeta(e) ==
    \/ e.kind \in DOMAIN PayloadLength /\ Len(e.payload) # PayloadLength[e.kind]
    \/ e.kind = "time_signature" /\ e.payload[2] >= 64

(* Mutant: the start of a text is taken after its bytes are pushed. *)
KeptLate(text) == [start |-> Len(textData) + Len(text), len |-> Len(text)]

(* Where push_text keeps a text. *)
Kept(text) == [start |-> Len(textData), len |-> Len(text)]

(* Big-endian microseconds; a power of two; a signed byte. *)
Value(e) ==
    CASE e.kind = "tempo" -> (e.payload[1] * 256 + e.payload[2]) * 256 + e.payload[3]
      [] e.kind = "time_signature" -> <<e.payload[1], 2 ^ e.payload[2]>>
      [] e.kind = "key_signature" ->
            <<IF e.payload[1] < 128 THEN e.payload[1] ELSE e.payload[1] - 256, e.payload[2]>>
      [] e.kind = "marker" -> Kept(e.text)

Global(e) ==
    /\ e.kind \in GlobalKinds
    /\ e.kind = "marker" => e.text # <<>>
    /\ globals' = [globals EXCEPT ![e.kind] = Append(@, [time |-> now, value |-> Value(e)])]
    /\ textData' = IF e.kind = "marker" THEN textData \o e.text ELSE textData
    /\ UNCHANGED <<builder, name, phase>>

(* Mutant: the first name of a track stays. *)
FirstName(e) ==
    /\ e.kind = "name"
    /\ name' = IF name = EmptyRange THEN Kept(e.text) ELSE name
    /\ textData' = textData \o e.text
    /\ UNCHANGED <<builder, globals, phase>>

(* The last name of a track is its name, an empty one too. *)
Name(e) ==
    /\ e.kind = "name"
    /\ name' = Kept(e.text)
    /\ textData' = textData \o e.text
    /\ UNCHANGED <<builder, globals, phase>>

Lyric(e) ==
    /\ e.kind = "lyric" /\ e.text # <<>>
    /\ Builder!Lyric(Kept(e.text))
    /\ textData' = textData \o e.text
    /\ UNCHANGED <<globals, name>>

(* Lyrics and markers without text leave nothing. *)
Ignored(e) ==
    /\ e.kind \in {"lyric", "marker"} /\ e.text = <<>>
    /\ UNCHANGED <<builder, textData, globals, name, phase>>

Meta(e) == Global(e) \/ Name(e) \/ Lyric(e) \/ Ignored(e)

Channel(e) ==
    /\ Builder!Channel(e)
    /\ UNCHANGED <<textData, globals, name>>

--------------------------------------------------------------------------------
(* The loop over the tracks and over the events of a track. *)

Fail(kind) ==
    /\ phase' = "failed"
    /\ outcome' = [kind |-> kind, at |-> <<sourceTrack, next>>]

Current == file[sourceTrack][next]

(* ScoreTrackBuilder::new *)
NewBuilder ==
    /\ programs' = [c \in Channels |-> 0]
    /\ groupOf' = [k \in Builder!GroupKeys |-> Builder!NoGroup]
    /\ groups' = <<>>
    /\ activePrograms' = [c \in Channels |-> {}]
    /\ stragglers' = [c \in Channels |-> Builder!NoColumns]
    /\ pedalStarts' = [c \in Channels |-> NotHeld]
    /\ slotNote' = [k \in Builder!NoteKeys |-> Free]
    /\ slotStart' = [k \in Builder!NoteKeys |-> 0]
    /\ queueOf' = [k \in Builder!NoteKeys |-> Builder!Tracker!NoQueue]
    /\ entries' = <<>> /\ queues' = <<>> /\ freeQueues' = <<>>
    /\ queued' = [k \in Builder!NoteKeys |-> <<>>]

(* Mutant: the clock goes on from the track before. *)
OpenTrackClockKept ==
    /\ phase = "reading" /\ stage = "track" /\ sourceTrack <= Len(file)
    /\ stage' = "delta" /\ next' = 1
    /\ NewBuilder
    /\ name' = EmptyRange
    /\ UNCHANGED <<file, sourceTrack, now, score, phase, outcome>>

(* parse_score_track: a builder, a clock and a name of its own. *)
OpenTrack ==
    /\ phase = "reading" /\ stage = "track" /\ sourceTrack <= Len(file)
    /\ stage' = "delta" /\ next' = 1
    /\ NewBuilder
    /\ now' = 0 /\ name' = EmptyRange
    /\ UNCHANGED <<file, sourceTrack, score, phase, outcome>>

(* The checked sum of the running tick. *)
ReadDelta ==
    /\ phase = "reading" /\ stage = "delta" /\ next <= Len(file[sourceTrack])
    /\ IF now + Current.delta > U64Max
       THEN Fail("TickOverflow") /\ UNCHANGED <<now, stage>>
       ELSE /\ now' = now + Current.delta /\ stage' = "event"
            /\ UNCHANGED <<phase, outcome>>
    /\ UNCHANGED <<file, sourceTrack, next, builder, name, score>>

Refuse ==
    /\ phase = "reading" /\ stage = "event" /\ InvalidMeta(Current.event)
    /\ Fail("InvalidMetaEvent")
    /\ UNCHANGED <<file, position, builder, now, name, score>>

(* channel or meta; the builder may fail on a row that does not fit u32. *)
Apply ==
    /\ phase = "reading" /\ stage = "event" /\ ~InvalidMeta(Current.event)
    /\ Channel(Current.event) \/ Meta(Current.event)
    /\ outcome' = IF phase' = "failed"
                  THEN [kind |-> "SizeOverflow", at |-> <<sourceTrack, next>>] ELSE outcome
    /\ next' = next + 1 /\ stage' = "delta"
    /\ UNCHANGED <<file, sourceTrack, now, tracks>>

(* finish: every group of the source track gets its name. *)
CloseTrack ==
    /\ phase = "reading" /\ stage = "delta" /\ next > Len(file[sourceTrack])
    /\ LET finished == Builder!FinishedTracks
       IN  tracks' = tracks \o [i \in DOMAIN finished |->
                [source |-> sourceTrack, name |-> name, track |-> finished[i]]]
    /\ sourceTrack' = sourceTrack + 1 /\ stage' = "track"
    /\ UNCHANGED <<file, next, builder, now, name, textData, globals, phase, outcome>>

(* Mutant: of two events at one time the later comes first. *)
UnstableByTime(s) ==
    LET Rank(i) == Cardinality({j \in DOMAIN s : \/ s[j].time < s[i].time
                                                 \/ s[j].time = s[i].time /\ j >= i})
    IN  [n \in DOMAIN s |-> s[CHOOSE i \in DOMAIN s : Rank(i) = n]]

(* sort_by_key: a stable sort. *)
ByTime(s) ==
    LET Rank(i) == Cardinality({j \in DOMAIN s : \/ s[j].time < s[i].time
                                                 \/ s[j].time = s[i].time /\ j <= i})
    IN  [n \in DOMAIN s |-> s[CHOOSE i \in DOMAIN s : Rank(i) = n]]

Finish ==
    /\ phase = "reading" /\ stage = "track" /\ sourceTrack > Len(file)
    /\ phase' = "finished"
    /\ globals' = [g \in GlobalKinds |-> ByTime(globals[g])]
    /\ UNCHANGED <<file, position, builder, now, name, textData, tracks, outcome>>

Next == OpenTrack \/ ReadDelta \/ Refuse \/ Apply \/ CloseTrack \/ Finish

Spec == Init /\ [][Next]_vars

--------------------------------------------------------------------------------
InText(r) == r.start + r.len <= Len(textData)

(* Positions name a track and an event of the file or the end of one, every *)
(* range lies in the text kept so far, and the clock fits u64.              *)
TypeOK ==
    /\ phase \in {"reading", "finished", "failed"} /\ (phase = "failed" <=> outcome # Ok)
    /\ stage \in {"track", "delta", "event"}
    /\ sourceTrack \in 1..(Len(file) + 1) /\ next \in Nat \ {0}
    /\ now \in 0..U64Max
    /\ InText(name)
    /\ \A i \in DOMAIN tracks : InText(tracks[i].name)
    /\ \A i \in DOMAIN globals["marker"] : InText(globals["marker"][i].value)
    /\ \A g \in DOMAIN groups : \A i \in DOMAIN groups[g].lyrics : InText(groups[g].lyrics[i].text)

================================================================================
