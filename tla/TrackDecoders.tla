------------------------------ MODULE TrackDecoders ----------------------------
(***************************************************************************)
(* The three decoders of the bytes of a file, one after the other:         *)
(*   scan    scan_smf, scan_track: counts and validates                    *)
(*   owned   parse_smf, parse_track: runs scan, allocates what it counted, *)
(*           walks the chunks again without looking at what scan checked,  *)
(*           and decodes the same bytes into records and payloads, whose   *)
(*           places are converted to 32 bits                               *)
(*   score   parse_score_smf_impl, parse_score_track under the Legacy      *)
(*           grammar and no limits; of the score it keeps what was read,   *)
(*           and how many rows and how much text there are at most         *)
(* The input is any sequence of bytes; `owned' starts only when scan_smf   *)
(* has accepted it.  How each reads the bytes is in SmfReaders.            *)
(***************************************************************************)
EXTENDS SmfReaders, FiniteSets

CONSTANTS
    Files,      \* bound: the files, each a sequence of bytes
    U32Max      \* u32::MAX in the code; bound: small, so that files pass it

ASSUME FilesAssumption == Files \subseteq Seq(0..255)
ASSUME U32MaxAssumption == U32Max \in Nat

VARIABLES
    file,       \* the input
    turn,       \* the decoder at work, or "done"
    stage,      \* before the header, before a chunk or inside one
    outer,      \* its cursor over the file
    track,      \* its track, from 1
    cursor,     \* its cursor in the chunk of that track
    running,    \* its running_status, or NoStatus
    start,      \* parse_track's first record
    answer,     \* decoder -> Pending, Ok or its error
    summary,    \* ScanSummary
    owned,      \* OwnedSmf: track ranges, records, payloads
    scored,     \* what the score decoder read: header, events with their times,
                \* and the length of its text_data
    time        \* its running tick

chunk == <<cursor, running, start, time>>
reader == <<turn, stage, outer, track, chunk>>
results == <<summary, owned, scored>>
vars == <<file, reader, answer, results>>

Pending == [ok |-> TRUE, done |-> FALSE]
Ok == [ok |-> TRUE, done |-> TRUE]
Decoders == {"scan", "owned", "score"}

--------------------------------------------------------------------------------
(* Each decoder reads with its own copy. *)

FileHeader(c) ==
    CASE turn = "scan"  -> ScanHeader(c)
      [] turn = "owned" -> OwnedHeader(c, summary.header)
      [] turn = "score" -> ScoreHeader(c)
ChunkBody(c) ==
    CASE turn = "scan"  -> ScanChunk(c)
      [] turn = "owned" -> OwnedChunk(c)
      [] turn = "score" -> ScoreChunk(c)
EventAt(c, run) ==
    CASE turn = "scan"  -> ScanEvent(c, run)
      [] turn = "owned" -> OwnedEvent(c, run)
      [] turn = "score" -> ScoreEvent(c, run)

(* Mutant: `as u32'. *)
TruncatedToU32(n, c) == Read(n % (U32Max + 1), c)

(* u32::try_from(n).map_err(|_| cursor.error(SizeOverflow)). *)
ToU32(n, c) == IF n > U32Max THEN Error("SizeOverflow", AbsoluteOffset(c)) ELSE Read(n, c)

(* validate_score_meta: the recognised meta events have one length, and a  *)
(* denominator exponent fits a shift of 64 bits; either error is named     *)
(* InvalidMetaEvent here.                                                  *)
MetaLength == (81 :> 3) @@ (88 :> 4) @@ (89 :> 2)
InvalidMeta(e) ==
    /\ e.status = 255
    /\ \/ e.type \in DOMAIN MetaLength /\ Len(e.data) # MetaLength[e.type]
       \/ e.type = 88 /\ e.data[2] >= 64

--------------------------------------------------------------------------------
NoHeader == [format |-> 0, tracks |-> 0, division |-> 0]
EmptySummary == [header |-> NoHeader, events |-> 0, channel |-> 0, meta |-> 0, sysex |-> 0,
                 payload |-> 0, maxDelta |-> 0, consumed |-> 0, trailing |-> 0]
EmptyOwned == [header |-> NoHeader, tracks |-> <<>>, events |-> <<>>, payloads |-> <<>>,
               consumed |-> 0, trailing |-> 0]
EmptyScored == [header |-> NoHeader, events |-> <<>>, text |-> 0, consumed |-> 0, trailing |-> 0]

NoChunk == CursorAt(<<>>, 0)

Init ==
    /\ file \in Files
    /\ turn = "scan" /\ stage = "header" /\ track = 1
    /\ outer = CursorAt(file, 0)
    /\ cursor = NoChunk /\ running = NoStatus /\ start = 0 /\ time = 0
    /\ answer = [d \in Decoders |-> Pending]
    /\ summary = EmptySummary /\ owned = EmptyOwned /\ scored = EmptyScored

(* The next decoder: parse_smf's second pass only after a scan without     *)
(* error; the score parser always.                                         *)
NextTurn(result) ==
    CASE turn = "scan" /\ result.ok -> "owned"
      [] turn = "scan" /\ ~result.ok -> "score"
      [] turn = "owned" -> "score"
      [] turn = "score" -> "done"

Answer(result) ==
    /\ answer' = [answer EXCEPT ![turn] = result]
    /\ turn' = NextTurn(result)
    /\ stage' = "header" /\ outer' = CursorAt(file, 0) /\ track' = 1
    /\ cursor' = NoChunk /\ running' = NoStatus /\ start' = 0 /\ time' = 0
    /\ UNCHANGED file

(* parse_smf drops the file it was building with the error.  What scan and *)
(* score had counted stays here only to be compared.                       *)
Refuse(error) ==
    /\ Answer([ok |-> FALSE, done |-> TRUE, kind |-> error.kind, offset |-> error.offset])
    /\ owned' = IF turn = "owned" THEN EmptyOwned ELSE owned
    /\ UNCHANGED <<summary, scored>>

(* The header goes into what the decoder builds; parse_smf also takes over *)
(* what scan consumed of the file.                                         *)
KeepHeader(header) ==
    \/ /\ turn = "scan" /\ summary' = [summary EXCEPT !.header = header]
       /\ UNCHANGED <<owned, scored>>
    \/ /\ turn = "owned" /\ owned' = [owned EXCEPT !.header = header,
                                                   !.consumed = summary.consumed,
                                                   !.trailing = summary.trailing]
       /\ UNCHANGED <<summary, scored>>
    \/ /\ turn = "score" /\ scored' = [scored EXCEPT !.header = header]
       /\ UNCHANGED <<summary, owned>>

ReadHeader ==
    /\ turn # "done" /\ stage = "header"
    /\ \E header \in {FileHeader(outer)} :
          IF ~header.ok THEN Refuse(header)
          ELSE /\ KeepHeader(header.value)
               /\ stage' = "chunk" /\ outer' = header.cursor
               /\ UNCHANGED <<file, turn, track, chunk, answer>>

DeclaredTracks == IF turn = "score" THEN scored.header.tracks ELSE summary.header.tracks

(* parse_track starts with the index of its first record, in its cursor. *)
FirstRecord(c) == IF turn = "owned" THEN ToU32(Len(owned.events), c) ELSE Read(0, c)

OpenChunk ==
    /\ stage = "chunk" /\ track <= DeclaredTracks
    /\ \E body \in {ChunkBody(outer)} :
          IF ~body.ok THEN Refuse(body)
          ELSE \E first \in {FirstRecord(body.value)} :
                  IF ~first.ok THEN Refuse(first)
                  ELSE /\ stage' = "events" /\ outer' = body.cursor
                       /\ cursor' = body.value /\ running' = NoStatus
                       /\ start' = first.value /\ time' = 0
                       /\ UNCHANGED <<file, turn, track, answer, results>>

One(b) == IF b THEN 1 ELSE 0

(* Mutant: the length of a SysEx payload is not counted. *)
ScannedWithoutSysEx(e) ==
    [summary EXCEPT !.events = @ + 1,
                    !.channel = @ + One(IsChannel(e.status)),
                    !.meta = @ + One(e.status = 255),
                    !.sysex = @ + One(e.status \in {240, 247}),
                    !.payload = @ + One(e.status = 255) * Len(e.data)]

(* scan_track's counters. *)
Scanned(e) ==
    [summary EXCEPT !.events = @ + 1,
                    !.maxDelta = IF e.delta > @ THEN e.delta ELSE @,
                    !.channel = @ + One(IsChannel(e.status)),
                    !.meta = @ + One(e.status = 255),
                    !.sysex = @ + One(e.status \in {240, 247}),
                    !.payload = @ + One(~IsChannel(e.status)) * Len(e.data)]

(* EventRecord: the event, and the range of its payload in the arena. *)
Record(e, at, length) == [event |-> e, start |-> at, len |-> length]

(* parse_track's record of a channel event, push_variable_event: both      *)
(* conversions before anything is stored.                                  *)
Pushed(e, c) ==
    IF IsChannel(e.status)
    THEN Read([owned EXCEPT !.events = Append(@, Record(e, 0, Len(e.data)))], c)
    ELSE Then(ToU32(Len(owned.payloads), c), LAMBDA first :
             Then(ToU32(Len(e.data), c), LAMBDA length :
                 Read([owned EXCEPT !.payloads = @ \o e.data,
                                    !.events = Append(@, Record(e, first.value, length.value))], c)))

(* The cursor goes behind the event. *)
Advance(read) ==
    /\ cursor' = read.cursor
    /\ running' = read.value.running
    /\ UNCHANGED <<file, turn, stage, outer, track, start, answer>>

Count(e, read) ==
    /\ Advance(read)
    /\ summary' = Scanned(e)
    /\ UNCHANGED <<owned, scored, time>>

Store(e, read) ==
    \E pushed \in {Pushed(e, read.cursor)} :
        IF ~pushed.ok THEN Refuse(pushed)
        ELSE /\ Advance(read)
             /\ owned' = pushed.value
             /\ UNCHANGED <<summary, scored, time>>

(* The bytes a text event may add to text_data: those of its payload, or   *)
(* three for a malformed sequence of one to three (push_text).             *)
IsText(e) == e.status = 255 /\ (e.type = 3 \/ (e.type \in {5, 6} /\ e.data # <<>>))
TextLengths(e) == IF IsText(e) THEN Len(e.data)..(3 * Len(e.data)) ELSE {0}

(* No column has more rows than there were events: only then may the index *)
(* of a note or the range of a column be too large for 32 bits.            *)
IsNoteOn(e) == e.status \in 144..159 /\ e.data[2] > 0
RowsMayOverflow == Len(scored.events) > U32Max

Hear(e, read) ==
    IF InvalidMeta(e) THEN Refuse(Error("InvalidMetaEvent", e.offset))
    ELSE \/ /\ IsNoteOn(e) /\ RowsMayOverflow
            /\ Refuse(Error("SizeOverflow", AbsoluteOffset(read.cursor)))
         \/ \E length \in TextLengths(e) :
                IF scored.text + length > U32Max
                THEN Refuse(Error("SizeOverflow", AbsoluteOffset(read.cursor)))
                ELSE /\ Advance(read)
                     /\ time' = time + e.delta
                     /\ scored' = [scored EXCEPT
                            !.events = Append(@, [event |-> e, track |-> track, time |-> time']),
                            !.text = @ + length]
                     /\ UNCHANGED <<summary, owned>>

Decode ==
    /\ stage = "events" /\ Remaining(cursor) # 0
    /\ \E read \in {EventAt(cursor, running)} :
          IF ~read.ok THEN Refuse(read)
          ELSE \/ turn = "scan" /\ Count(read.value.event, read)
               \/ turn = "owned" /\ Store(read.value.event, read)
               \/ turn = "score" /\ Hear(read.value.event, read)

NextTrack ==
    /\ stage' = "chunk" /\ track' = track + 1
    /\ UNCHANGED <<file, turn, outer, chunk, answer, summary, scored>>

(* The end of a track: parse_track pushes its range, finish appends the    *)
(* track's columns.                                                        *)
CloseChunk ==
    /\ stage = "events" /\ Remaining(cursor) = 0
    /\ \/ turn # "owned" /\ NextTrack /\ UNCHANGED owned
       \/ /\ turn = "owned"
          /\ \E end \in {ToU32(Len(owned.events), cursor)} :
                IF ~end.ok THEN Refuse(end)
                ELSE /\ NextTrack
                     /\ owned' = [owned EXCEPT !.tracks =
                                     Append(@, [start |-> start, len |-> end.value - start])]
       \/ /\ turn = "score" /\ RowsMayOverflow
          /\ Refuse(Error("SizeOverflow", AbsoluteOffset(cursor)))

(* What the outer cursor consumed of the file, and what it left. *)
ConsumedBy(built) ==
    [built EXCEPT !.consumed = AbsoluteOffset(outer), !.trailing = Remaining(outer)]

EndOfFile ==
    /\ stage = "chunk" /\ track > DeclaredTracks
    /\ Answer(Ok)
    /\ summary' = IF turn = "scan" THEN ConsumedBy(summary) ELSE summary
    /\ scored' = IF turn = "score" THEN ConsumedBy(scored) ELSE scored
    /\ UNCHANGED owned

Next == ReadHeader \/ OpenChunk \/ Decode \/ CloseChunk \/ EndOfFile

Spec == Init /\ [][Next]_vars

--------------------------------------------------------------------------------
(* Cursors stay in their bytes, and a chunk's cursor reads the file's own. *)
TypeOK ==
    /\ turn \in Decoders \cup {"done"} /\ stage \in {"header", "chunk", "events"}
    /\ outer.data = file /\ outer.position \in 0..Len(file)
    /\ track \in 1..(DeclaredTracks + 1)
    /\ cursor.position \in 0..Len(cursor.data)
    /\ cursor.data = SubSeq(file, cursor.base + 1, cursor.base + Len(cursor.data))
    /\ stage = "events" => cursor.base + Len(cursor.data) = AbsoluteOffset(outer)
    /\ running \in {NoStatus} \cup 128..239
    /\ summary.events = summary.channel + summary.meta + summary.sysex
    /\ start \in 0..Len(owned.events) /\ time \in Nat

(* The second pass over the bytes the scan accepted fails for one reason   *)
(* only, a file of more events or more payload bytes than 32 bits index;   *)
(* it never outgrows what was allocated from the scan's counts, and fills  *)
(* it exactly when it accepts (parse_smf: three vectors allocate exactly   *)
(* once).                                                                  *)
SecondPassFits ==
    /\ Len(owned.events) <= summary.events
    /\ Len(owned.payloads) <= summary.payload
    /\ ~answer["owned"].ok => /\ answer["owned"].kind = "SizeOverflow"
                              /\ summary.events > U32Max \/ summary.payload > U32Max
    /\ answer["owned"] = Ok => /\ Len(owned.events) = summary.events
                               /\ Len(owned.payloads) = summary.payload
                               /\ Len(owned.tracks) = summary.header.tracks
                               /\ summary.events <= U32Max

(* Every record reads back the bytes of its event: track ranges partition  *)
(* the records in order, the payload range of a variable event holds the   *)
(* bytes that follow its length in the file, and every range that is       *)
(* stored fits 32 bits (event_data, track_events, parse_track,             *)
(* push_variable_event).                                                   *)
EventData(r) ==
    IF IsChannel(r.event.status) THEN r.event.data
    ELSE SubSeq(owned.payloads, r.start + 1, r.start + r.len)
TrackEvents(range) == SubSeq(owned.events, range.start + 1, range.start + range.len)
RecordsReadBack ==
    /\ \A t \in DOMAIN owned.tracks : owned.tracks[t].start + owned.tracks[t].len <= U32Max
    /\ FlattenSeq([t \in DOMAIN owned.tracks |-> TrackEvents(owned.tracks[t])]) =
          SubSeq(owned.events, 1, IF stage = "events" /\ turn = "owned" THEN start
                                  ELSE Len(owned.events))
    /\ \A i \in DOMAIN owned.events :
          LET r == owned.events[i]
          IN  ~IsChannel(r.event.status) =>
                 /\ r.start <= U32Max /\ r.len <= U32Max
                 /\ r.start + r.len <= Len(owned.payloads)
                 /\ EventData(r) = SubSeq(file, r.event.at + 1, r.event.at + r.len)

(* Nothing of a file parse_smf accepts is skipped or read twice: the       *)
(* header, each track's chunk head before the bytes of the records in its  *)
(* range, and the trailing bytes make up the file again (parse_smf's       *)
(* second walk, which repeats the arithmetic of scan_smf without its       *)
(* checks).                                                                *)
LengthBytes(n) ==
    <<n \div 16777216, (n \div 65536) % 256, (n \div 256) % 256, n % 256>>
ChunkOf(records) ==
    LET bytes == FlattenSeq([i \in DOMAIN records |->
                    SubSeq(file, records[i].event.from + 1, records[i].event.to)])
    IN  Mtrk \o LengthBytes(Len(bytes)) \o bytes
BytesAccounted ==
    answer["owned"] = Ok =>
        LET size == BigEndian(SubSeq(file, 5, 8))
        IN  /\ SubSeq(file, 1, owned.consumed) =
                  SubSeq(file, 1, 8 + size)
                  \o FlattenSeq([t \in DOMAIN owned.tracks |-> ChunkOf(TrackEvents(owned.tracks[t]))])
            /\ owned.consumed + owned.trailing = Len(file)

(* The three decoders agree on a file.  When the score parser accepts it,  *)
(* so does scan, with the same header, number of events and bytes left;    *)
(* and when parse_smf accepts it too, the same events stand in its         *)
(* records.  When the score parser refuses it, that is scan's error, or a  *)
(* recognised meta event of a wrong length, or a score too large for 32    *)
(* bits, and no later than an error of scan (scan_track, parse_track and   *)
(* parse_score_track decode one by one).                                   *)
ScoreAccepts(events, stored) ==
    /\ answer["scan"] = Ok
    /\ <<scored.header, Len(events), scored.consumed, scored.trailing>> =
          <<summary.header, summary.events, summary.consumed, summary.trailing>>
    /\ answer["owned"] = Ok =>
          <<scored.header, events, scored.consumed, scored.trailing>> =
              <<owned.header, stored, owned.consumed, owned.trailing>>
ScoreRefuses(fault) ==
    CASE fault.kind = "InvalidMetaEvent" ->
            answer["scan"].ok \/ answer["scan"].offset > fault.offset
      [] fault.kind = "SizeOverflow" ->
            /\ answer["scan"].ok \/ answer["scan"].offset >= fault.offset
            /\ summary.events > U32Max \/ 3 * summary.payload > U32Max
      [] OTHER -> answer["scan"] = fault
DecodersAgree ==
    answer["score"].done =>
        IF answer["score"].ok
        THEN ScoreAccepts([i \in DOMAIN scored.events |-> scored.events[i].event],
                          [i \in DOMAIN owned.events |-> owned.events[i].event])
        ELSE ScoreRefuses(answer["score"])

(* A running status is the status of the channel message just before, in   *)
(* the same track: no meta or SysEx event and no chunk end stand between   *)
(* (running_status of parse_track and of parse_score_track; scan_track     *)
(* keeps no event to say it of, DecodersAgree compares what it reads).     *)
RunningFollowsChannel ==
    stage = "events" /\ running # NoStatus =>
        /\ turn = "owned" =>
              Len(owned.events) > start /\ Last(owned.events).event.status = running
        /\ turn = "score" =>
              /\ scored.events # <<>>
              /\ Last(scored.events).track = track
              /\ Last(scored.events).event.status = running

(* Every step of a decoder consumes input or closes a chunk it has read to *)
(* its end: it answers within a number of steps linear in the input,       *)
(* whatever the file declares (docs/architecture.md: malformed files must  *)
(* fail in bounded time).                                                  *)
Work == 2 * (Remaining(outer) + Remaining(cursor)) + One(stage = "events")
EveryStepReads == [][turn' = turn => Work' < Work]_vars

================================================================================
