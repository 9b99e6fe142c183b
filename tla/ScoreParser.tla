------------------------------- MODULE ScoreParser -----------------------------
(***************************************************************************)
(* The control of the score parser: parse_score_smf_impl and               *)
(* parse_score_track, generic in a resource policy and a grammar.  The     *)
(* entry points of the crate are four parsers of one file, run one after   *)
(* the other so that their answers can be compared:                        *)
(*   trusted     parse_score_smf               no limits   Legacy grammar  *)
(*   bounded     parse_score_smf_with_limits   limits      Legacy          *)
(*   compatible  parse_score_smf_with_options  limits      Compatible      *)
(*   strict      parse_score_smf_with_options  limits      Strict          *)
(*                                                                         *)
(* Abstractions.  A file is a header and tracks of items; an item is an    *)
(* event with the bytes of its delta and of its body, so that offsets are  *)
(* the code's.  What an event does to the score is ScoreTrack's business:  *)
(* here the events that reach the score are listed (`applied').  An item   *)
(* of kind "fault" stands for every event that fails before it is charged, *)
(* with the error `text' bytes behind its first byte: at it an invalid     *)
(* status, missing running status or a meta event of the wrong length,     *)
(* behind it a data byte that is none or the end of the chunk.  Text       *)
(* counts its normalized bytes (see TextArena).                            *)
(***************************************************************************)
EXTENDS Integers, Sequences, FiniteSets, FiniteSetsExt, Ordering

CONSTANTS
    Files,      \* bound: the files to parse
    Limits      \* bound: the ScoreParseLimits to parse them under

Item == [kind : {"note", "text", "other", "fault", "eot"},
         delta : Nat \ {0}, body : Nat \ {0}, text : Nat]

(* A file is a header, tracks and bytes behind the last of them.  Tracks   *)
(* beyond those are declared but missing, with less than a tag in their    *)
(* place.  The chunk `badTag' is not called MTrk; the last one may be cut, *)
(* the last byte of its body missing.                                      *)
ASSUME FileAssumption ==
    \A f \in Files :
        /\ f.header \in {"ok", "tag", "short", "format", "division"}
        /\ f.tracks \in Seq([items : Seq(Item)])
        /\ f.declared \in Nat /\ f.declared >= Len(f.tracks)
        /\ f.trailing \in Nat /\ f.badTag \in Nat
        /\ f.declared > Len(f.tracks) => f.trailing < 4
        /\ \/ f.cut = 0
           \/ f.cut = Len(f.tracks) /\ f.tracks[f.cut].items # <<>> /\ f.trailing = 0
        /\ \A t \in DOMAIN f.tracks : \A i \in DOMAIN f.tracks[t].items :
              LET it == f.tracks[t].items[i]
              IN  it.kind = "fault" => it.text <= it.body

Resources == {"inputBytes", "sourceTracks", "trackBytes", "events", "noteStarts", "textBytes"}

ASSUME LimitAssumption == Limits \subseteq [Resources -> Nat]

VARIABLES
    file,       \* the input, the same for every parser
    limits,     \* the limits of the bounded parsers
    stage,      \* parser -> where it is
    offset,     \* parser -> absolute_offset of its cursor
    track,      \* parser -> the source track
    item,       \* parser -> the next item of that track
    sawEot,     \* parser -> saw_end_of_track
    events,     \* parser -> the policy's event counter
    noteStarts, \* parser -> the policy's note-start counter
    textBytes,  \* parser -> length of text_data
    applied,    \* parser -> the events handed to the score
    outcome     \* parser -> the error and its offset, or Ok

cursors == <<offset, track, item, sawEot>>
budget == <<events, noteStarts>>
vars == <<file, limits, stage, cursors, budget, textBytes, applied, outcome>>

Parsers == <<"trusted", "bounded", "compatible", "strict">>
Modes == {Parsers[i] : i \in DOMAIN Parsers}

Pending == [kind |-> "pending", offset |-> 0]
Ok == [kind |-> "ok", offset |-> 0]

(* Mutant: the compatible grammar does not stop at End-of-Track. *)
StopOnlyWhenStrict(m) == m = "strict"

(* Mutant: the entry point with limits has the compatible grammar. *)
StopWhenBounded(m) == m \in {"bounded", "compatible", "strict"}

(* The constants of the grammars. *)
StopAtEndOfTrack(m) == m \in {"compatible", "strict"}
RequireEndOfTrack(m) == m = "strict"
ValidateDivision(m) == m = "strict"

(* Mutant: the grammars' flags for trailing bytes are swapped. *)
RejectTrailingWhenCompatible(m) == m = "compatible"

RejectTrailingBytes(m) == m = "strict"

(* The limited policy refuses an amount of a resource; the unlimited one   *)
(* refuses nothing.                                                        *)
Exceeds(m, resource, amount) == m # "trusted" /\ amount > limits[resource]

--------------------------------------------------------------------------------
(* The shape of a file. *)

HeaderBytes == 14
ChunkHead == 8

ItemBytes(it) == it.delta + it.body

(* The bytes of the first n items of a track. *)
BytesBefore(items, n) ==
    LET sum[k \in 0..Len(items)] == IF k = 0 THEN 0 ELSE sum[k - 1] + ItemBytes(items[k])
    IN  sum[n]
TrackBytes(t) == BytesBefore(file.tracks[t].items, Len(file.tracks[t].items))

(* Where the chunk of track t starts, and its body. *)
ChunkStart(t) ==
    LET start[k \in 1..(Len(file.tracks) + 1)] ==
            IF k = 1 THEN HeaderBytes ELSE start[k - 1] + ChunkHead + TrackBytes(k - 1)
    IN  start[t]
BodyStart(t) == ChunkStart(t) + ChunkHead
FileEnd == ChunkStart(Len(file.tracks) + 1)
InputBytes == FileEnd + file.trailing - (IF file.cut # 0 THEN 1 ELSE 0)

--------------------------------------------------------------------------------
Init ==
    /\ file \in Files
    /\ limits \in Limits
    /\ stage = [m \in Modes |-> "input"]
    /\ offset = [m \in Modes |-> 0]
    /\ track = [m \in Modes |-> 1]
    /\ item = [m \in Modes |-> 1]
    /\ sawEot = [m \in Modes |-> FALSE]
    /\ events = [m \in Modes |-> 0]
    /\ noteStarts = [m \in Modes |-> 0]
    /\ textBytes = [m \in Modes |-> 0]
    /\ applied = [m \in Modes |-> <<>>]
    /\ outcome = [m \in Modes |-> Pending]

(* Parsers do not interact: the next one starts when the last has answered. *)
Turn(m) ==
    \E i \in DOMAIN Parsers : /\ Parsers[i] = m /\ stage[m] # "done"
                              /\ \A j \in 1..(i - 1) : stage[Parsers[j]] = "done"

End(m, answer) ==
    /\ stage' = [stage EXCEPT ![m] = "done"]
    /\ outcome' = [outcome EXCEPT ![m] = answer]
    /\ UNCHANGED <<file, limits, cursors, budget, textBytes, applied>>

Fail(m, kind, at) == End(m, [kind |-> kind, offset |-> at])

Goto(m, place, at) ==
    /\ stage' = [stage EXCEPT ![m] = place]
    /\ offset' = [offset EXCEPT ![m] = at]
    /\ UNCHANGED <<file, limits, outcome>>

(* The checks of a stage in the order of the code: the first that fails    *)
(* ends the parse.                                                         *)
Check(fails, kind, at) == [fails |-> fails, kind |-> kind, offset |-> at]
Failing(checks) == {i \in DOMAIN checks : checks[i].fails}
Refuse(m, checks) ==
    LET first == checks[Min(Failing(checks))]
    IN  End(m, [kind |-> first.kind, offset |-> first.offset])

(* Mutant: the declared tracks are checked after the division. *)
HeaderChecksLate(m) ==
    <<Check(Exceeds(m, "inputBytes", InputBytes), "InputBytes", 0),
      Check(file.header = "tag", "ExpectedChunk", 0),
      Check(file.header = "short", "HeaderTooShort", 4),
      Check(file.header = "format", "InvalidFormat", 8),
      Check(ValidateDivision(m) /\ file.header = "division", "InvalidDivision", 12),
      Check(Exceeds(m, "sourceTracks", file.declared), "SourceTracks", 10)>>

(* check_input, then the header fields up to validate_strict_division. *)
HeaderChecks(m) ==
    <<Check(Exceeds(m, "inputBytes", InputBytes), "InputBytes", 0),
      Check(file.header = "tag", "ExpectedChunk", 0),
      Check(file.header = "short", "HeaderTooShort", 4),
      Check(file.header = "format", "InvalidFormat", 8),
      Check(Exceeds(m, "sourceTracks", file.declared), "SourceTracks", 10),
      Check(ValidateDivision(m) /\ file.header = "division", "InvalidDivision", 12)>>

Header(m) ==
    /\ stage[m] = "input"
    /\ IF Failing(HeaderChecks(m)) # {} THEN Refuse(m, HeaderChecks(m))
       ELSE /\ Goto(m, "chunk", HeaderBytes)
            /\ UNCHANGED <<track, item, sawEot, budget, textBytes, applied>>

(* The head of the next declared chunk: its tag, its size limit, its bytes. *)
ChunkChecks(m) ==
    LET t == track[m]
        missing == t > Len(file.tracks)
    IN  <<Check(missing, "UnexpectedEnd", offset[m]),
          Check(~missing /\ file.badTag = t, "ExpectedChunk", offset[m]),
          Check(~missing /\ Exceeds(m, "trackBytes", TrackBytes(t)), "TrackBytes", offset[m] + 4),
          Check(~missing /\ file.cut = t, "UnexpectedEnd", offset[m] + ChunkHead)>>

ChunkHeader(m) ==
    /\ stage[m] = "chunk"
    /\ track[m] <= file.declared
    /\ IF Failing(ChunkChecks(m)) # {} THEN Refuse(m, ChunkChecks(m))
       ELSE /\ Goto(m, "events", offset[m] + ChunkHead)
            /\ item' = [item EXCEPT ![m] = 1]
            /\ sawEot' = [sawEot EXCEPT ![m] = FALSE]
            /\ UNCHANGED <<track, budget, textBytes, applied>>

Items(m) == file.tracks[track[m]].items
Current(m) == Items(m)[item[m]]
InTrack(m) == stage[m] = "events" /\ ~sawEot[m] /\ item[m] <= Len(Items(m))
EventOffset(m) == offset[m] + Current(m).delta

StopsHere(m) == StopAtEndOfTrack(m) /\ Current(m).kind = "eot"
NotesOf(it) == IF it.kind = "note" THEN 1 ELSE 0
TextOf(it) == IF it.kind = "text" THEN it.text ELSE 0

(* The structure and the recognised payload first, then the event, then    *)
(* the note or the text it carries (parse_score_track, channel, meta).     *)
EventChecks(m) ==
    LET it == Current(m)
    IN  <<Check(it.kind = "fault", "Malformed", EventOffset(m) + it.text),
          Check(Exceeds(m, "events", events[m] + 1), "Events", EventOffset(m)),
          Check(it.kind = "note" /\ Exceeds(m, "noteStarts", noteStarts[m] + 1),
                "NoteStarts", EventOffset(m)),
          Check(it.kind = "text" /\ Exceeds(m, "textBytes", textBytes[m] + it.text),
                "TextBytes", EventOffset(m))>>

Event(m) ==
    /\ InTrack(m)
    /\ ~StopsHere(m)
    /\ LET it == Current(m)
       IN  IF Failing(EventChecks(m)) # {} THEN Refuse(m, EventChecks(m))
           ELSE /\ Goto(m, "events", offset[m] + ItemBytes(it))
                /\ item' = [item EXCEPT ![m] = @ + 1]
                /\ events' = [events EXCEPT ![m] = @ + 1]
                /\ noteStarts' = [noteStarts EXCEPT ![m] = @ + NotesOf(it)]
                /\ textBytes' = [textBytes EXCEPT ![m] = @ + TextOf(it)]
                /\ applied' = [applied EXCEPT ![m] =
                                  IF it.kind = "eot" THEN @
                                  ELSE Append(@, <<track[m], item[m]>>)]
                /\ UNCHANGED <<track, sawEot>>

(* Mutant: the rest is measured from the End-of-Track on. *)
ChunkEndFromHere(m) == offset[m] + TrackBytes(track[m])

(* Where the cursor is once the declared chunk is read or skipped. *)
ChunkEnd(m) == BodyStart(track[m]) + TrackBytes(track[m])

(* handle_end_of_track: the strict grammar wants it empty and last, the    *)
(* compatible one skips what is left of the chunk.                         *)
EotChecks(m) ==
    <<Check(RequireEndOfTrack(m) /\ Current(m).text # 0, "InvalidEndOfTrackLength", EventOffset(m)),
      Check(Exceeds(m, "events", events[m] + 1), "Events", EventOffset(m)),
      Check(RequireEndOfTrack(m) /\ item[m] < Len(Items(m)), "EventAfterEndOfTrack",
            offset[m] + ItemBytes(Current(m)))>>

EndOfTrack(m) ==
    /\ InTrack(m)
    /\ StopsHere(m)
    /\ IF Failing(EotChecks(m)) # {} THEN Refuse(m, EotChecks(m))
       ELSE /\ Goto(m, "events", ChunkEnd(m))
            /\ sawEot' = [sawEot EXCEPT ![m] = TRUE]
            /\ events' = [events EXCEPT ![m] = @ + 1]
            /\ UNCHANGED <<track, item, noteStarts, textBytes, applied>>

(* The track is read to its end, or to its End-of-Track. *)
CloseTrack(m) ==
    /\ stage[m] = "events"
    /\ sawEot[m] \/ item[m] > Len(Items(m))
    /\ IF RequireEndOfTrack(m) /\ ~sawEot[m]
       THEN Fail(m, "MissingEndOfTrack", offset[m])
       ELSE /\ Goto(m, "chunk", offset[m])
            /\ track' = [track EXCEPT ![m] = @ + 1]
            /\ UNCHANGED <<item, sawEot, budget, textBytes, applied>>

(* Every declared track is read: what is left are trailing bytes. *)
Finish(m) ==
    /\ stage[m] = "chunk"
    /\ track[m] > file.declared
    /\ IF RejectTrailingBytes(m) /\ file.trailing # 0
       THEN Fail(m, "TrailingBytes", offset[m])
       ELSE End(m, Ok)

Step(m) == Header(m) \/ ChunkHeader(m) \/ Event(m) \/ EndOfTrack(m) \/ CloseTrack(m) \/ Finish(m)

Next == \E m \in Modes : Turn(m) /\ Step(m)

Spec == Init /\ [][Next]_vars

--------------------------------------------------------------------------------
(* Cursors stay inside the input, and counters count events of the file. *)
TypeOK ==
    /\ stage \in [Modes -> {"input", "chunk", "events", "done"}]
    /\ \A m \in Modes :
          /\ offset[m] \in 0..InputBytes
          /\ track[m] \in 1..(file.declared + 1)
          /\ item[m] \in Nat \ {0}
          /\ sawEot[m] \in BOOLEAN
          /\ events[m] \in Nat /\ noteStarts[m] \in 0..events[m] /\ textBytes[m] \in Nat
          /\ outcome[m].kind = "pending" <=> stage[m] # "done"

Answered(m) == stage[m] = "done"
Accepted(m) == outcome[m] = Ok
LimitKinds == {"InputBytes", "SourceTracks", "TrackBytes", "Events", "NoteStarts", "TextBytes"}

(* What a parser reads of the file: everything, or each track up to its    *)
(* first End-of-Track.                                                     *)
ItemAt(p) == file.tracks[p[1]].items[p[2]]
Positions == UNION {{<<t, i>> : i \in DOMAIN file.tracks[t].items} : t \in DOMAIN file.tracks}
ReadBy(m) ==
    {p \in Positions : m \in {"compatible", "strict"} =>
                          \A j \in 1..(p[2] - 1) : ItemAt(<<p[1], j>>).kind # "eot"}

(* The notes among some items, and the text bytes, each with its place.     *)
Notes(S) == {p \in S : ItemAt(p).kind = "note"}
Texts(S) == UNION {{p} \X (1..TextOf(ItemAt(p))) : p \in S}

Before(p, q) == p[1] < q[1] \/ (p[1] = q[1] /\ p[2] <= q[2])
StartOf(p) == BodyStart(p[1]) + BytesBefore(file.tracks[p[1]].items, p[2] - 1)
EventAt(p) == StartOf(p) + ItemAt(p).delta

(* The offsets of everything that parser m must refuse in the file.        *)
HeaderFaults(m) ==
    {HeaderChecks(m)[i].offset : i \in Failing(HeaderChecks(m))}
ChunkFaults(m) ==
    {ChunkStart(t) + 4 : t \in {u \in DOMAIN file.tracks : Exceeds(m, "trackBytes", TrackBytes(u))}}
    \cup {ChunkStart(t) : t \in {u \in DOMAIN file.tracks : file.badTag = u}}
    \cup {BodyStart(t) : t \in {u \in DOMAIN file.tracks : file.cut = u}}
    \cup (IF file.declared > Len(file.tracks) THEN {FileEnd} ELSE {})
EventFaults(m) ==
    LET read == ReadBy(m)
        UpTo(p) == {q \in read : Before(q, p)}
        Refused(p) ==
            \/ ItemAt(p).kind = "fault"
            \/ Exceeds(m, "events", Cardinality(UpTo(p)))
            \/ Exceeds(m, "noteStarts", Cardinality(Notes(UpTo(p))))
            \/ Exceeds(m, "textBytes", Cardinality(Texts(UpTo(p))))
        FaultAt(p) == EventAt(p) + (IF ItemAt(p).kind = "fault" THEN ItemAt(p).text ELSE 0)
    IN  {FaultAt(p) : p \in {q \in read : Refused(q)}}
GrammarFaults(m) ==
    LET eots == {p \in ReadBy(m) : ItemAt(p).kind = "eot"}
    IN  IF m # "strict" THEN {}
        ELSE {EventAt(p) : p \in {q \in eots : ItemAt(q).text # 0}}
             \cup {EventAt(p) + ItemAt(p).body : p \in
                      {q \in eots : q[2] < Len(file.tracks[q[1]].items)}}
             \cup {BodyStart(t) + TrackBytes(t) : t \in
                      {u \in DOMAIN file.tracks : \A p \in eots : p[1] # u}}
             \cup (IF file.trailing # 0 THEN {FileEnd} ELSE {})
Faults(m) == HeaderFaults(m) \cup ChunkFaults(m) \cup EventFaults(m) \cup GrammarFaults(m)

(* A parser accepts exactly the files without a fault, and refuses any     *)
(* other at the offset of its first one: the first invalid byte wins, with *)
(* budgets counted over all tracks and each of them checked before the     *)
(* item that exceeds it is applied (parse_score_smf_impl,                  *)
(* parse_score_track, LimitedScoreParsePolicy, handle_end_of_track).       *)
FirstFaultWins ==
    \A m \in Modes : Answered(m) =>
        IF Faults(m) = {} THEN Accepted(m)
        ELSE ~Accepted(m) /\ outcome[m].offset = Min(Faults(m))

(* Limits only ever refuse: a file the bounded parser accepts gives the    *)
(* trusted parser's score, and one it refuses for another reason than a    *)
(* limit is refused by the trusted parser too, in the same way.            *)
BoundedIsTrusted ==
    Answered("bounded") =>
        /\ Accepted("bounded") => /\ Accepted("trusted")
                                  /\ applied["bounded"] = applied["trusted"]
        /\ ~Accepted("bounded") /\ outcome["bounded"].kind \notin LimitKinds
              => outcome["trusted"] = outcome["bounded"]

(* Strict only ever refuses more: what it accepts, the compatible parser   *)
(* accepts with the same score and the same count of events.               *)
StrictImpliesCompatible ==
    Answered("strict") /\ Accepted("strict") =>
        /\ Accepted("compatible")
        /\ applied["compatible"] = applied["strict"]
        /\ events["compatible"] = events["strict"]

(* The compatible parser reads each track up to its first End-of-Track:    *)
(* its score is the trusted parser's without the events behind one.  A     *)
(* file it refuses, the bounded parser refuses at no later offset, and     *)
(* with the same error unless an event that only the bounded parser reads  *)
(* stands before that error (handle_end_of_track).                         *)
Skipped == Positions \ ReadBy("compatible")
CompatibleStopsAtEot ==
    Answered("compatible") =>
        /\ Accepted("compatible") /\ Accepted("trusted") =>
              applied["compatible"] =
                 LET all == applied["trusted"]
                 IN  Kept(all, {i \in DOMAIN all : all[i] \in ReadBy("compatible")})
        /\ ~Accepted("compatible") =>
              /\ ~Accepted("bounded")
              /\ outcome["bounded"].offset <= outcome["compatible"].offset
              /\ (\A p \in Skipped : EventAt(p) > outcome["compatible"].offset) =>
                    outcome["bounded"] = outcome["compatible"]

(* The stated offset of an exceeded event, note or text budget: the start  *)
(* of the delta time of the event that exceeds it.                         *)
LimitErrorAtDelta ==
    \A m \in Modes : Answered(m) /\ outcome[m].kind \in {"Events", "NoteStarts", "TextBytes"} =>
        \E p \in Positions : outcome[m].offset = StartOf(p)

================================================================================
