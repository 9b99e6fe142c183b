# Specifications of miso-midi-core

TLA+ models of the MIDI file parsers of this repository (crate
`crates/miso-midi-core`, all in `src/lib.rs`), of the views its Python binding
computes and of the files its structured fuzz target generates, model-checked
with TLC and partly proved with TLAPS. Line numbers below are of that file
unless another is named.

## The system

The crate turns the bytes of a Standard MIDI File into one of three things:

| part | code | state it keeps | operations |
| --- | --- | --- | --- |
| byte reader | `Cursor`, 3072-3163 | position in a slice, offset of the slice | `read_u8`, `take`, `skip`, `read_vlq` |
| structural scan | `scan_smf`, `scan_track`, 317-461 | counters, running status | one pass, counts and validates |
| owned SMF | `parse_smf`, `parse_track`, 562-824 | track ranges, 16-byte records, payload arena | second pass over scanned bytes, `track_events`, `event_data` |
| score parser | `parse_score_smf*`, 2544-3070 | resource counters, running status, tick time | three entry points, two policies, three grammars |
| track builder | `ScoreTrackBuilder`, 2169-2505 | groups by channel and program, stragglers, pedals | one operation per channel message or lyric, `finish` |
| open notes | `add_note`, `end_note`, 2292-2410 | a slot per channel and pitch, linked overflow queues, free list | open, close, hand out and release a queue |
| note columns | `NoteColumnsBuilder`, 1866-2120 | narrow or wide rows, indices of completed maxima | `push`, `complete`, `promote_to_wide`, `into_segment` |
| score arena | `TickScore`, 1411-1671, 2507-2542 | columns, note segments, ranges, lazy list of notes | `push_note_segment`, `append_column`, getters, `notes`, `heap_bytes` |
| text arena | `push_text`, 1626-1670 | normalized bytes of all texts | append one text under a budget |
| score assembly | `parse_score_smf_impl`, `parse_score_track`, `ScoreTrackSemantics::meta`, 2544-3070 | text and one column per kind of global event, for all source tracks; a clock, a name and a builder for each | one operation per meta event, `finish` per track, four stable sorts at the end |
| Python bindings | `bindings/python`, `python/` | an owned file or score | `semantic_records` of each; getters |
| structured fuzzing | `fuzz/fuzz_targets/structured_score.rs` | none | makes a file of any bytes, asserts that all parsers accept it |

A parser reads a chunk with a cursor and hands each event to the track builder
and to the score (tempo, signatures, markers). Every source track has a builder
of its own; the text and the global events of all of them are kept together. The
builder keeps one group per channel and program; each group has a note column, and
the open-note tables of the whole track point into those columns. At the end of a track the groups are
moved into the score. The finished score is immutable but for the lazily built
list of notes, which several threads may ask for at once.

What is hard here: sentinels that are also legal values (durations of
`u32::MAX` and `u64::MAX`, packed starts of `u32::MAX`), indices that must
survive promotion, compaction and program changes, recycled queue headers,
checks whose order decides the reported error, three copies of the event
decoder, budgets measured in bytes that grow during normalization, and the
concurrent first call of `notes`. `PROJECT.json` lists them one by one, each
with its line and the properties that watch it.

What makes each part correct:

- note columns: every note keeps its start and duration whatever is promoted;
  the segment holds exactly the notes that ended, in start order; a column is
  wide exactly when it must be.
- open notes: per channel and pitch the notes end first-in first-out.
- track builder: the tracks are those the sequence of events defines, and the
  index tables agree, which the code asserts only in debug builds.
- score parser: the first fault wins; limits and the strict grammar only ever
  refuse more; the compatible grammar reads up to the first End-of-Track.
- score assembly: tempos, signatures and markers of all source tracks come out
  in time order and, at equal times, in file order; no program, pedal, open note,
  name or time of a source track reaches the next; the first fault is reported.
- decoders: scan, owned and score decoders read the same events and account for
  every byte; the second, unchecked pass of `parse_smf` fills exactly what the
  first one counted or refuses what `u32` cannot index; each call advances, so any input is answered in a
  number of steps linear in its bytes (`docs/architecture.md:64`).
- Python views: a caller reads the events of the file, and the tracks and texts
  of the score.
- arenas: every range reads the items or the text it was made for; the budget
  is exact; every caller of `notes` gets every note once.

## The modules

| module | models | kind |
| --- | --- | --- |
| `Ordering` | the k-th smallest of a set of positions; `InOrder`, `Kept` | operators |
| `NoteColumns` | the column as a record, one operator per method | operators |
| `CompletedNotes` | what a column promises | abstract specification |
| `NoteBuilder` | the life of one column; implements `CompletedNotes` | component |
| `NoteFifo` | what the open-note tables promise | abstract specification |
| `OpenNotes` | slots, queues, free list, as actions on any note handle | mechanism |
| `TrackNotes` | `OpenNotes` over a track; implements `NoteFifo` | component |
| `ScoreTrack` | `ScoreTrackBuilder`: composes `NoteColumns` and `OpenNotes` | composition |
| `ScoreTrackReference` | the tracks of a sequence of events, by definition | reference |
| `ScoreParser` | entry points, limits, grammars, chunk and event loops | component |
| `Cursor` | the byte reader | operators |
| `SmfReaders` | the three copies of the readers of headers, chunk heads and events | operators |
| `TrackDecoders` | scan, owned and score decoding of the bytes of a whole file | component |
| `SmfRecords` | `MidiFile.semantic_records` of the Python binding, over `TrackDecoders` | view |
| `ScoreAssembly` | the score of several source tracks: composes `ScoreTrack` with text and global columns | composition |
| `ScoreRecords` | `Score.semantic_records`, and what it should be, from the file alone | view, reference |
| `StructuredScore` | the generator of the structured fuzz target, over `ScoreParser` | driver |
| `ScoreArena` | `finish` into the score, then readers of the shared score | component |
| `TextArena` | `push_text` and the meta events that call it | component |
| `OrderingProofs` | what `InOrder` and `FlattenSeq` return, and induction over a set of numbers | lemmas |
| `NoteBuilderProofs`, `TrackNotesProofs`, `ScoreTrackProofs`, `ScoreArenaProofs`, `TrackDecodersProofs`, `ScoreParserProofs`, `TextArenaProofs` | theorems about the component of that name | proofs |

Modules that start with `MC` only give the constants of a run their values.

Conventions: an operation of the code is an action (or an operator where its
caller is the action); positions count from 1, and 0 stands for the code's
"none" sentinels; a definition that starts with the comment `Mutant` is a wrong
variant of the definition behind it, used only to confirm that a property can
fail. Properties stand at the end of the module they are about.

Each component and what stands for what:

- **NoteColumns / NoteBuilder.** `columns` is the builder: `wide`, `rows`
  (`time`, `duration`, `data`) and `maxDone` (`completed_max_duration_indices`
  as a set, which is only ever searched). A dangling note has no flag:
  `IsDangling` tests the all-ones duration and the list, as the code does. The
  guard of `NoteOff` (the row is open) is what `ScoreTrack` establishes in
  `DanglingRowsSound`.
- **OpenNotes / TrackNotes.** `slotNote` is `open_groups` with the low half of
  `open_note_states`, `slotStart` the high half. `queued` is auxiliary: the
  waiting entries of each key, from which nothing is read; `ListsAreQueues`
  says that the linked entries spell it. `queues` and `freeQueues` are the
  code's vectors; the last element of `freeQueues` is popped.
- **ScoreTrack.** `groupOf` is `groups_by_key`, `activePrograms` the bitsets,
  `pedalStarts` the open pedals. `log` is auxiliary and feeds
  `ScoreTrackReference`, where the tracks are computed from the events alone
  (which note-off ends which note, which group takes which straggler). The clock
  moves on behind each event; a delta that would take it beyond `U64Max` ends the
  parse (2994), so it is not taken here, and `ScoreAssembly` shows the error.
- **ScoreParser.** The four parsers a caller can choose run over one file in
  turn, so that their answers can be related. A file is a header with at most
  one defect and tracks of items with the sizes of their delta and body;
  `FileAssumption` says which files these are. An item has a delta of a byte or
  more and a body of a byte or more, a malformed one is refused within it. Only the
  last chunk may be cut, as nothing can stand behind the end of the input, and
  a declared track that is missing has less than a tag in its place (otherwise
  there is a chunk, or one of the wrong tag). The checks of a stage are a sequence in code order; the first that fails ends the
  parse. `FirstFaultWins` compares that with the least offset of all the faults
  of the file, computed without running the parser. Whatever a refused event
  had already charged or appended is not shown: the score and the policy are
  dropped with the error.
- **Cursor / SmfReaders / TrackDecoders.** A file is a sequence of bytes, from the
  header's tag on. The header, the head of each chunk, and then event after event
  are read, by each of the three decoders in turn. The source writes the reading
  out three times, and so does `SmfReaders`: `Scan...`, `Owned...` and `Score...`
  share the reads of `Cursor` (`read_vlq`, `take`, `validate_data_byte` and so on,
  which the source shares) and nothing else, each with its own header, chunk head,
  data bytes, payload, running status and order of checks. `FileHeader`,
  `ChunkBody` and `EventAt` give a decoder its copy. What a copy returns has the
  same form in all three, the bytes it skips noted, so that they can be compared;
  that the copies do the same is what `DecodersAgree` checks, not an assumption.
  `OwnedHeader` and `OwnedChunk` are the second walk of `parse_smf`, which looks
  at no tag and trusts the header scan returned.
  `ToU32` is `u32::try_from` with its `SizeOverflow`, over a constant `U32Max`: in
  `FirstRecord` (675), in `Pushed` (810-813, before anything is stored) and at the end of
  a track (`CloseChunk`, 736-739). After any of these errors the file under construction is
  dropped (`Refuse`). The first conversion can only fail after a track whose end
  failed already, so in effect it never does; it is there all the same.
  The score decoder keeps what it read and a tally of its text. Where its own
  ranges may overflow it may refuse: a text when `text_data` passes `U32Max`
  (`TextLengths`: a malformed sequence makes three bytes out of one to three, so
  a text has between once and three times its payload), a row or a column when
  there have been more than `U32Max` events (`RowsMayOverflow`; a column has no more
  rows than events). Which of these it is depends on data that `ScoreArena` and
  `TextArena` model; here the choice is free within those bounds.
- **SmfRecords.** The loop over track ranges, with the index of a record in the
  file made of the range's start and the index in the track, and
  `normalize_sysex`. The tuples are records of their fields.
- **ScoreAssembly / ScoreRecords.** The events of a file have been read already,
  no limit is set, and all text fits. Each source track starts a builder
  (`NewBuilder`: the variables are those of `ScoreTrack`, whose operators are
  taken through `INSTANCE`), a clock and a name; channel events and lyrics go to
  the builder, names, lyrics and markers to `textData`, the global events to
  `globals`. `ByTime` is the stable sort, by rank. What the score should be is
  stated in `ScoreRecords` over places in the file, a track and an index, without
  a builder, a clock or a sort.
- **StructuredScore.** Extends `ScoreParser`. Of a source only its length and
  whether the first byte becomes one or three bytes of text matter; the file is
  its items, and the limits are the target's own.
- **ScoreArena.** An item of a column is its group and index, so a range that
  reads a neighbour's items is seen. `finish` pushes the notes and then the
  other columns one at a time, each of which may overflow; two of the four
  columns that share `append_column` are enough. `OnceLock::get_or_init` is
  external: the value if there is one, else one thread runs the closure and the
  others wait. The closure appends one segment per step.
- **TextArena.** The encodings of characters are a constant, of which the code
  needs only that none of them begins another; a run has three characters of one,
  two and three bytes. `from_utf8` is external: the longest prefix that can be cut
  into characters, and the length of the malformed sequence behind it, which is the
  longest beginning of a character there and a byte at least. Names, lyrics and markers are `Begin`;
  lyrics and markers skip empty texts, names do not.

## What is checked

No run checks deadlock, for all of them may stop: files and texts end, a column or
a track reaches its bound, and a score that nobody calls has nothing to do.

| run | bounds | distinct states |
| --- | --- | --- |
| `NoteBuilder` | `u32::MAX` = 2, `u64::MAX` = 4, two kinds of data; up to 3 rows | 97 000 |
| `TrackNotes` | 2 keys (symmetric), 6 notes, times 0..3, `u32::MAX` = 2 | 1 020 000 |
| `ScoreTrack` | 6 events of 9 kinds on 2 channels and 2 programs | 1 193 000 |
| `ScoreParser` | tracks of 3 and 1 items of 6 kinds; all header, chunk (wrong tag, length) and trailing variations of one track of 2; 3 sets of limits | 242 000 |
| `TrackDecoders` | 27 560 files: one track of up to 5 bytes of an alphabet of 7, or of up to 3 of 14 whole or cut events; two tracks of 1 and 2; 11 headers before two of 7 chunks; every prefix of one file; two tracks of up to 7 notes, long payloads and texts together; `u32::MAX` = 4 | 286 000 |
| `ScoreAssembly` | 21 751 files of up to 2 tracks: up to 4 tempos, 3 mixed meta events, 3 texts and notes, 4 events that could leave something behind; `u32::MAX` = 8, `u64::MAX` = 17 | 251 000 |
| `StructuredScore` | every length of source (0 to 192) with a name of 1 or 3 bytes: 65 files | 14 000 |
| `ScoreArena` | 3 groups of 3 shapes, ranges up to 4, 3 threads | 96 000 |
| `TextArena` | characters of 1, 2 and 3 bytes; 2 texts of together 5 bytes, limits 2, 5 and none, ranges up to 7 | 197 000 |
| `ScoreParserOffset`, `TextArenaOverflow` | as above | stop at a violation |

Why the bounds are enough for the questions asked:

- With `u32::MAX` = 2 and `u64::MAX` = 4 there are durations below, at and
  beyond the narrow marker and at the wide one, notes that complete before and
  after a promotion, and a fourth note that overflows the index.
- Six notes on two keys let both keys overlap, release their queues in either
  order, and take a queue the other key released; starts 0 and 1 are packed, 2
  is the marker and 3 is beyond. Keys are interchangeable, so symmetry is sound
  (the properties checked with it are safety).
- In `ScoreTrack` a note, a program change, a second note and their note-offs,
  or a straggler, a program change and a group, fit in six events; times are
  distinct, so that an item is identified by its time, and starts pass the
  packed marker within the bound.
- The item kinds of `ScoreParser` are those its control tells apart. Of each
  limit at least one of the three sets is tight enough to be passed.
- The five free bytes of `TrackDecoders` cover every VLQ length against the end
  of a chunk; the pieces cover running status over each kind of event, records
  behind payloads, both SysEx forms with and without their framing bytes, and
  recognised meta events of right and wrong length. The headers are one of each
  kind the code tells apart (longer than six bytes, too short, cut, another tag
  or format, fewer and more tracks than there are), the chunks likewise. With
  `u32::MAX` = 4 a file of five events, or of a payload behind five payload bytes,
  is refused by `parse_smf`, in the first track or the second, at an event or at
  the end of a track, and four events are not; texts and rows pass the bound of
  the score parser too. Errors of the bytes stand before and behind these.
- In `ScoreAssembly` two tracks suffice, as nothing but text and global events
  outlives a track. Four tempos at two distances give runs of equal times over
  both tracks, in which only a stable sort is right. Two deltas of 9 pass
  `u64::MAX`, and one note, which starts at 0, 1 or 9, is below or beyond
  `u32::MAX`.
- `StructuredScore` is exhaustive: the control of the parser depends on nothing
  else of a source.
- Three threads let one fill the list, one wait and one come when it is done.
- A text of five broken bytes normalizes to 15 bytes, one of two to 6, so with
  ranges up to 7 the first text or the second may be the one that overflows,
  and texts that fit are read back behind each other.

Properties of the runs:

- `NoteBuilder`: `WideExactlyWhenNeeded`; `ImplementsCompletedNotes`, the
  refinement of `CompletedNotes` under the mapping "a dangling row is an open
  note".
- `TrackNotes`: `ListsAreQueues`, `HeadersConserved`, `FreeSlotHasNoQueue` (the
  `debug_assert_eq!` of `add_note`), and `ImplementsNoteFifo`, under the mapping
  "slot first, then the queue".
- `ScoreTrack`: `GroupsIndexed` (the `debug_assert_ne!` of `finish`),
  `DanglingRowsSound`, `TracksMatchEvents`.
- `ScoreParser`: `FirstFaultWins` (by offset: of two faults at one offset it does not
  say which is named), `BoundedIsTrusted`, `StrictImpliesCompatible`;
  `CompatibleStopsAtEot`: the compatible score is the trusted one without the
  events behind an End-of-Track, and what the compatible parser refuses the
  bounded parser refuses too, at no later offset and with the same error unless
  an event that only the bounded parser reads stands before that error. Such an
  event, behind an End-of-Track, may be malformed or pass a budget, and is then the bounded
  parser's error.
- `TrackDecoders`: `SecondPassFits` (the two `debug_assert_eq!` of `parse_smf`,
  and that nothing but size makes it fail behind a scan without error);
  `RecordsReadBack`, `DecodersAgree`; `RunningFollowsChannel` (of the owned and the
  score decoder, scan keeps no event to say it of); `BytesAccounted`
  (headers, events and trailing bytes are the file); the action property
  `EveryStepReads` (each step takes at least a byte off the input or ends a
  chunk, a decoder or the file); `SemanticRecordsMatch` (of a file both
  accept, the Python caller and the score parser read the same events).
- `ScoreAssembly`: `GlobalsInOrder`, `RecordsMatchFile`, `RefusedAtFirstError`.
- `StructuredScore`: `GeneratedScoresAgree`, the assertions of the fuzz target.
- `ScoreArena`: `TracksReadOwnGroup`, `NotesWholeAndOnce`, the action property
  `HeapGrowsOnce`, and the liveness property `NotesReturns`.
- `TextArena`: `TextsReadBack` against a character-by-character definition of
  normalization; `BudgetExact`.

Fairness is assumed in `ScoreArena` only: the parser goes on until it returns,
and each thread inside `notes` goes on (weak fairness of its steps, taken
together). A waiting thread has no enabled step while another fills the list,
and nobody is obliged to call. That is what a scheduler that does not starve a
runnable thread, and a closure that terminates, give; a closure that panics or
an allocation that fails is not modelled. All other properties are safety.

### Where the code and its documents differ

- The resource policy (`benchmarks/docs/score-parser-resource-policy.md:71-72`)
  gives "the triggering event's delta-VLQ start" as offset of an exceeded event,
  note or text limit. The code reports the event's first byte after the delta
  (2997, 3014). Run `ScoreParserOffset`.
- The same document (76-77) wants a range beyond `u32::MAX` to fail before its
  append. `push_text` appends first and converts the end of the range afterwards
  (1646, 1664). The error is the documented one, and the score is dropped. Run
  `TextArenaOverflow`.
- The policy (68-70) also has text limits checked "before appending the triggering
  item", and so has the parity matrix
  (`benchmarks/docs/score-parser-parity-matrix.json:202`, "before arena append",
  and 246). `push_text` checks each piece of a text before that piece, when the
  pieces before it are appended already (1633-1660); the budget is never passed,
  and the score is dropped with the error. `TextArena` models it piece by piece.

### Observations

- Stragglers of a channel that never gets another group are dropped, although the
  parity matrix (82) says "retain CC and bend rows".
- `parse_smf` has no limit on its input. On a 64-bit target a file may have more
  payload bytes or more events than `u32` indexes; `scan_smf` accepts it and
  `parse_smf` refuses it with `SizeOverflow` (736-739, 810-813), which its own
  documentation ("at the first structurally invalid or truncated byte", 636) does
  not mention.
- A group whose notes all dangle still gives a track, with no notes.
- A straggler joins the channel's next *new* group; returning to a program that
  has a group leaves it waiting.
- The `SizeOverflow` branches of group and queue indices (`u16`) cannot be
  taken: there are at most 2048 of either. Neither can an overflow-note index
  equal `NO_OPEN_NOTE` (a chunk has fewer than 2^32 bytes, a note-on three). A tick
  time could not pass `u64` either, deltas being below 2^28; with a small
  `u64::MAX` the check is in `ScoreAssembly` all the same.
- Equality of scores compares the width of the note segments, which
  `NoteSegment` derives (1047, 1444). A note that starts beyond `u32::MAX` and
  never ends widens its column and is then dropped, so two scores with the same
  notes may be unequal.

## What is proved

A theorem holds for every value of the constants that meets the named assumptions
of its module; TLC evaluates those assumptions in the runs.

### Lemmas about operators

- `OrderingProofs`: `InOrder(S)` of a finite set of natural numbers lists its
  elements, each once, in increasing order (`InOrderProperties`). `Ordering`
  defines it by rank instead of recursively so that this can be proved. Also
  `SetInduction`: a set that has 0 and the successor of each of its numbers has
  them all. The library's induction theorems take an operator, which the
  installed provers cannot instantiate; this one takes a set, and every induction
  below goes through it.
  It also has what `FlattenSeq` returns and how it grows with its argument
  (`FlattenProperties`): the community module defines it recursively, so that a
  function with the same equations is proved to exist, by that induction, and to
  be the only one. `NoteCache` and the tracks of `OwnedSmf` are flattenings.
- The first part of `NoteBuilderProofs`: `PromoteToWide` and `Push` change no other note, `Complete`
  ends one note, and a narrow column holds no duration beyond `U32Max`
  (`NarrowFits`), on which a promotion rests. Used for the life of one column and,
  through `INSTANCE`, for the columns of every group of a track; `ScoreTrackProofs`
  shows that both are the same operators (`SameColumns`) and that the assumptions of
  `NoteBuilder` hold there (`BuilderAssumption`).
- The first part of `TrackNotesProofs`: what `Open` and `Close` do to the open-note
  tables, for any set `N` of handles and any starts `S`. `TablesInv(N, S)` is the invariant; the
  tables keep linked lists in shared vectors, so what the runs check is not
  inductive by itself. It adds `WaitsOnce` (no entry waits twice, or for two keys:
  the link a note-on writes behind the tail of one list cannot lie in another),
  `HeadersOwned` (a header is in use by one key, or free once and then empty, and
  none is lost) and `PackedStartsAgree` (the start in a slot is the row's, also
  where the slot holds the marker and the start is looked up). `queued`, the
  auxiliary variable, carries the lists as sequences. `TrackNotes` has numbers for
  handles, `ScoreTrack` a group and a row, so that the lemmas serve both:
  `ScoreTrackProofs` takes them through `INSTANCE`, with keys of a channel and a
  pitch, and shows that these meet the assumption of `TrackNotes`
  (`TrackerAssumption`).

### `NoteBuilderProofs`

For every `U32Max < U64Max`, every set of data and any number of notes, from
`WidthAssumption` and `OpenAssumption`:

- `TypeCorrect`: `Spec => []TypeOK`
- `WidthCorrect`: `Spec => []WideExactlyWhenNeeded`
- `Refinement`: `Spec => ImplementsCompletedNotes`

The inductive invariant is `IInv == TypeOK /\ StartedInPast /\
WideExactlyWhenNeeded`. `StartedInPast` is needed because a note-off subtracts
the start from the present time; `WideExactlyWhenNeeded` because a promotion
copies the durations of a narrow column unchanged: they stay apart from the wide
marker only as long as none of them is beyond `U32Max`. Each step of
`CompletedNotes` follows from one of the lemmas about columns.

### `TrackNotesProofs`

For every finite set of keys, every width of a packed start, any number of notes
and any times, from the `TrackAssumption` of `TrackNotes`:

- `TypeCorrect`: `Spec => []TypeOK`
- `Lists`: `Spec => []ListsAreQueues`
- `Headers`: `Spec => []HeadersConserved`
- `FreeSlot`: `Spec => []FreeSlotHasNoQueue`
- `Refinement`: `Spec => ImplementsNoteFifo`

The inductive invariant is `TablesInv` of the track's notes with two additions.
`StartedBefore`: no row starts after now, so durations are natural numbers.
`HeadersFit`: there are no more headers than keys; the headers in use inject into
the keys, so a new one is only made while there are fewer. The abstract queue of a
key is its slot and what `queued` names behind it.

### `ScoreTrackProofs`

For any channels, number of programs, widths of a time and events, from
`ChannelAssumption` (a channel is the low nibble of a status), `EventAssumption` (an event's channel is one of the channels,
its program one of the programs, and the pitch of a note and number and value of
a control have seven bits), `TrackAssumption` and `WidthAssumption`:

- `GroupsFound`: `Spec => []GroupsIndexed`
- `TypeCorrect`: `Spec => []TypeOK`
- `NotesSound`: `Spec => []DanglingRowsSound`

There are two inductive invariants. `IInv` says of the three index tables what
`GroupsIndexed` does, with their types; what the columns of a group hold plays no
part in it. It rests on `KeyInjective` (two pairs of channel and program have two
keys), on `GroupReplaced` (a group that keeps its channel and program may change
otherwise) and on `CreateKeepsTables` (`create_group`). `FullInv` adds
`Values(now)` (every column is `ColumnOK`, and no row and no pedal starts after
the clock, or a duration would be negative) and `NotesInv`: `TablesInv` for the
handles of all groups, and that the notes that sound are exactly the rows that
dangle, each at its own channel and pitch. A group is made, promoted or extended
while notes of it sound; that such a step changes neither a row's start nor
whether it dangles (`SameLooks`) is what carries `NotesInv` over it.
`NotesSound` discharges the guard under which `NoteBuilder` is right.

### `ScoreArenaProofs`

For any groups of any sizes, any number of columns and of readers, and any
`U32Max`, from `ArenaAssumption` and `ColumnAssumption` (the columns are different
fields, and every group has a vector for each):

- `TypeCorrect`: `Spec => []TypeOK`
- `OwnGroupsRead`: `Spec => []TracksReadOwnGroup`
- `NotesOnce`: `Spec => []NotesWholeAndOnce`
- `HeapGrows`: `Spec => HeapGrowsOnce`, an action property

The invariant has three parts. `ArenaInv`: what a range was given lies under it
still, in finished tracks and in the group under way alike, since columns only
grow; in a shared score every item lies under a range. `CacheInv`: the list is the
flattening of the segments taken so far, and the one thread that fills it is the
filler. `CallsInv`: what each thread was told is nothing or the whole list. All
three rest on `FlattenProperties`.

### `TrackDecodersProofs`

For every set of files (sequences of bytes, `FilesAssumption`) and every `U32Max`
(`U32MaxAssumption`), hence for every input of any length and `u32` as it is:

- `TypeCorrect`: `Spec => []TypeOK` (the cursors stay in the file and their chunk)
- `SecondPassFitsAlways`: `Spec => []SecondPassFits`
- `DecodersAlwaysAgree`: `Spec => []DecodersAgree`
- `RunningFollows`: `Spec => []RunningFollowsChannel`
- `StepsRead`: `Spec => EveryStepReads`, an action property
- `RecordsAlwaysReadBack`: `Spec => []RecordsReadBack`
- `CallerReadsEvents`: `Spec => []SemanticRecordsMatch`, of `SmfRecords`
- `NothingSkipped`: `Spec => []BytesAccounted`

What a decoder reads next depends on its cursors, its running status and the
header alone, and the three copies of the readers come to one reader
(`HeaderIs`, `ChunkIs`, `EventIs`; the second walk of parse_smf, which looks at no
tag, comes to it on a file scan has accepted). So a file has one *walk*: the
positions met by iterating `Onto` from `WalkStart`, up to one that is finished or
refused. The inductive invariant says
of each decoder that it stands somewhere on the walk and has counted, stored or
heard just the events read up to there, and of a decoder that has answered that it
came to the end of the walk, or stopped on it for a reason of its own: the score
parser at a recognised meta event of a wrong length, either parser at what is too
large for `U32Max`. The rest are facts about the walk: it has one end
(`WalkEnds`), and nothing read is lost on it (`WalkBefore`). So a second pass
that follows an accepted scan is on a walk that ends at its finish, although it
checks nothing: no byte can stop it, only a conversion, and that means that what
it has stored, and hence what scan counted, is beyond `U32Max`. When it accepts, it has
stored what was counted. Two decoders that
both come to the end stand at the same one. That each reader takes at least a byte and
never leaves its slice is proved for every operator of `Cursor` and for the
readers; `EveryStepReads` follows from that.

`RecordsReadBack` needs a second invariant beside this one, `StoreInv`: the first
`Closed` records, those before the chunk under way, are the records under the
ranges of the tracks, in order and each once, and the payload of every record lies
in the shared arena where the record says, within `U32Max`. That this payload is also what the file
has at the event's offset comes from the walk, whose events are all in
`FileEvents`.

`SemanticRecordsMatch` also says of each event which track it is in, which the
owned parser only implies by its ranges and the score parser writes next to the
event. Both are compared with the walk: the event with a given index is read at one
position, hence in one track (`OneTrack`). The third invariant, `TellInv`, says that
what a caller would be told of the closed tracks (`AllTold`) has each closed record
once, in its track, that the records of the open chunk are read in its track, and
that each event of the score is read in the track written next to it. `Normalized`
says of any bytes what `normalize_sysex` leaves of them.

`BytesAccounted` is about the bytes between what is stored: the header, the head of
each chunk, delta times and status bytes. The fourth invariant, `BytesInv`, says
that while parse_smf is between two chunks the file up to its cursor is the header
followed by the chunks of the closed tracks (`Accounts`), that inside a chunk it is
that, the tag `MTrk`, the four bytes of the chunk's length and the bytes of the
records since `start` (`Opens`), and that a finished parser consumed the whole of
it. The second pass looks at neither tag nor length; that they are there comes from
the walk, which does (`ChunkHead`), and that the four bytes are those of the
length it read from `FourBytes`. `PushBytes` and `CloseBytes` put the parts of the
file together, one event or one chunk at a time, through `FlattenProperties`.

### `ScoreParserProofs`

For every set of files and of limits, from `FileAssumption` and `LimitAssumption`
(every limit is a natural number), so for any number of tracks and items, with
items of any size:

- `TypeCorrect`: `Spec => []TypeOK`
- `FirstFaultDecides`: `Spec => []FirstFaultWins`
- `LimitsOnlyRefuse`: `Spec => []BoundedIsTrusted`
- `StrictGivesCompatible`: `Spec => []StrictImpliesCompatible`
- `CompatibleCutsTracks`: `Spec => []CompatibleStopsAtEot`

The properties are about answers, so none of them is inductive. `IInv` says of each
parser where it stands: in front of the header, of a chunk, or in one (`At`), with
its cursor at the offset the file gives that place. It has `Passed` the place:
events, notes and text bytes counted are those of the items behind it that it reads
(`Charged`), within its budgets, the events applied are these items in order
(`Lists`), and none of them is malformed or against its grammar. A parser that has
answered stood at such a place, and answered with the first check that fails there,
or with Ok behind the last track. Each step of the code has one lemma
(`HeaderStep`, `ChunkHeaderStep`, `EventStep`, `EndOfTrackStep`, `CloseTrackStep`,
`FinishStep`); `InTurn` says that a parser that has not begun waits for the others.

`FirstFaultWins` compares the answer with the faults of the file, sets that mention
no parser. `FaultsAre` takes them apart by place; what is passed has none
(`BehindIsSound`), so every fault is ahead (`FaultsAhead`), and starts of items and
chunks grow with the place, so it is not at a lesser offset than the checks under
way. That the first check that fails is at the least of those that remain is
one lemma per place (`HeaderWins`, `ChunkWins`, `EventWins`, `EotWins`,
`CloseWins`, `FinishWins`): this is where the order of the checks in the code matters.

The comparisons follow. A parser that has no rule the other lacks and reads no more
has no more faults (`FaultsGrow`), so it accepts what the other accepts. The events
applied list what is read in the order of the file, and a set has one such list
(`ListsUnique`): parsers that read the same give the same score, and what is left
of the longer list is the shorter one (`KeptLists`). That limits leave any other
error as it is needs more than offsets: what the Legacy grammar refuses whatever
the limits is found at one place (`FirstBroken`), so there is one `PlainAnswer` to
a file, and both parsers without a limit error give it (`LegacyAnswer`).
`CompatibleStopsAtEot` compares an error too. Unless a skipped event stands before
it, the compatible parser stopped at a place in front of which both read the same
(`SamePlace`), where every check of the compatible grammar is one of the bounded
parser's in the same order (`SameChecks`); the bounded parser passes what is sound
(`SoundBefore`) and stops at that place with that check (`SameRefusal`).

### `TextArenaProofs`

For every encoding of characters, any payloads, limits and number of texts and any
`U32Max`, from `CharsAssumption` (an encoding is not empty and none begins another,
as in UTF-8) and `BoundAssumption` (the bounds are natural numbers):

- `TypeCorrect`: `Spec => []TypeOK`
- `KeptTextsReadBack`: `Spec => []TextsReadBack`
- `BudgetIsExact`: `Spec => []BudgetExact`

What a payload should become (`Normal`) is defined from its beginning, one character
or malformed sequence at a time; `push_text` takes the longest valid run at once and
looks at what is left again. The inductive invariant joins the two: while a text is
pushed there is a position `p` in its payload such that what has been appended,
followed by what the payload becomes from `p` on, is the normalized text (`PushedTo`,
`Completes`). Appending a run keeps it since a run that can be cut into characters
becomes itself (`WholeIsNormal`); replacing a malformed sequence keeps it since no
character begins behind the longest valid run (`NoCharBehindValid`: the run would be
longer). A text is then refused only if it does not fit: an appended piece is part
of its normalized text. `Idle` says of the time between two texts that the arena
ends where the last text kept does, and `ReadsBack` that what is appended leaves
every earlier range as it was.

That `Normal` has the equation it is defined by is not to be had from an induction
theorem either: the pieces from each position are proved to exist by `SetInduction`
on the length of what is left (`PiecesExist`, `NormalUnrolls`), and the sum of their
lengths likewise (`KeptBytesIsEnd`).

### What stays with TLC

- Liveness (`NotesReturns`) and fairness.
- `TracksMatchEvents` and the properties of `ScoreAssembly` compare two
  computations over the whole input, with folds and recursive functions on one
  side or on both. Each would need lemmas proved by induction, through
  `SetInduction`, for every operator involved, as was done for `FlattenSeq`, for
  the walk and for the normalization of a text.
- `GeneratedScoresAgree` of `StructuredScore`, whose runs are exhaustive anyway,
  and the types of `ScoreAssembly`.

## Plan

Done: every component that keeps state is modelled and checked; the note column,
the open-note tables, the index tables and the columns of the track builder, the
arena with its cache, the decoders, the control of the score parser and the text
arena are proved about. What could follow:

1. `ScoreTrack`: that the tracks are those of `ScoreTrackReference`
   (`TracksMatchEvents`), from `FullInv` and an invariant that reads the reference
   off the events heard so far.
2. `StructuredScore`: that every generated file is without a fault, from which
   `GeneratedScoresAgree` follows by `FirstFaultDecides`.

## Not modelled

- The byte layout of packed rows, values of controls and bends, `heap_bytes` in
  bytes (items are counted), capacity hints: data no property tells apart.
- Error texts, value types and their accessors, the `no_std` build, where the
  cache is a `OnceCell` and cannot be shared between threads.
- Of the Python binding: getters, argument conversion, exceptions, and PyO3 with
  its reference counting and its lock.
- The `smf_apis` fuzz target, which gives arbitrary bytes to every entry point and
  asserts nothing: that each answers in bounded time is `EveryStepReads`.
- The assertions of the structured fuzz target that `scan_smf` and `parse_smf`
  accept its files (34-38): `StructuredScore` is over items, not bytes. That they
  accept where a score parser does, but for size, is `DecodersAgree`.
- Targets of less than 64 bits: conversions to `usize` and sums of offsets that cannot
  fail there are left out (339, 380, 423, 640-648 and the like).
- Benchmarks, corpora and evidence tooling: they measure the library.
- An index of an overflow note equal to `NO_OPEN_NOTE` (2318): out of reach of any
  chunk, see the observations.
