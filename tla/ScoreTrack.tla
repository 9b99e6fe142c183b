------------------------------- MODULE ScoreTrack ------------------------------
(***************************************************************************)
(* ScoreTrackBuilder: one source track's events, sorted into one group per *)
(* channel and program.  A group exists from its first note (or lyric) on; *)
(* what a channel receives while its current program has no group waits as *)
(* a straggler of the channel and goes to the channel's next new group,    *)
(* whatever that group's program.  At the end of the track the groups      *)
(* become tracks, in channel/program order.                                *)
(*                                                                         *)
(* Composition: the notes of a group are a column of NoteColumns, the open *)
(* notes of the whole track are kept by OpenNotes, with handles that name  *)
(* a group and a row.                                                      *)
(*                                                                         *)
(* Abstractions: a note's velocity and the values of controls and bends    *)
(* matter only where the code tests them (velocity 0, pedal threshold); an *)
(* event is identified by its time, the text of a lyric is any value.  The *)
(* capacity hint, which only sizes an allocation, is left out.  Groups are *)
(* numbered from 1, 0 is NO_GROUP.                                         *)
(***************************************************************************)
EXTENDS NoteColumns

CONSTANTS
    Channels,   \* 0..15 in the code
    Programs,   \* how many programs: 128 in the code
    Events,     \* bound: the channel messages and lyrics that may occur
    Deltas,     \* bound: the delta times
    MaxEvents,  \* bound: the events of the track
    Free,       \* a direct slot with no note
    NotHeld     \* a pedal that is up

ASSUME ChannelAssumption == Channels \subseteq 0..15 /\ 0 \in Channels /\ Programs \in Nat \ {0}

(* The low nibble of a status byte is a channel, a data byte has seven bits. *)
ASSUME EventAssumption ==
    \A e \in Events :
        /\ e.kind \in {"note_on", "note_off", "control", "bend", "program"} => e.channel \in Channels
        /\ e.kind \in {"note_on", "note_off"} => e.pitch \in 0..127
        /\ e.kind = "program" => e.program \in 0..(Programs - 1)
        /\ e.kind = "control" => e.number \in 0..127 /\ e.value \in 0..127

(* A delta time is a number, NO_GROUP no group's row. *)
ASSUME TrackAssumption == Deltas \subseteq Nat /\ Free \notin [group : Nat, row : Nat]

VARIABLES
    programs,       \* channel -> its current program
    groupOf,        \* group key -> the group, or 0 (groups_by_key)
    groups,         \* the groups in order of creation
    activePrograms, \* channel -> the programs that have a group (the bitsets)
    stragglers,     \* channel -> columns that wait for a group
    pedalStarts,    \* channel -> the time the pedal went down, or NotHeld
    slotNote, slotStart, queueOf, entries, queues, freeQueues, queued,
    now,            \* the tick time of the next event
    log,            \* auxiliary: the events applied so far, with their times
    phase,          \* "reading", then "finished" or, on SizeOverflow, "failed"
    tracks          \* what finish appended to the score

tracker == <<slotNote, slotStart, queueOf, entries, queues, freeQueues, queued>>
grouping == <<groupOf, groups, activePrograms, stragglers>>
vars == <<programs, grouping, pedalStarts, tracker, now, log, phase, tracks>>

NoGroup == 0
Key(channel, program) == channel * Programs + program
GroupKeys == {Key(c, p) : c \in Channels, p \in 0..(Programs - 1)}

Pitches == {e.pitch : e \in {f \in Events : f.kind \in {"note_on", "note_off"}}}
NoteKeys == Channels \X Pitches
Tracker == INSTANCE OpenNotes WITH Keys <- NoteKeys

Handles == UNION {{[group |-> g, row |-> r] : r \in DOMAIN groups[g].notes.rows}
                     : g \in DOMAIN groups}
RowStarts == [h \in Handles |-> groups[h.group].notes.rows[h.row].time]

NoColumns == [controls |-> <<>>, bends |-> <<>>, pedals |-> <<>>, lyrics |-> <<>>]

NewGroup(channel, program, waiting) ==
    [channel |-> channel, program |-> program, notes |-> EmptyColumns,
     controls |-> waiting.controls, bends |-> waiting.bends,
     pedals |-> waiting.pedals, lyrics |-> waiting.lyrics]

IsEmptyGroup(group) ==
    /\ group.notes.rows = <<>> /\ group.controls = <<>> /\ group.bends = <<>>
    /\ group.pedals = <<>> /\ group.lyrics = <<>>

Init ==
    /\ programs = [c \in Channels |-> 0]
    /\ groupOf = [k \in GroupKeys |-> NoGroup]
    /\ groups = <<>>
    /\ activePrograms = [c \in Channels |-> {}]
    /\ stragglers = [c \in Channels |-> NoColumns]
    /\ pedalStarts = [c \in Channels |-> NotHeld]
    /\ Tracker!TrackerInit
    /\ now = 0
    /\ log = <<>>
    /\ phase = "reading"
    /\ tracks = <<>>

--------------------------------------------------------------------------------
(* The group of a channel's current program. *)

CurrentKey(c) == Key(c, programs[c])
CurrentGroup(c) == groupOf[CurrentKey(c)]

(* Mutant: the stragglers are copied into the new group but not taken. *)
CreateGroupCopyingStragglers(c) ==
    [groups |-> Append(groups, NewGroup(c, programs[c], stragglers[c])),
     groupOf |-> [groupOf EXCEPT ![CurrentKey(c)] = Len(groups) + 1],
     activePrograms |-> [activePrograms EXCEPT ![c] = @ \cup {programs[c]}],
     stragglers |-> stragglers]

(* Mutant: the index of the new group is taken after the push. *)
CreateGroupLate(c) ==
    [groups |-> Append(groups, NewGroup(c, programs[c], stragglers[c])),
     groupOf |-> [groupOf EXCEPT ![CurrentKey(c)] = Len(groups) + 2],
     activePrograms |-> [activePrograms EXCEPT ![c] = @ \cup {programs[c]}],
     stragglers |-> [stragglers EXCEPT ![c] = NoColumns]]

(* create_group: the new group takes the stragglers of its channel. *)
CreateGroup(c) ==
    [groups |-> Append(groups, NewGroup(c, programs[c], stragglers[c])),
     groupOf |-> [groupOf EXCEPT ![CurrentKey(c)] = Len(groups) + 1],
     activePrograms |-> [activePrograms EXCEPT ![c] = @ \cup {programs[c]}],
     stragglers |-> [stragglers EXCEPT ![c] = NoColumns]]

(* Mutant: a group counts as present for its channel, whatever the program. *)
EnsureGroupOfChannel(c) ==
    IF activePrograms[c] # {}
    THEN [groups |-> groups,
          groupOf |-> [groupOf EXCEPT ![CurrentKey(c)] =
                          groupOf[Key(c, CHOOSE p \in activePrograms[c] : TRUE)]],
          activePrograms |-> activePrograms, stragglers |-> stragglers]
    ELSE CreateGroup(c)

(* ensure_group: the grouping once the channel's current program has one. *)
EnsureGroup(c) ==
    IF CurrentGroup(c) # NoGroup
    THEN [groups |-> groups, groupOf |-> groupOf,
          activePrograms |-> activePrograms, stragglers |-> stragglers]
    ELSE CreateGroup(c)

SetGrouping(s, newGroups) ==
    /\ groups' = newGroups
    /\ groupOf' = s.groupOf
    /\ activePrograms' = s.activePrograms
    /\ stragglers' = s.stragglers

(* group_or_straggler_mut: where `items', by column, are appended. *)
Extend(cols, items) ==
    [cols EXCEPT !.controls = @ \o items.controls, !.bends = @ \o items.bends,
                 !.pedals = @ \o items.pedals]

AppendToGroupOrStraggler(c, items) ==
    LET g == CurrentGroup(c)
    IN  /\ groups' = IF g = NoGroup THEN groups
                     ELSE [groups EXCEPT ![g] = Extend(@, items)]
        /\ stragglers' = IF g = NoGroup THEN [stragglers EXCEPT ![c] = Extend(@, items)]
                         ELSE stragglers
        /\ UNCHANGED <<groupOf, activePrograms>>

--------------------------------------------------------------------------------
(* One operator per event of the source track. *)

(* Mutant: the note is remembered under the row before its own. *)
NoteOnRowBefore(c, pitch) ==
    LET s == EnsureGroup(c)
        g == s.groupOf[CurrentKey(c)]
        column == s.groups[g].notes
    IN  /\ CanPush(column)
        /\ SetGrouping(s, [s.groups EXCEPT ![g].notes = Push(column, now, pitch)])
        /\ Tracker!Open(<<c, pitch>>, [group |-> g, row |-> Len(column.rows)], now)
        /\ UNCHANGED <<programs, pedalStarts, phase>>

(* add_note *)
NoteOn(c, pitch) ==
    LET s == EnsureGroup(c)
        g == s.groupOf[CurrentKey(c)]
        column == s.groups[g].notes
    IN  /\ CanPush(column)
        /\ SetGrouping(s, [s.groups EXCEPT ![g].notes = Push(column, now, pitch)])
        /\ Tracker!Open(<<c, pitch>>, [group |-> g, row |-> Len(column.rows) + 1], now)
        /\ UNCHANGED <<programs, pedalStarts, phase>>

(* The row index of the group does not fit u32: the parse fails. *)
NoteOnOverflow(c) ==
    /\ CurrentGroup(c) # NoGroup
    /\ ~CanPush(groups[CurrentGroup(c)].notes)
    /\ phase' = "failed"
    /\ UNCHANGED <<programs, grouping, pedalStarts, tracker>>

(* end_note *)
NoteOff(c, pitch) ==
    LET h == slotNote[<<c, pitch>>]
    IN  /\ h # Free
        /\ groups' = [groups EXCEPT ![h.group].notes =
                         Complete(@, h.row, now - Tracker!StartOf(<<c, pitch>>, RowStarts))]
        /\ Tracker!Close(<<c, pitch>>, RowStarts)
        /\ UNCHANGED <<programs, groupOf, activePrograms, stragglers, pedalStarts, phase>>

NoteOffIgnored(c, pitch) ==
    /\ slotNote[<<c, pitch>>] = Free
    /\ UNCHANGED <<programs, grouping, pedalStarts, tracker, phase>>

(* A control change; number 64 is the pedal (add_control, handle_pedal). *)
Control(c, number, value) ==
    LET lifted == number = 64 /\ value < 64 /\ pedalStarts[c] # NotHeld
        pedal == [time |-> pedalStarts[c], duration |-> now - pedalStarts[c]]
    IN  /\ AppendToGroupOrStraggler(c,
              [controls |-> <<[time |-> now, number |-> number]>>, bends |-> <<>>,
               pedals |-> IF lifted THEN <<pedal>> ELSE <<>>])
        /\ pedalStarts' =
              IF number # 64 THEN pedalStarts
              ELSE [pedalStarts EXCEPT ![c] = IF value < 64 THEN NotHeld
                                              ELSE IF @ = NotHeld THEN now ELSE @]
        /\ UNCHANGED <<programs, tracker, phase>>

PitchBend(c) ==
    /\ AppendToGroupOrStraggler(c,
          [controls |-> <<>>, bends |-> <<[time |-> now]>>, pedals |-> <<>>])
    /\ UNCHANGED <<programs, pedalStarts, tracker, phase>>

SetProgram(c, program) ==
    /\ programs' = [programs EXCEPT ![c] = program]
    /\ UNCHANGED <<grouping, pedalStarts, tracker, phase>>

(* Lyrics belong to the current program of channel 0. *)
Lyric(text) ==
    LET s == EnsureGroup(0)
        g == s.groupOf[CurrentKey(0)]
    IN  /\ SetGrouping(s, [s.groups EXCEPT ![g].lyrics = Append(@, [time |-> now, text |-> text])])
        /\ UNCHANGED <<programs, pedalStarts, tracker, phase>>

--------------------------------------------------------------------------------
(* ScoreTrackSemantics.channel: a note-on of velocity 0 is a note-off. *)

StartsNote(e) == e.kind = "note_on" /\ e.velocity # 0
EndsNote(e) == e.kind = "note_off" \/ (e.kind = "note_on" /\ e.velocity = 0)

ApplyNoteOn(e)   == StartsNote(e) /\ NoteOn(e.channel, e.pitch)
ApplyOverflow(e) == StartsNote(e) /\ NoteOnOverflow(e.channel)
ApplyNoteOff(e)  == EndsNote(e) /\ NoteOff(e.channel, e.pitch)
ApplyIgnored(e)  == EndsNote(e) /\ NoteOffIgnored(e.channel, e.pitch)
ApplyControl(e)  == e.kind = "control" /\ Control(e.channel, e.number, e.value)
ApplyBend(e)     == e.kind = "bend" /\ PitchBend(e.channel)
ApplyProgram(e)  == e.kind = "program" /\ SetProgram(e.channel, e.program)
ApplyLyric(e)    == e.kind = "lyric" /\ Lyric(e.text)

Channel(e) ==
    \/ ApplyNoteOn(e)  \/ ApplyOverflow(e) \/ ApplyNoteOff(e) \/ ApplyIgnored(e)
    \/ ApplyControl(e) \/ ApplyBend(e)     \/ ApplyProgram(e)

(* One turn of the parse loop.  A delta time that takes the clock beyond    *)
(* u64 ends the parse before the next event (ScoreAssembly).               *)
Apply(e) ==
    /\ phase = "reading"
    /\ Len(log) < MaxEvents
    /\ Channel(e) \/ ApplyLyric(e)
    /\ log' = Append(log, [event |-> e, time |-> now])
    /\ \E d \in Deltas : now + d <= U64Max /\ now' = now + d
    /\ UNCHANGED tracks

(* What finish makes of a group; the source track and its name are the same *)
(* for every group.                                                        *)
TrackOf(group) ==
    [channel |-> group.channel, program |-> group.program,
     notes |-> IntoSegment(group.notes).rows, controls |-> group.controls,
     bends |-> group.bends, pedals |-> group.pedals, lyrics |-> group.lyrics]

(* finish: per channel the bits of the active programs, in ascending order. *)
FinishedTracks ==
    LET active == UNION {{Key(c, p) : p \in activePrograms[c]} : c \in Channels}
        at == InOrder({k \in active : ~IsEmptyGroup(groups[groupOf[k]])})
    IN  [i \in DOMAIN at |-> TrackOf(groups[groupOf[at[i]]])]

Finish ==
    /\ phase = "reading"
    /\ phase' = "finished"
    /\ tracks' = FinishedTracks
    /\ UNCHANGED <<programs, grouping, pedalStarts, tracker, now, log>>

Next == Finish \/ \E e \in Events : Apply(e)

Spec == Init /\ [][Next]_vars

--------------------------------------------------------------------------------
Timed == [time : Nat]
ControlItem == [time : Nat, number : Nat]
PedalItem == [time : Nat, duration : Nat]
LyricItem == [time : Nat, text : {e.text : e \in {f \in Events : f.kind = "lyric"}}]
Waiting == [controls : Seq(ControlItem), bends : Seq(Timed), pedals : Seq(PedalItem),
            lyrics : Seq(LyricItem)]
Group == [channel : Channels, program : 0..(Programs - 1), notes : Columns(Pitches),
          controls : Seq(ControlItem), bends : Seq(Timed), pedals : Seq(PedalItem),
          lyrics : Seq(LyricItem)]

(* Every index names something that exists, every duration is a number. *)
TypeOK ==
    /\ programs \in [Channels -> 0..(Programs - 1)]
    /\ groups \in Seq(Group)
    /\ groupOf \in [GroupKeys -> 0..Len(groups)]
    /\ activePrograms \in [Channels -> SUBSET (0..(Programs - 1))]
    /\ stragglers \in [Channels -> Waiting]
    /\ pedalStarts \in [Channels -> Nat \cup {NotHeld}]
    /\ Tracker!TablesOK(Handles)
    /\ now \in 0..U64Max
    /\ phase \in {"reading", "finished", "failed"}

(* The index tables agree: every group is found under its own channel and  *)
(* program and under no other, and the bitset finish walks has exactly the *)
(* programs that have a group, which finish asserts (debug_assert_ne in    *)
(* finish; create_group).                                                  *)
GroupsIndexed ==
    /\ \A g \in DOMAIN groups : groupOf[Key(groups[g].channel, groups[g].program)] = g
    /\ \A c \in Channels, p \in 0..(Programs - 1) :
          LET g == groupOf[Key(c, p)]
          IN  /\ p \in activePrograms[c] <=> g # NoGroup
              /\ g # NoGroup => groups[g].channel = c /\ groups[g].program = p

(* The rows that dangle are exactly the notes that sound, each at its own  *)
(* channel and pitch and in one place: end_note never completes a row a    *)
(* second time, whatever program changes came between (the precondition    *)
(* under which NoteBuilder is correct).                                    *)
DanglingRowsSound ==
    LET sounding == Tracker!Sounding
        places == UNION {{<<key, i>> : i \in DOMAIN sounding[key]} : key \in NoteKeys}
        At(place) == sounding[place[1]][place[2]]
    IN  /\ {At(place) : place \in places}
              = {h \in Handles : IsDangling(groups[h.group].notes, h.row)}
        /\ \A p, q \in places : At(p) = At(q) => p = q
        /\ \A place \in places :
              /\ groups[At(place).group].channel = place[1][1]
              /\ groups[At(place).group].notes.rows[At(place).row].data = place[1][2]

================================================================================
