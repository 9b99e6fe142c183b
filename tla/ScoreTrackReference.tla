-------------------------- MODULE ScoreTrackReference --------------------------
(***************************************************************************)
(* The tracks a source track should give, defined from its list of events  *)
(* and from nothing the builder keeps: no groups, no stragglers, no slots. *)
(***************************************************************************)
EXTENDS ScoreTrack, FiniteSetsExt

Event(i) == log[i].event
Time(i) == log[i].time

(* The program of channel c when event i is applied. *)
ProgramAt(c, i) ==
    LET changes == {j \in 1..(i - 1) : Event(j).kind = "program" /\ Event(j).channel = c}
    IN  IF changes = {} THEN 0 ELSE Event(Max(changes)).program

(* The events that need a group, the group they need, and those that find  *)
(* none yet.                                                               *)
NeedsGroup == {i \in DOMAIN log : StartsNote(Event(i)) \/ Event(i).kind = "lyric"}
ChannelOf(i) == IF Event(i).kind = "lyric" THEN 0 ELSE Event(i).channel
CurrentKeyAt(i) == Key(ChannelOf(i), ProgramAt(ChannelOf(i), i))
HasGroup(key, i) == \E j \in NeedsGroup : j < i /\ CurrentKeyAt(j) = key
Creators == {i \in NeedsGroup : ~HasGroup(CurrentKeyAt(i), i)}

NoHome == -1

(* Where an item of event i belongs: the group of its program if there is  *)
(* one, else the first group its channel gets later, if any.               *)
HomeOf(i) ==
    LET later == {j \in Creators : j > i /\ ChannelOf(j) = ChannelOf(i)}
    IN  IF i \in NeedsGroup \/ HasGroup(CurrentKeyAt(i), i) THEN CurrentKeyAt(i)
        ELSE IF later = {} THEN NoHome ELSE CurrentKeyAt(Min(later))

SameKey(i, j) == Event(i).channel = Event(j).channel /\ Event(i).pitch = Event(j).pitch

(* Event j ends the oldest note of its key that nothing before j ended;    *)
(* 0 if there is none, or if j is no note-off.                             *)
EndedBy ==
    LET ended[j \in DOMAIN log] ==
            LET open == {i \in 1..(j - 1) : /\ StartsNote(Event(i)) /\ SameKey(i, j)
                                            /\ \A k \in (i + 1)..(j - 1) : ended[k] # i}
            IN  IF EndsNote(Event(j)) /\ open # {} THEN Min(open) ELSE 0
    IN  ended

IsPedal(i) == Event(i).kind = "control" /\ Event(i).number = 64

(* The pedal-downs of a channel that the pedal-up i answers. *)
Pressed(i) ==
    {j \in 1..(i - 1) : /\ IsPedal(j) /\ Event(j).channel = Event(i).channel
                        /\ Event(j).value >= 64
                        /\ \A k \in j..(i - 1) :
                              IsPedal(k) /\ Event(k).channel = Event(i).channel
                                 => Event(k).value >= 64}
Lifts == {i \in DOMAIN log : IsPedal(i) /\ Event(i).value < 64 /\ Pressed(i) # {}}

(* The items of the events in S, in order. *)
Items(S, item) == LET at == InOrder(S) IN [n \in DOMAIN at |-> item[at[n]]]

OfKind(kind, key) == {i \in DOMAIN log : Event(i).kind = kind /\ HomeOf(i) = key}

Plain == [i \in DOMAIN log |-> [time |-> Time(i)]]

ExpectedTrack(key) ==
    LET ended == EndedBy
        notes == {i \in NeedsGroup : /\ StartsNote(Event(i)) /\ CurrentKeyAt(i) = key
                                     /\ \E j \in DOMAIN log : ended[j] = i}
        NoteItem(i) == [time |-> Time(i), data |-> Event(i).pitch,
                        duration |-> Time(CHOOSE j \in DOMAIN log : ended[j] = i) - Time(i)]
    IN  [channel |-> key \div Programs, program |-> key % Programs,
         notes |-> Items(notes, [i \in notes |-> NoteItem(i)]),
         controls |-> LET S == OfKind("control", key)
                      IN  Items(S, [i \in S |-> [time |-> Time(i), number |-> Event(i).number]]),
         bends |-> Items(OfKind("bend", key), Plain),
         pedals |-> LET S == {i \in Lifts : HomeOf(i) = key}
                    IN  Items(S, [i \in S |->
                           [time |-> Time(Min(Pressed(i))),
                            duration |-> Time(i) - Time(Min(Pressed(i)))]]),
         lyrics |-> LET S == OfKind("lyric", key)
                    IN  Items(S, [i \in S |-> [time |-> Time(i), text |-> Event(i).text]])]

ExpectedTracks == LET at == InOrder({CurrentKeyAt(i) : i \in Creators})
                  IN  [n \in DOMAIN at |-> ExpectedTrack(at[n])]

(* The finished tracks are those the events call for: notes paired first   *)
(* in, first out across program changes, dangling notes dropped but their  *)
(* track kept, controls, bends and pedals with the group of their program  *)
(* or else with the channel's next new group, none twice, none reordered,  *)
(* tracks in channel/program order (add_note, end_note, create_group,      *)
(* group_or_straggler_mut, handle_pedal, add_lyric, finish).               *)
TracksMatchEvents == phase = "finished" => tracks = ExpectedTracks

================================================================================
