---------------------------- MODULE ScoreTrackProofs ---------------------------
(***************************************************************************)
(* For every set of channels, number of programs, width of a time and any  *)
(* events: the index tables of ScoreTrackBuilder agree with its groups,    *)
(* every stored value is of its type, and the rows that wait for their end *)
(* are exactly the notes that sound.                                       *)
(*                                                                         *)
(* Two invariants.  IInv is about the index tables; the columns of a group *)
(* matter to it only in that no operation changes the channel and program  *)
(* a group was made with.  FullInv adds the columns: no row and no pedal   *)
(* starts after the clock (or a duration would be negative), each column   *)
(* is one of NoteColumns (ColumnOK), and the open notes keep the invariant *)
(* of TrackNotesProofs, for handles that name the rows of the groups.      *)
(***************************************************************************)
EXTENDS ScoreTrack, SequenceTheorems, FiniteSetTheorems, TLAPS

(* The open notes of a track, and what TrackNotesProofs shows of opening   *)
(* and closing one.  Its own time and starts are not used.                 *)
TP == INSTANCE TrackNotesProofs WITH
        Keys <- NoteKeys, MaxTime <- 0, MaxNotes <- 0, starts <- <<>>,
        ended <- [note |-> 0, duration |-> 0]

(* What that module assumes of its constants holds of these.               *)
LEMMA TrackerAssumption ==
    U32Max \in Nat /\ 0 \in Nat /\ Free \notin 1..0 /\ TP!IsFiniteSet(NoteKeys)
<1>1. NoteKeys \subseteq (0..15) \X (0..127)
  <2>1. Pitches \subseteq 0..127
    BY EventAssumption DEF Pitches
  <2> QED BY <2>1, ChannelAssumption DEF NoteKeys
<1>2. IsFiniteSet((0..15) \X (0..127))
  <2>1. \A n \in Nat : IsFiniteSet(0..n)
    <3>1. \A n \in Nat : 0 \in Int /\ n \in Int
      OBVIOUS
    <3> QED BY <3>1, FS_Interval, ZenonT(30)
  <2>2. IsFiniteSet(0..15) /\ IsFiniteSet(0..127)
    BY <2>1
  <2> QED BY ONLY <2>2, FS_Product
<1>3. IsFiniteSet(NoteKeys)
  BY <1>1, <1>2, FS_Subset
<1>4. TP!IsFiniteSet(NoteKeys)
  BY <1>3 DEF IsFiniteSet, TP!IsFiniteSet
<1> QED BY <1>4, WidthAssumption

(* A column of a group is a builder; what NoteBuilderProofs shows of its   *)
(* operations.  The life of that builder is not used.                      *)
CP == INSTANCE NoteBuilderProofs WITH
        Data <- Pitches, Open <- -1, now <- 0, columns <- EmptyColumns, phase <- "building",
        segment <- [wide |-> FALSE, rows |-> <<>>]

(* What that module assumes of its constants holds of these.               *)
LEMMA BuilderAssumption ==
    /\ U32Max \in Nat /\ U64Max \in Nat /\ 0 < U32Max /\ U32Max < U64Max
    /\ -1 \notin 0..U64Max
BY WidthAssumption

NarrowFits(col) == CP!NarrowFits(col)
InBounds(col) == CP!InBounds(col)
ColumnOK(D, col) == CP!ColumnOK(D, col)

(* Both modules instantiate the same columns.                              *)
LEMMA SameColumns ==
    /\ \A D : Columns(D) = CP!Columns(D)
    /\ EmptyColumns = CP!EmptyColumns
    /\ \A col, i : IsDangling(col, i) <=> CP!IsDangling(col, i)
    /\ \A col, t, data : Push(col, t, data) = CP!Push(col, t, data)
    /\ \A col, k, d : Complete(col, k, d) = CP!Complete(col, k, d)
<1>1. \A D : Columns(D) = CP!Columns(D)
  BY DEF Columns, CP!Columns, Row, CP!Row
<1>2. EmptyColumns = CP!EmptyColumns
  BY DEF EmptyColumns, CP!EmptyColumns
<1>3. \A col, i : IsDangling(col, i) <=> CP!IsDangling(col, i)
  BY DEF IsDangling, CP!IsDangling, AllOnes, CP!AllOnes
<1>4. \A row, d : WithDuration(row, d) = CP!WithDuration(row, d)
  BY DEF WithDuration, CP!WithDuration
<1>5. \A col : PromoteToWide(col) = CP!PromoteToWide(col)
  BY <1>3, <1>4 DEF PromoteToWide, CP!PromoteToWide
<1>6. \A col, i, d : SetDuration(col, i, d) = CP!SetDuration(col, i, d)
  BY <1>4 DEF SetDuration, CP!SetDuration, AllOnes, CP!AllOnes
<1>7. \A col, t, data : Push(col, t, data) = CP!Push(col, t, data)
  BY <1>5 DEF Push, CP!Push, AllOnes, CP!AllOnes
<1>8. \A col, k, d : Complete(col, k, d) = CP!Complete(col, k, d)
  BY <1>5, <1>6 DEF Complete, CP!Complete
<1> QED BY <1>1, <1>2, <1>3, <1>7, <1>8

(* The rows of a column are numbered from 1.                               *)
LEMMA ColumnTypes ==
    ASSUME NEW D, NEW col, ColumnOK(D, col)
    PROVE  /\ col \in Columns(D) /\ NarrowFits(col) /\ InBounds(col)
           /\ Len(col.rows) \in Nat /\ DOMAIN col.rows = 1..Len(col.rows)
           /\ \A i \in DOMAIN col.rows : col.rows[i].time \in 0..U64Max /\ col.rows[i].time \in Nat
BY BuilderAssumption, SameColumns, CP!ColumnTypes
   DEF NarrowFits, InBounds, ColumnOK

(* A column begins empty and narrow (NoteColumnsBuilder).                  *)
LEMMA EmptyColumnOK ==
    ASSUME NEW D
    PROVE  ColumnOK(D, EmptyColumns) /\ DOMAIN EmptyColumns.rows = {}
BY BuilderAssumption, SameColumns, CP!EmptyColumnOK
   DEF NarrowFits, InBounds, ColumnOK

(* A pushed row is dangling, and the others keep their meaning (push).     *)
LEMMA PushProperties ==
    ASSUME NEW D, NEW col \in Columns(D), NarrowFits(col), InBounds(col),
           NEW t \in 0..U64Max, NEW data \in D
    PROVE  LET c == Push(col, t, data)
               n == Len(col.rows)
           IN  /\ c \in Columns(D)
               /\ c.maxDone = col.maxDone
               /\ Len(c.rows) = n + 1
               /\ c.wide <=> col.wide \/ t > U32Max
               /\ c.rows[n + 1].time = t /\ c.rows[n + 1].data = data
               /\ IsDangling(c, n + 1)
               /\ \A i \in 1..n :
                    /\ c.rows[i].time = col.rows[i].time
                    /\ c.rows[i].data = col.rows[i].data
                    /\ IsDangling(c, i) <=> IsDangling(col, i)
                    /\ ~IsDangling(col, i) => c.rows[i].duration = col.rows[i].duration
BY BuilderAssumption, SameColumns, CP!PushProperties
   DEF NarrowFits, InBounds, ColumnOK

(* push: with a time beyond u32 the column is wide.                        *)
LEMMA PushKeepsColumn ==
    ASSUME NEW D, NEW col, ColumnOK(D, col), NEW t \in 0..U64Max, NEW data \in D
    PROVE  ColumnOK(D, Push(col, t, data))
BY BuilderAssumption, SameColumns, CP!PushKeepsColumn
   DEF NarrowFits, InBounds, ColumnOK

(* A completed row holds its duration and is dangling no more, and the     *)
(* others keep their meaning (complete).                                   *)
LEMMA CompleteProperties ==
    ASSUME NEW D, NEW col \in Columns(D), NarrowFits(col), InBounds(col),
           NEW k \in DOMAIN col.rows, IsDangling(col, k), NEW d \in 0..U64Max
    PROVE  LET c == Complete(col, k, d)
           IN  /\ c \in Columns(D)
               /\ InBounds(c)
               /\ DOMAIN c.rows = DOMAIN col.rows
               /\ Len(c.rows) = Len(col.rows)
               /\ c.wide <=> col.wide \/ d > U32Max
               /\ ~IsDangling(c, k) /\ c.rows[k].duration = d
               /\ \A i \in DOMAIN col.rows :
                    /\ c.rows[i].time = col.rows[i].time
                    /\ c.rows[i].data = col.rows[i].data
                    /\ i # k => /\ IsDangling(c, i) <=> IsDangling(col, i)
                                /\ ~IsDangling(col, i) =>
                                     c.rows[i].duration = col.rows[i].duration
BY BuilderAssumption, SameColumns, CP!CompleteProperties
   DEF NarrowFits, InBounds, ColumnOK

(* complete: with a duration beyond u32 the column is wide.                *)
LEMMA CompleteKeepsColumn ==
    ASSUME NEW D, NEW col, ColumnOK(D, col), NEW k \in DOMAIN col.rows, IsDangling(col, k),
           NEW d \in 0..U64Max
    PROVE  ColumnOK(D, Complete(col, k, d))
BY BuilderAssumption, SameColumns, CP!CompleteKeepsColumn
   DEF NarrowFits, InBounds, ColumnOK

Labels == {"channel", "program"}
Contents == {"notes", "controls", "bends", "pedals", "lyrics"}

IsGroups(gs) ==
    /\ gs \in Seq({gs[g] : g \in 1..Len(gs)})
    /\ \A g \in 1..Len(gs) : DOMAIN gs[g] = Labels \cup Contents

(* GroupsIndexed of any tables. *)
Indexed(gs, of, active) ==
    /\ \A g \in DOMAIN gs : of[Key(gs[g].channel, gs[g].program)] = g
    /\ \A c \in Channels, p \in 0..(Programs - 1) :
          /\ p \in active[c] <=> of[Key(c, p)] # NoGroup
          /\ of[Key(c, p)] # NoGroup => /\ gs[of[Key(c, p)]].channel = c
                                        /\ gs[of[Key(c, p)]].program = p

Tables(gs, of, active) ==
    /\ IsGroups(gs)
    /\ of \in [GroupKeys -> 0..Len(gs)]
    /\ active \in [Channels -> SUBSET (0..(Programs - 1))]
    /\ Indexed(gs, of, active)

IInv ==
    /\ programs \in [Channels -> 0..(Programs - 1)]
    /\ Tables(groups, groupOf, activePrograms)

--------------------------------------------------------------------------------
(* Channel and program of a key. *)

(* Two pairs of channel and program have two keys (group_key).             *)
LEMMA KeyInjective ==
    ASSUME NEW c1 \in Channels, NEW c2 \in Channels,
           NEW p1 \in 0..(Programs - 1), NEW p2 \in 0..(Programs - 1),
           Key(c1, p1) = Key(c2, p2)
    PROVE  c1 = c2 /\ p1 = p2
<1>1. c1 \in Nat /\ c2 \in Nat /\ Programs \in Nat /\ Programs > 0
  BY ChannelAssumption
<1>2. c1 * Programs + p1 = c2 * Programs + p2
  BY DEF Key
<1>3. ASSUME NEW a \in Nat, NEW b \in Nat, a < b
      PROVE  a * Programs + Programs <= b * Programs
  <2>1. PICK d \in Nat : b = a + 1 + d
    <3>1. b - a - 1 \in Nat /\ b = a + 1 + (b - a - 1)
      BY <1>3
    <3> QED BY <3>1
  <2>2. b * Programs = a * Programs + Programs + d * Programs
    BY <1>1, <2>1
  <2>3. d * Programs \in Nat /\ a * Programs \in Nat
    BY <1>1
  <2> QED BY <1>1, <2>2, <2>3
<1>4. c1 * Programs \in Nat /\ c2 * Programs \in Nat
  BY <1>1
<1>5. ~(c1 < c2) /\ ~(c2 < c1)
  <2> DEFINE m1 == c1 * Programs
             m2 == c2 * Programs
  <2>1. c1 < c2 => m1 + Programs <= m2
    BY <1>1, <1>3
  <2>2. c2 < c1 => m2 + Programs <= m1
    BY <1>1, <1>3
  <2>3. m1 + p1 = m2 + p2 /\ m1 \in Nat /\ m2 \in Nat
    BY <1>2, <1>4
  <2> HIDE DEF m1, m2
  <2> QED BY <1>1, <2>1, <2>2, <2>3
<1>6. c1 = c2
  BY <1>1, <1>5
<1>7. p1 = p2
  <2> DEFINE m == c1 * Programs
  <2>1. m + p1 = m + p2 /\ m \in Nat
    BY <1>2, <1>4, <1>6
  <2> HIDE DEF m
  <2> QED BY <1>1, <2>1
<1> QED BY <1>6, <1>7

(* Every channel and program has a key.                                    *)
LEMMA KeyType ==
    ASSUME NEW c \in Channels, NEW p \in 0..(Programs - 1)
    PROVE  Key(c, p) \in GroupKeys
BY DEF GroupKeys

--------------------------------------------------------------------------------
(* Sequences of groups. *)

(* A sequence is a sequence of its own elements.                           *)
LEMMA OwnElements ==
    ASSUME NEW S, NEW s \in Seq(S)
    PROVE  s \in Seq({s[i] : i \in 1..Len(s)})
<1> DEFINE E == {s[i] : i \in 1..Len(s)}
<1>1. Len(s) \in Nat /\ s \in [1..Len(s) -> S]
  BY LenProperties
<1>2. \A i \in 1..Len(s) : s[i] \in E
  OBVIOUS
<1>3. s \in [1..Len(s) -> E]
  <2> HIDE DEF E
  <2> QED BY <1>1, <1>2
<1> HIDE DEF E
<1>4. s \in Seq(E)
  BY <1>1, <1>3
<1> QED BY <1>4 DEF E

(* Lengths and domains.                                                    *)
LEMMA GroupsTypes ==
    ASSUME NEW gs, IsGroups(gs)
    PROVE  /\ Len(gs) \in Nat /\ DOMAIN gs = 1..Len(gs)
           /\ \A g \in 1..Len(gs) : DOMAIN gs[g] = Labels \cup Contents
BY LenProperties DEF IsGroups

(* A group that keeps its fields, its channel and its program may change   *)
(* otherwise as it likes.                                                  *)
LEMMA GroupReplaced ==
    ASSUME NEW gs, NEW of, NEW active, Tables(gs, of, active), NEW g, NEW v,
           g \in DOMAIN gs => /\ DOMAIN v = Labels \cup Contents
                              /\ v.channel = gs[g].channel /\ v.program = gs[g].program
    PROVE  Tables([gs EXCEPT ![g] = v], of, active)
<1> DEFINE new == [gs EXCEPT ![g] = v]
           S == {gs[h] : h \in 1..Len(gs)} \cup {v}
<1>1. /\ Len(gs) \in Nat /\ DOMAIN gs = 1..Len(gs) /\ IsGroups(gs)
      /\ \A h \in 1..Len(gs) : DOMAIN gs[h] = Labels \cup Contents
  BY GroupsTypes DEF Tables
<1>2. /\ DOMAIN new = DOMAIN gs
      /\ \A h \in DOMAIN gs : new[h] = IF h = g THEN v ELSE gs[h]
  BY <1>1
<1>3. new \in Seq(S) /\ Len(new) = Len(gs)
  <2>1. \A h \in 1..Len(gs) : new[h] \in S
    BY <1>1, <1>2
  <2>2. new = [h \in 1..Len(gs) |-> new[h]]
    BY <1>1
  <2> HIDE DEF new, S
  <2>3. new \in [1..Len(gs) -> S]
    BY <2>1, <2>2
  <2> QED BY <1>1, <2>3
<1> HIDE DEF new, S
<1>4. new \in Seq({new[h] : h \in 1..Len(new)})
  BY <1>3, OwnElements
<1>5. \A h \in 1..Len(gs) : /\ DOMAIN new[h] = Labels \cup Contents
                            /\ new[h].channel = gs[h].channel /\ new[h].program = gs[h].program
  BY <1>1, <1>2
<1>6. IsGroups(new)
  BY <1>3, <1>4, <1>5 DEF IsGroups
<1>7. Indexed(gs, of, active) /\ of \in [GroupKeys -> 0..Len(gs)]
  BY DEF Tables
<1>8. Indexed(new, of, active)
  <2>1. \A h \in DOMAIN new : of[Key(new[h].channel, new[h].program)] = h
    BY <1>1, <1>2, <1>5, <1>7 DEF Indexed
  <2>2. ASSUME NEW c \in Channels, NEW p \in 0..(Programs - 1), of[Key(c, p)] # NoGroup
        PROVE  new[of[Key(c, p)]].channel = c /\ new[of[Key(c, p)]].program = p
    <3>1. of[Key(c, p)] \in 1..Len(gs)
      BY <1>7, <2>2, KeyType DEF NoGroup
    <3> QED BY <1>5, <1>7, <2>2, <3>1 DEF Indexed
  <2> QED BY <1>7, <2>1, <2>2 DEF Indexed
<1> QED BY <1>3, <1>6, <1>7, <1>8 DEF Tables, new

--------------------------------------------------------------------------------
(* create_group and ensure_group. *)

(* The tables agree again once the group is made.                          *)
LEMMA CreateKeepsTables ==
    ASSUME IInv, NEW c \in Channels, CurrentGroup(c) = NoGroup
    PROVE  LET s == CreateGroup(c) IN Tables(s.groups, s.groupOf, s.activePrograms)
<1> DEFINE p == programs[c]
           k == Key(c, p)
           n == Len(groups) + 1
           group == NewGroup(c, p, stragglers[c])
           gs == Append(groups, group)
           of == [groupOf EXCEPT ![k] = n]
           active == [activePrograms EXCEPT ![c] = activePrograms[c] \cup {p}]
           S == {groups[g] : g \in 1..Len(groups)} \cup {group}
<1>1. /\ p \in 0..(Programs - 1) /\ IsGroups(groups)
      /\ groupOf \in [GroupKeys -> 0..Len(groups)]
      /\ activePrograms \in [Channels -> SUBSET (0..(Programs - 1))]
      /\ Indexed(groups, groupOf, activePrograms)
  BY DEF IInv, Tables
<1>2. groupOf[k] = NoGroup
  BY DEF CurrentGroup, CurrentKey
<1>3. k \in GroupKeys
  BY <1>1, KeyType
<1>4. /\ Len(groups) \in Nat /\ DOMAIN groups = 1..Len(groups)
      /\ \A g \in 1..Len(groups) : DOMAIN groups[g] = Labels \cup Contents
  BY <1>1, GroupsTypes
<1>5. DOMAIN group = Labels \cup Contents /\ group.channel = c /\ group.program = p
  BY DEF NewGroup, Labels, Contents
<1>6. /\ gs \in Seq(S) /\ Len(gs) = n /\ gs[n] = group
      /\ \A g \in 1..Len(groups) : gs[g] = groups[g]
  <2>1. groups \in Seq(S) /\ group \in S
    <3>1. groups \in Seq({groups[g] : g \in 1..Len(groups)})
      BY <1>1 DEF IsGroups
    <3> HIDE DEF group
    <3> QED BY <3>1, SeqMonotonic
  <2> HIDE DEF S, group
  <2> QED BY <2>1, AppendProperties
<1> HIDE DEF group, gs, S
<1>7. DOMAIN gs = 1..n
  BY <1>6, LenProperties
<1>8. IsGroups(gs)
  <2>1. gs \in Seq({gs[g] : g \in 1..Len(gs)})
    BY <1>6, OwnElements
  <2>2. \A g \in 1..n : g = n \/ g \in 1..Len(groups)
    BY <1>4
  <2> QED BY <1>4, <1>5, <1>6, <2>1, <2>2 DEF IsGroups
<1>9. of \in [GroupKeys -> 0..n] /\ active \in [Channels -> SUBSET (0..(Programs - 1))]
  <2>1. n \in 0..n /\ 0..Len(groups) \subseteq 0..n
    BY <1>4
  <2> HIDE DEF n, k, p
  <2> QED BY <1>1, <2>1
<1>10. of[k] = n /\ \A j \in GroupKeys : j # k => of[j] = groupOf[j]
  <2> HIDE DEF n, k
  <2> QED BY <1>1, <1>3
<1>11. active[c] = activePrograms[c] \cup {p} /\ \A d \in Channels : d # c => active[d] = activePrograms[d]
  BY <1>1
<1>12. \A d \in Channels : \A q \in 0..(Programs - 1) :
          /\ Key(d, q) = k => d = c /\ q = p
          /\ Key(d, q) \in GroupKeys
  BY <1>1, KeyInjective, KeyType
<1> HIDE DEF k, p, n, of, active
<1>13. \A g \in DOMAIN gs : of[Key(gs[g].channel, gs[g].program)] = g
  <2> SUFFICES ASSUME NEW g \in 1..n
               PROVE  of[Key(gs[g].channel, gs[g].program)] = g
    BY <1>7
  <2>1. CASE g = n
    <3>1. Key(c, p) = k
      BY DEF k
    <3> QED BY <1>5, <1>6, <1>10, <2>1, <3>1
  <2>2. CASE g # n
    <3>1. g \in 1..Len(groups) /\ g # NoGroup
      BY <1>4, <2>2 DEF n, NoGroup
    <3> DEFINE j == Key(groups[g].channel, groups[g].program)
    <3>2. groupOf[j] = g
      BY <1>1, <1>4, <3>1 DEF Indexed
    <3>3. j # k
      BY <1>2, <3>1, <3>2
    <3>4. of[j] = groupOf[j]
      BY <3>3 DEF of
    <3> QED BY <1>6, <3>1, <3>2, <3>4
  <2> QED BY <2>1, <2>2
<1>14. ASSUME NEW d \in Channels, NEW q \in 0..(Programs - 1)
       PROVE  /\ q \in active[d] <=> of[Key(d, q)] # NoGroup
              /\ of[Key(d, q)] # NoGroup => /\ gs[of[Key(d, q)]].channel = d
                                            /\ gs[of[Key(d, q)]].program = q
  <2>1. CASE Key(d, q) = k
    <3>1. d = c /\ q = p
      BY <1>12, <2>1
    <3>2. n # NoGroup
      BY <1>4 DEF n, NoGroup
    <3> QED BY <1>5, <1>6, <1>10, <1>11, <2>1, <3>1, <3>2
  <2>2. CASE Key(d, q) # k
    <3>1. of[Key(d, q)] = groupOf[Key(d, q)] /\ Key(d, q) \in GroupKeys
      BY <1>10, <1>12, <2>2
    <3>2. d # c \/ q # p
      BY <2>2 DEF k
    <3>3. q \in active[d] <=> q \in activePrograms[d]
      BY <1>11, <3>2
    <3>4. groupOf[Key(d, q)] # NoGroup => groupOf[Key(d, q)] \in 1..Len(groups)
      BY <1>1, <3>1 DEF NoGroup
    <3>5. /\ q \in activePrograms[d] <=> groupOf[Key(d, q)] # NoGroup
          /\ groupOf[Key(d, q)] # NoGroup => /\ groups[groupOf[Key(d, q)]].channel = d
                                             /\ groups[groupOf[Key(d, q)]].program = q
      BY <1>1 DEF Indexed
    <3> QED BY <1>6, <3>1, <3>3, <3>4, <3>5
  <2> QED BY <2>1, <2>2
<1>15. Indexed(gs, of, active)
  BY <1>13, <1>14 DEF Indexed
<1>16. Tables(gs, of, active)
  BY <1>6, <1>8, <1>9, <1>15 DEF Tables
<1>17. /\ CreateGroup(c).groups = gs /\ CreateGroup(c).groupOf = of
       /\ CreateGroup(c).activePrograms = active
  BY DEF CreateGroup, CurrentKey, gs, of, active, group, n, k, p
<1> QED BY <1>16, <1>17

(* So do they when the group was there already.                            *)
LEMMA EnsureKeepsTables ==
    ASSUME IInv, NEW c \in Channels
    PROVE  LET s == EnsureGroup(c) IN Tables(s.groups, s.groupOf, s.activePrograms)
<1>1. CASE CurrentGroup(c) # NoGroup
  BY <1>1 DEF EnsureGroup, IInv
<1>2. CASE CurrentGroup(c) = NoGroup
  <2>1. EnsureGroup(c) = CreateGroup(c)
    BY <1>2 DEF EnsureGroup
  <2> QED BY <1>2, <2>1, CreateKeepsTables
<1> QED BY <1>1, <1>2

--------------------------------------------------------------------------------
(* Every step keeps the tables. *)

(* A note, a finished duration or a lyric: one column of one group.        *)
LEMMA ColumnReplaced ==
    ASSUME NEW gs, NEW of, NEW active, Tables(gs, of, active), NEW g, NEW column
    PROVE  /\ Tables([gs EXCEPT ![g].notes = column], of, active)
           /\ Tables([gs EXCEPT ![g].lyrics = column], of, active)
<1> DEFINE v == [gs[g] EXCEPT !.notes = column]
           w == [gs[g] EXCEPT !.lyrics = column]
<1>1. g \in DOMAIN gs => DOMAIN gs[g] = Labels \cup Contents
  BY GroupsTypes DEF Tables
<1>2. g \in DOMAIN gs => /\ DOMAIN v = Labels \cup Contents
                         /\ v.channel = gs[g].channel /\ v.program = gs[g].program
  BY <1>1 DEF Labels
<1>3. g \in DOMAIN gs => /\ DOMAIN w = Labels \cup Contents
                         /\ w.channel = gs[g].channel /\ w.program = gs[g].program
  BY <1>1 DEF Labels
<1>4. /\ [gs EXCEPT ![g].notes = column] = [gs EXCEPT ![g] = v]
      /\ [gs EXCEPT ![g].lyrics = column] = [gs EXCEPT ![g] = w]
  OBVIOUS
<1> HIDE DEF v, w
<1>5. Tables([gs EXCEPT ![g] = v], of, active) /\ Tables([gs EXCEPT ![g] = w], of, active)
  BY <1>2, <1>3, GroupReplaced
<1> QED BY <1>4, <1>5

(* Controls, bends and pedals go to a group or to the stragglers.          *)
LEMMA AppendKeepsTables ==
    ASSUME IInv, NEW c, NEW items, AppendToGroupOrStraggler(c, items)
    PROVE  Tables(groups', groupOf', activePrograms')
<1> DEFINE g == CurrentGroup(c)
           v == Extend(groups[g], items)
<1>1. Tables(groups, groupOf, activePrograms)
  BY DEF IInv
<1>2. g \in DOMAIN groups => DOMAIN groups[g] = Labels \cup Contents
  BY <1>1, GroupsTypes DEF Tables
<1>3. g \in DOMAIN groups => /\ DOMAIN v = Labels \cup Contents
                             /\ v.channel = groups[g].channel /\ v.program = groups[g].program
  BY <1>2 DEF Labels, Extend
<1>4. /\ groups' = groups \/ groups' = [groups EXCEPT ![g] = v]
      /\ groupOf' = groupOf /\ activePrograms' = activePrograms
  BY DEF AppendToGroupOrStraggler
<1> HIDE DEF g, v
<1>5. Tables([groups EXCEPT ![g] = v], groupOf, activePrograms)
  BY <1>1, <1>3, GroupReplaced
<1> QED BY <1>1, <1>4, <1>5

(* The events of the channels: the program stays one of the programs.      *)
LEMMA ChannelKeeps ==
    ASSUME IInv, NEW e \in Events, Channel(e)
    PROVE  IInv'
<1>1. /\ programs \in [Channels -> 0..(Programs - 1)]
      /\ Tables(groups, groupOf, activePrograms)
  BY DEF IInv
<1>2. CASE ApplyNoteOn(e)
  <2> DEFINE c == e.channel
             s == EnsureGroup(c)
             g == s.groupOf[CurrentKey(c)]
  <2>1. c \in Channels
    BY <1>2, EventAssumption DEF ApplyNoteOn, StartsNote
  <2>2. Tables(s.groups, s.groupOf, s.activePrograms)
    BY <2>1, EnsureKeepsTables
  <2>3. /\ groups' = [s.groups EXCEPT ![g].notes = Push(s.groups[g].notes, now, e.pitch)]
        /\ groupOf' = s.groupOf /\ activePrograms' = s.activePrograms
        /\ programs' = programs
    BY <1>2 DEF ApplyNoteOn, NoteOn, SetGrouping
  <2> HIDE DEF s, g, c
  <2> QED BY <1>1, <2>2, <2>3, ColumnReplaced DEF IInv
<1>3. CASE ApplyOverflow(e)
  BY <1>1, <1>3 DEF ApplyOverflow, NoteOnOverflow, grouping, IInv
<1>4. CASE ApplyNoteOff(e)
  <2>1. PICK g, column : groups' = [groups EXCEPT ![g].notes = column]
    BY <1>4 DEF ApplyNoteOff, NoteOff
  <2>2. groupOf' = groupOf /\ activePrograms' = activePrograms /\ programs' = programs
    BY <1>4 DEF ApplyNoteOff, NoteOff
  <2> QED BY <1>1, <2>1, <2>2, ColumnReplaced DEF IInv
<1>5. CASE ApplyIgnored(e)
  BY <1>1, <1>5 DEF ApplyIgnored, NoteOffIgnored, grouping, IInv
<1>6. CASE ApplyControl(e)
  <2>1. PICK items : AppendToGroupOrStraggler(e.channel, items)
    BY <1>6 DEF ApplyControl, Control
  <2>2. programs' = programs
    BY <1>6 DEF ApplyControl, Control
  <2> QED BY <1>1, <2>1, <2>2, AppendKeepsTables DEF IInv
<1>7. CASE ApplyBend(e)
  <2>1. PICK items : AppendToGroupOrStraggler(e.channel, items)
    BY <1>7 DEF ApplyBend, PitchBend
  <2>2. programs' = programs
    BY <1>7 DEF ApplyBend, PitchBend
  <2> QED BY <1>1, <2>1, <2>2, AppendKeepsTables DEF IInv
<1>8. CASE ApplyProgram(e)
  <2>1. e.channel \in Channels /\ e.program \in 0..(Programs - 1)
    BY <1>8, EventAssumption DEF ApplyProgram
  <2>2. programs' = [programs EXCEPT ![e.channel] = e.program]
    BY <1>8 DEF ApplyProgram, SetProgram
  <2>3. UNCHANGED grouping
    BY <1>8 DEF ApplyProgram, SetProgram
  <2> QED BY <1>1, <2>1, <2>2, <2>3 DEF IInv, grouping
<1> QED BY <1>2, <1>3, <1>4, <1>5, <1>6, <1>7, <1>8 DEF Channel

(* Lyrics belong to channel 0, which is one of the channels.               *)
LEMMA LyricKeeps ==
    ASSUME IInv, NEW text, Lyric(text)
    PROVE  IInv'
<1> DEFINE s == EnsureGroup(0)
           g == s.groupOf[CurrentKey(0)]
<1>1. Tables(s.groups, s.groupOf, s.activePrograms)
  BY ChannelAssumption, EnsureKeepsTables
<1>2. /\ groupOf' = s.groupOf /\ activePrograms' = s.activePrograms
      /\ programs' = programs
  BY DEF Lyric, SetGrouping
<1>3. PICK column : groups' = [s.groups EXCEPT ![g].lyrics = column]
  BY DEF Lyric, SetGrouping
<1>4. programs \in [Channels -> 0..(Programs - 1)]
  BY DEF IInv
<1> HIDE DEF s, g
<1> QED BY <1>1, <1>2, <1>3, <1>4, ColumnReplaced DEF IInv

--------------------------------------------------------------------------------
(* What the open notes need of the rows: the order of the rows they name   *)
(* does not matter, only how each one looks.                               *)

(* What matters of a row to the open notes: where and when it is, and      *)
(* whether it waits for its end.                                           *)
Look(gs, h) ==
    [channel |-> gs[h.group].channel, time |-> gs[h.group].notes.rows[h.row].time,
     data |-> gs[h.group].notes.rows[h.row].data, open |-> IsDangling(gs[h.group].notes, h.row)]

HandlesOf(gs) == UNION {{[group |-> g, row |-> r] : r \in DOMAIN gs[g].notes.rows} : g \in DOMAIN gs}

Looks == [h \in Handles |-> Look(groups, h)]

SoundOK(H, L, T) ==
    /\ \A k \in NoteKeys : \A i \in DOMAIN T[k] :
          /\ T[k][i] \in H /\ L[T[k][i]].open
          /\ L[T[k][i]].channel = k[1] /\ L[T[k][i]].data = k[2]
    /\ \A h \in H : L[h].open => \E k \in NoteKeys : \E i \in DOMAIN T[k] : T[k][i] = h
    /\ \A k, l \in NoteKeys : \A i \in DOMAIN T[k], j \in DOMAIN T[l] :
          T[k][i] = T[l][j] => k = l /\ i = j

(* A note that starts sounds last at its key.                              *)
LEMMA OneMoreSounds ==
    ASSUME NEW H, NEW L, NEW T, SoundOK(H, L, T),
           NEW h, h \notin H, NEW H1, H1 = H \cup {h},
           NEW key \in NoteKeys, NEW L1, \A x \in H : L1[x] = L[x],
           L1[h].open, L1[h].channel = key[1], L1[h].data = key[2],
           NEW T1, NEW n \in Nat, DOMAIN T[key] = 1..n,
           DOMAIN T1[key] = 1..(n + 1), T1[key][n + 1] = h, \A i \in 1..n : T1[key][i] = T[key][i],
           \A k \in NoteKeys : k # key => T1[k] = T[k]
    PROVE  SoundOK(H1, L1, T1)
<1>1. n \in Nat /\ DOMAIN T[key] = 1..n
  OBVIOUS
<1>2. \A k \in NoteKeys : k # key => T1[k] = T[k]
  OBVIOUS
<1>3. DOMAIN T1[key] = 1..(n + 1) /\ T1[key][n + 1] = h /\ \A i \in 1..n : T1[key][i] = T[key][i]
  OBVIOUS
<1>4. \A i \in 1..(n + 1) : i \in 1..n \/ i = n + 1
  BY <1>1
<1>5. \A k \in NoteKeys : \A i \in DOMAIN T1[k] :
         \/ k = key /\ i = n + 1 /\ T1[k][i] = h
         \/ i \in DOMAIN T[k] /\ T1[k][i] = T[k][i] /\ T[k][i] \in H
  BY <1>1, <1>2, <1>3, <1>4 DEF SoundOK
<1>6. \A k \in NoteKeys : \A i \in DOMAIN T[k] : i \in DOMAIN T1[k] /\ T1[k][i] = T[k][i]
  <2>1. \A i \in 1..n : i \in 1..(n + 1)
    BY <1>1
  <2> QED BY <1>1, <1>2, <1>3, <2>1
<1>7. \A k \in NoteKeys : \A i \in DOMAIN T1[k] :
         /\ T1[k][i] \in H \cup {h} /\ L1[T1[k][i]].open
         /\ L1[T1[k][i]].channel = k[1] /\ L1[T1[k][i]].data = k[2]
  <2> SUFFICES ASSUME NEW k \in NoteKeys, NEW i \in DOMAIN T1[k]
               PROVE  /\ T1[k][i] \in H \cup {h} /\ L1[T1[k][i]].open
                      /\ L1[T1[k][i]].channel = k[1] /\ L1[T1[k][i]].data = k[2]
    OBVIOUS
  <2>1. CASE k = key /\ T1[k][i] = h
    BY <2>1
  <2>2. CASE i \in DOMAIN T[k] /\ T1[k][i] = T[k][i] /\ T[k][i] \in H
    <3> DEFINE x == T[k][i]
    <3>1. x \in H /\ L[x].open /\ L[x].channel = k[1] /\ L[x].data = k[2]
      BY <2>2 DEF SoundOK
    <3> HIDE DEF x
    <3>2. L1[x] = L[x]
      BY <3>1
    <3> QED BY <2>2, <3>1, <3>2 DEF x
  <2> QED BY <1>5, <2>1, <2>2
<1>8. ASSUME NEW x \in H \cup {h}, L1[x].open
      PROVE  \E k \in NoteKeys : \E i \in DOMAIN T1[k] : T1[k][i] = x
  <2>1. CASE x = h
    <3>1. n + 1 \in DOMAIN T1[key]
      BY <1>1, <1>3
    <3> QED BY <1>3, <2>1, <3>1
  <2>2. CASE x \in H
    <3>1. L[x].open
      BY <1>8, <2>2
    <3>2. PICK k \in NoteKeys : \E i \in DOMAIN T[k] : T[k][i] = x
      BY <2>2, <3>1 DEF SoundOK
    <3> QED BY <1>6, <3>2
  <2> QED BY <2>1, <2>2
<1>9. ASSUME NEW k \in NoteKeys, NEW l \in NoteKeys, NEW i \in DOMAIN T1[k], NEW j \in DOMAIN T1[l],
             T1[k][i] = T1[l][j]
      PROVE  k = l /\ i = j
  <2>1. CASE T1[k][i] = h
    <3>1. T1[k][i] \notin H /\ T1[l][j] \notin H
      BY <1>9, <2>1
    <3> QED BY <1>5, <3>1
  <2>2. CASE T1[k][i] # h
    <3>1. /\ i \in DOMAIN T[k] /\ T1[k][i] = T[k][i]
          /\ j \in DOMAIN T[l] /\ T1[l][j] = T[l][j]
      BY <1>5, <1>9, <2>2
    <3>2. T[k][i] = T[l][j]
      BY <1>9, <3>1
    <3>3. \A k0, l0 \in NoteKeys : \A i0 \in DOMAIN T[k0], j0 \in DOMAIN T[l0] :
             T[k0][i0] = T[l0][j0] => k0 = l0 /\ i0 = j0
      BY DEF SoundOK
    <3> QED BY <3>1, <3>2, <3>3
  <2> QED BY <2>1, <2>2
<1> QED BY <1>7, <1>8, <1>9 DEF SoundOK

(* A note that ends was the first to sound at its key.                     *)
LEMMA OneLessSounds ==
    ASSUME NEW H, NEW L, NEW T, SoundOK(H, L, T),
           NEW key \in NoteKeys, NEW h \in H, NEW n \in Nat,
           DOMAIN T[key] = 1..(n + 1), T[key][1] = h,
           NEW L1, \A x \in H : x # h => L1[x] = L[x], ~L1[h].open,
           NEW T1, DOMAIN T1[key] = 1..n, \A i \in 1..n : T1[key][i] = T[key][i + 1],
           \A k \in NoteKeys : k # key => T1[k] = T[k]
    PROVE  SoundOK(H, L1, T1)
<1>1. n \in Nat /\ DOMAIN T1[key] = 1..n
  OBVIOUS
<1>2. \A k \in NoteKeys : k # key => T1[k] = T[k]
  OBVIOUS
<1>3. DOMAIN T[key] = 1..(n + 1) /\ T[key][1] = h /\ \A i \in 1..n : T1[key][i] = T[key][i + 1]
  OBVIOUS
<1>4. 1 \in DOMAIN T[key] /\ \A i \in 1..n : i + 1 \in DOMAIN T[key] /\ i + 1 # 1
  BY <1>1, <1>3
<1>5. \A k \in NoteKeys : \A i \in DOMAIN T[k] : T[k][i] = h => k = key /\ i = 1
  BY <1>3, <1>4 DEF SoundOK
<1>6. \A k \in NoteKeys : \A i \in DOMAIN T1[k] :
         IF k = key THEN T1[k][i] = T[k][i + 1] /\ i + 1 \in DOMAIN T[k] /\ i + 1 # 1 /\ i \in Nat
         ELSE T1[k][i] = T[k][i] /\ i \in DOMAIN T[k]
  BY <1>1, <1>2, <1>3, <1>4
<1>7. \A k \in NoteKeys : \A i \in DOMAIN T1[k] :
         /\ T1[k][i] \in H /\ T1[k][i] # h /\ L[T1[k][i]].open
         /\ L[T1[k][i]].channel = k[1] /\ L[T1[k][i]].data = k[2]
  <2> SUFFICES ASSUME NEW k \in NoteKeys, NEW i \in DOMAIN T1[k]
               PROVE  /\ T1[k][i] \in H /\ T1[k][i] # h /\ L[T1[k][i]].open
                      /\ L[T1[k][i]].channel = k[1] /\ L[T1[k][i]].data = k[2]
    OBVIOUS
  <2>1. PICK j \in DOMAIN T[k] : T1[k][i] = T[k][j] /\ (k = key => j # 1)
    BY <1>6
  <2>2. T[k][j] # h
    BY <1>5, <2>1
  <2> QED BY <2>1, <2>2 DEF SoundOK
<1>8. \A k \in NoteKeys : \A i \in DOMAIN T1[k] :
         /\ T1[k][i] \in H /\ L1[T1[k][i]].open
         /\ L1[T1[k][i]].channel = k[1] /\ L1[T1[k][i]].data = k[2]
  <2> SUFFICES ASSUME NEW k \in NoteKeys, NEW i \in DOMAIN T1[k]
               PROVE  /\ T1[k][i] \in H /\ L1[T1[k][i]].open
                      /\ L1[T1[k][i]].channel = k[1] /\ L1[T1[k][i]].data = k[2]
    OBVIOUS
  <2> DEFINE x == T1[k][i]
  <2>1. x \in H /\ x # h /\ L[x].open /\ L[x].channel = k[1] /\ L[x].data = k[2]
    BY <1>7
  <2> HIDE DEF x
  <2>2. L1[x] = L[x]
    BY <2>1
  <2> QED BY <2>1, <2>2 DEF x
<1>9. ASSUME NEW x \in H, L1[x].open
      PROVE  \E k \in NoteKeys : \E i \in DOMAIN T1[k] : T1[k][i] = x
  <2>1. x # h /\ L[x].open
    BY <1>9
  <2>2. PICK k \in NoteKeys : \E i \in DOMAIN T[k] : T[k][i] = x
    BY <2>1 DEF SoundOK
  <2>5. PICK i \in DOMAIN T[k] : T[k][i] = x
    BY <2>2
  <2>3. CASE k = key
    <3>1. i \in 1..(n + 1) /\ i # 1
      BY <1>3, <2>1, <2>3, <2>5
    <3>2. i - 1 \in 1..n /\ (i - 1) + 1 = i
      BY <1>1, <3>1
    <3>3. T1[key][i - 1] = x
      BY <1>3, <2>3, <2>5, <3>2
    <3> QED BY <1>1, <1>2, <3>2, <3>3
  <2>4. CASE k # key
    BY <1>2, <2>4, <2>5
  <2> QED BY <2>3, <2>4
<1>10. ASSUME NEW k \in NoteKeys, NEW l \in NoteKeys, NEW i \in DOMAIN T1[k], NEW j \in DOMAIN T1[l],
              T1[k][i] = T1[l][j]
       PROVE  k = l /\ i = j
  <2> DEFINE a == IF k = key THEN i + 1 ELSE i
             b == IF l = key THEN j + 1 ELSE j
  <2>1. a \in DOMAIN T[k] /\ b \in DOMAIN T[l] /\ T[k][a] = T[l][b]
    BY <1>6, <1>10
  <2>2. k = l /\ a = b
    BY <2>1 DEF SoundOK
  <2>3. CASE k = key
    <3>1. i \in Nat /\ j \in Nat /\ i + 1 = j + 1
      BY <1>6, <2>2, <2>3
    <3> QED BY <2>2, <3>1
  <2>4. CASE k # key
    BY <2>2, <2>4
  <2> QED BY <2>3, <2>4
<1> QED BY <1>8, <1>9, <1>10 DEF SoundOK

--------------------------------------------------------------------------------
(* Groups that hold what they must, with no row that starts after t. *)

GroupOK(group, t) ==
    /\ group \in Group /\ ColumnOK(Pitches, group.notes)
    /\ \A r \in DOMAIN group.notes.rows : group.notes.rows[r].time <= t

GroupsOK(gs, t) == gs \in Seq(Group) /\ \A g \in DOMAIN gs : GroupOK(gs[g], t)

SameLooks(gs, new) ==
    HandlesOf(new) = HandlesOf(gs) /\ \A h \in HandlesOf(gs) : Look(new, h) = Look(gs, h)

(* A handle names a group and one of its rows.                             *)
LEMMA HandleNames ==
    ASSUME NEW gs
    PROVE  /\ \A h \in HandlesOf(gs) : /\ h.group \in DOMAIN gs
                                        /\ h.row \in DOMAIN gs[h.group].notes.rows
                                        /\ h = [group |-> h.group, row |-> h.row]
           /\ \A g \in DOMAIN gs : \A r \in DOMAIN gs[g].notes.rows :
                 [group |-> g, row |-> r] \in HandlesOf(gs)
<1>1. ASSUME NEW h \in HandlesOf(gs)
      PROVE  /\ h.group \in DOMAIN gs /\ h.row \in DOMAIN gs[h.group].notes.rows
             /\ h = [group |-> h.group, row |-> h.row]
  <2>1. PICK g \in DOMAIN gs : h \in {[group |-> g, row |-> r] : r \in DOMAIN gs[g].notes.rows}
    BY DEF HandlesOf
  <2>2. PICK r \in DOMAIN gs[g].notes.rows : h = [group |-> g, row |-> r]
    BY <2>1
  <2>3. h.group = g /\ h.row = r
    BY <2>2
  <2> QED BY <2>2, <2>3
<1>2. ASSUME NEW g \in DOMAIN gs, NEW r \in DOMAIN gs[g].notes.rows
      PROVE  [group |-> g, row |-> r] \in HandlesOf(gs)
  BY DEF HandlesOf
<1> QED BY <1>1, <1>2

(* Lengths, domains and elements of the groups.                            *)
LEMMA GroupsOKTypes ==
    ASSUME NEW gs, NEW t, GroupsOK(gs, t)
    PROVE  /\ gs \in Seq(Group) /\ Len(gs) \in Nat /\ DOMAIN gs = 1..Len(gs)
           /\ \A g \in DOMAIN gs : /\ GroupOK(gs[g], t) /\ gs[g] \in Group
                                    /\ ColumnOK(Pitches, gs[g].notes)
BY LenProperties DEF GroupsOK, GroupOK

(* One group replaced by another.                                          *)
LEMMA GroupChanged ==
    ASSUME NEW gs, NEW t, GroupsOK(gs, t), NEW g \in DOMAIN gs, NEW v, GroupOK(v, t)
    PROVE  LET new == [gs EXCEPT ![g] = v]
           IN  /\ GroupsOK(new, t) /\ DOMAIN new = DOMAIN gs /\ new[g] = v
               /\ \A h \in DOMAIN gs : h # g => new[h] = gs[h]
<1> DEFINE new == [gs EXCEPT ![g] = v]
<1>1. gs \in Seq(Group) /\ v \in Group /\ \A h \in DOMAIN gs : GroupOK(gs[h], t)
  BY DEF GroupsOK, GroupOK
<1>2. new \in Seq(Group) /\ DOMAIN new = DOMAIN gs
  BY <1>1
<1>3. new[g] = v /\ \A h \in DOMAIN gs : h # g => new[h] = gs[h]
  OBVIOUS
<1> HIDE DEF new
<1>4. \A h \in DOMAIN new : GroupOK(new[h], t)
  BY <1>1, <1>2, <1>3
<1>5. GroupsOK(new, t)
  BY <1>2, <1>4 DEF GroupsOK
<1> QED BY <1>2, <1>3, <1>5 DEF new

(* What does not touch the notes of a group is not seen by its notes.      *)
LEMMA NotesUntouched ==
    ASSUME NEW gs, NEW t, GroupsOK(gs, t), NEW g \in DOMAIN gs, NEW v, GroupOK(v, t),
           v.notes = gs[g].notes, v.channel = gs[g].channel
    PROVE  GroupsOK([gs EXCEPT ![g] = v], t) /\ SameLooks(gs, [gs EXCEPT ![g] = v])
<1> DEFINE new == [gs EXCEPT ![g] = v]
<1>1. /\ GroupsOK(new, t) /\ DOMAIN new = DOMAIN gs
      /\ \A h \in DOMAIN gs : new[h].notes = gs[h].notes /\ new[h].channel = gs[h].channel
  BY GroupChanged
<1> HIDE DEF new
<1>2. HandlesOf(new) = HandlesOf(gs)
  BY <1>1 DEF HandlesOf
<1>3. ASSUME NEW h \in HandlesOf(gs)
      PROVE  Look(new, h) = Look(gs, h)
  BY <1>1, HandleNames DEF Look
<1> QED BY <1>1, <1>2, <1>3 DEF SameLooks, new

(* A new group has no notes yet (create_group).                            *)
LEMMA GroupAdded ==
    ASSUME NEW gs, NEW t, GroupsOK(gs, t), NEW v, GroupOK(v, t), v.notes = EmptyColumns
    PROVE  GroupsOK(Append(gs, v), t) /\ SameLooks(gs, Append(gs, v))
<1> DEFINE new == Append(gs, v)
           n == Len(gs)
<1>1. gs \in Seq(Group) /\ v \in Group /\ n \in Nat /\ DOMAIN gs = 1..n
      /\ \A g \in DOMAIN gs : GroupOK(gs[g], t)
  BY GroupsOKTypes DEF GroupOK
<1>2. /\ new \in Seq(Group) /\ Len(new) = n + 1 /\ new[n + 1] = v
      /\ \A g \in 1..n : new[g] = gs[g]
  BY <1>1, AppendProperties
<1> HIDE DEF new
<1>3. DOMAIN new = 1..(n + 1) /\ \A g \in 1..(n + 1) : g \in 1..n \/ g = n + 1
  BY <1>1, <1>2, LenProperties
<1>4. 1..n \subseteq 1..(n + 1) /\ n + 1 \notin 1..n
  BY <1>1
<1>5. GroupsOK(new, t)
  BY <1>1, <1>2, <1>3 DEF GroupsOK
<1>6. DOMAIN v.notes.rows = {}
  BY EmptyColumnOK
<1>7. ASSUME NEW h
      PROVE  h \in HandlesOf(new) <=> h \in HandlesOf(gs)
  <2>1. ASSUME h \in HandlesOf(new)
        PROVE  h \in HandlesOf(gs)
    <3>1. /\ h.group \in DOMAIN new /\ h.row \in DOMAIN new[h.group].notes.rows
          /\ h = [group |-> h.group, row |-> h.row]
      BY <2>1, HandleNames
    <3>2. h.group # n + 1
      BY <1>2, <1>6, <3>1
    <3>3. h.group \in 1..n
      BY <1>3, <3>1, <3>2
    <3>4. [group |-> h.group, row |-> h.row] \in HandlesOf(gs)
      BY <1>1, <1>2, <3>1, <3>3, HandleNames
    <3> QED BY <3>1, <3>4
  <2>2. ASSUME h \in HandlesOf(gs)
        PROVE  h \in HandlesOf(new)
    <3>1. /\ h.group \in 1..n /\ h.row \in DOMAIN gs[h.group].notes.rows
          /\ h = [group |-> h.group, row |-> h.row]
      BY <1>1, <2>2, HandleNames
    <3>2. h.group \in DOMAIN new /\ h.row \in DOMAIN new[h.group].notes.rows
      BY <1>2, <1>3, <1>4, <3>1
    <3>3. [group |-> h.group, row |-> h.row] \in HandlesOf(new)
      BY <3>2, HandleNames
    <3> QED BY <3>1, <3>3
  <2> QED BY <2>1, <2>2
<1>8. HandlesOf(new) = HandlesOf(gs)
  BY <1>7
<1>9. ASSUME NEW h \in HandlesOf(gs)
      PROVE  Look(new, h) = Look(gs, h)
  <2>1. h.group \in 1..n
    BY <1>1, HandleNames
  <2> QED BY <1>2, <2>1 DEF Look
<1> QED BY <1>5, <1>8, <1>9 DEF SameLooks, new

--------------------------------------------------------------------------------
(* One row pushed, one row completed. *)

(* One column of a group replaced by another.                              *)
LEMMA NotesReplaced ==
    ASSUME NEW gs, NEW t, GroupsOK(gs, t), NEW g \in DOMAIN gs, NEW column, ColumnOK(Pitches, column),
           \A r \in DOMAIN column.rows : column.rows[r].time <= t
    PROVE  LET new == [gs EXCEPT ![g].notes = column]
           IN  /\ GroupsOK(new, t) /\ DOMAIN new = DOMAIN gs
               /\ new[g].notes = column /\ new[g].channel = gs[g].channel
               /\ \A x \in DOMAIN gs : x # g => new[x] = gs[x]
<1> DEFINE v == [gs[g] EXCEPT !.notes = column]
           new == [gs EXCEPT ![g].notes = column]
<1>1. gs[g] \in Group /\ column \in Columns(Pitches)
  BY GroupsOKTypes, ColumnTypes
<1>2. v \in Group /\ v.notes = column /\ v.channel = gs[g].channel
  BY <1>1 DEF Group
<1>3. new = [gs EXCEPT ![g] = v]
  OBVIOUS
<1> HIDE DEF v, new
<1>4. GroupOK(v, t)
  BY <1>2 DEF GroupOK
<1>5. /\ GroupsOK(new, t) /\ DOMAIN new = DOMAIN gs /\ new[g] = v
      /\ \A x \in DOMAIN gs : x # g => new[x] = gs[x]
  BY <1>3, <1>4, GroupChanged
<1> QED BY <1>2, <1>5 DEF new

(* A note-on adds a row that waits for its end (add_note, push).           *)
LEMMA RowPushed ==
    ASSUME NEW gs, NEW t \in 0..U64Max, GroupsOK(gs, t), NEW g \in DOMAIN gs, NEW pitch \in Pitches
    PROVE  LET column == gs[g].notes
               new == [gs EXCEPT ![g].notes = Push(column, t, pitch)]
               h == [group |-> g, row |-> Len(column.rows) + 1]
           IN  /\ GroupsOK(new, t)
               /\ h \notin HandlesOf(gs) /\ HandlesOf(new) = HandlesOf(gs) \cup {h}
               /\ \A x \in HandlesOf(gs) : Look(new, x) = Look(gs, x)
               /\ Look(new, h).channel = gs[g].channel /\ Look(new, h).time = t
               /\ Look(new, h).data = pitch /\ Look(new, h).open
<1> DEFINE column == gs[g].notes
           c == Push(column, t, pitch)
           new == [gs EXCEPT ![g].notes = c]
           n == Len(column.rows)
           h == [group |-> g, row |-> n + 1]
<1>1. /\ ColumnOK(Pitches, column) /\ \A r \in DOMAIN column.rows : column.rows[r].time <= t
      /\ t \in Nat /\ t <= t
  BY GroupsOKTypes, WidthAssumption DEF GroupOK
<1>2. /\ column \in Columns(Pitches) /\ NarrowFits(column) /\ InBounds(column)
      /\ n \in Nat /\ DOMAIN column.rows = 1..n
  BY <1>1, ColumnTypes
<1>3. /\ Len(c.rows) = n + 1
      /\ c.rows[n + 1].time = t /\ c.rows[n + 1].data = pitch
      /\ IsDangling(c, n + 1)
      /\ \A i \in 1..n : /\ c.rows[i].time = column.rows[i].time
                         /\ c.rows[i].data = column.rows[i].data
                         /\ IsDangling(c, i) <=> IsDangling(column, i)
  BY <1>2, PushProperties
<1>4. ColumnOK(Pitches, c)
  BY <1>1, PushKeepsColumn
<1> HIDE DEF column, c, n
<1>5. DOMAIN c.rows = 1..(n + 1)
  BY <1>3, <1>4, ColumnTypes
<1>6. \A i \in 1..(n + 1) : i \in 1..n \/ i = n + 1
  BY <1>2
<1>7. n + 1 \in 1..(n + 1) /\ 1..n \subseteq 1..(n + 1) /\ n + 1 \notin 1..n
  BY <1>2
<1>8. \A r \in DOMAIN c.rows : c.rows[r].time <= t
  BY <1>1, <1>2, <1>3, <1>5, <1>6
<1>9. /\ GroupsOK(new, t) /\ DOMAIN new = DOMAIN gs /\ new[g].notes = c
      /\ new[g].channel = gs[g].channel
      /\ \A x \in DOMAIN gs : x # g => new[x] = gs[x]
  BY <1>4, <1>8, NotesReplaced
<1> HIDE DEF new
<1>10. h.group = g /\ h.row = n + 1
  OBVIOUS
<1>11. h \notin HandlesOf(gs)
  BY <1>2, <1>7, <1>10, HandleNames DEF column
<1>12. h \in HandlesOf(new)
  BY <1>5, <1>7, <1>9, HandleNames
<1> HIDE DEF h
<1>13. ASSUME NEW x \in HandlesOf(gs)
       PROVE  x \in HandlesOf(new) /\ Look(new, x) = Look(gs, x)
  <2>1. /\ x.group \in DOMAIN gs /\ x.row \in DOMAIN gs[x.group].notes.rows
        /\ x = [group |-> x.group, row |-> x.row]
    BY HandleNames
  <2>2. CASE x.group = g
    <3>1. x.row \in 1..n /\ x.row \in 1..(n + 1)
      BY <1>2, <1>7, <2>1, <2>2 DEF column
    <3>2. [group |-> x.group, row |-> x.row] \in HandlesOf(new)
      BY <1>5, <1>9, <2>2, <3>1, HandleNames
    <3>3. Look(new, x) = Look(gs, x)
      <4>1. IsDangling(c, x.row) = IsDangling(column, x.row)
        BY <1>3, <3>1 DEF IsDangling
      <4> QED BY <1>3, <1>9, <2>2, <3>1, <4>1 DEF Look, column
    <3> QED BY <2>1, <3>2, <3>3
  <2>3. CASE x.group # g
    <3>1. new[x.group] = gs[x.group]
      BY <1>9, <2>1, <2>3
    <3>2. [group |-> x.group, row |-> x.row] \in HandlesOf(new)
      BY <1>9, <2>1, <3>1, HandleNames
    <3> QED BY <2>1, <3>1, <3>2 DEF Look
  <2> QED BY <2>2, <2>3
<1>14. ASSUME NEW x \in HandlesOf(new), x # h
       PROVE  x \in HandlesOf(gs)
  <2>1. /\ x.group \in DOMAIN gs /\ x.row \in DOMAIN new[x.group].notes.rows
        /\ x = [group |-> x.group, row |-> x.row]
    BY <1>9, HandleNames
  <2>2. CASE x.group = g
    <3>1. x.row \in 1..(n + 1) /\ x.row # n + 1
      BY <1>5, <1>9, <1>14, <2>1, <2>2 DEF h
    <3>2. x.row \in DOMAIN gs[x.group].notes.rows
      BY <1>2, <1>6, <2>2, <3>1 DEF column
    <3>3. [group |-> x.group, row |-> x.row] \in HandlesOf(gs)
      BY <2>1, <3>2, HandleNames
    <3> QED BY <2>1, <3>3
  <2>3. CASE x.group # g
    <3>1. x.row \in DOMAIN gs[x.group].notes.rows
      BY <1>9, <2>1, <2>3
    <3>2. [group |-> x.group, row |-> x.row] \in HandlesOf(gs)
      BY <2>1, <3>1, HandleNames
    <3> QED BY <2>1, <3>2
  <2> QED BY <2>2, <2>3
<1>15. HandlesOf(new) = HandlesOf(gs) \cup {h}
  BY <1>12, <1>13, <1>14
<1>16. /\ Look(new, h).channel = gs[g].channel /\ Look(new, h).time = t
       /\ Look(new, h).data = pitch /\ Look(new, h).open
  BY <1>3, <1>9, <1>10 DEF Look
<1> QED BY <1>9, <1>11, <1>13, <1>15, <1>16 DEF new, h, n, c, column

(* A note-off ends one row and nothing else (end_note, complete).          *)
LEMMA RowCompleted ==
    ASSUME NEW gs, NEW t \in 0..U64Max, GroupsOK(gs, t), NEW h \in HandlesOf(gs), Look(gs, h).open
    PROVE  LET d == t - Look(gs, h).time
               new == [gs EXCEPT ![h.group].notes = Complete(gs[h.group].notes, h.row, d)]
           IN  /\ GroupsOK(new, t) /\ HandlesOf(new) = HandlesOf(gs)
               /\ \A x \in HandlesOf(gs) : x # h => Look(new, x) = Look(gs, x)
               /\ Look(new, h).time = Look(gs, h).time /\ ~Look(new, h).open
<1> DEFINE g == h.group
           k == h.row
           column == gs[g].notes
           d == t - Look(gs, h).time
           c == Complete(column, k, d)
           new == [gs EXCEPT ![g].notes = c]
<1>1. g \in DOMAIN gs /\ k \in DOMAIN column.rows /\ h = [group |-> g, row |-> k]
  BY HandleNames
<1>2. /\ ColumnOK(Pitches, column) /\ \A r \in DOMAIN column.rows : column.rows[r].time <= t
  BY <1>1, GroupsOKTypes DEF GroupOK
<1>3. /\ column \in Columns(Pitches) /\ NarrowFits(column) /\ InBounds(column)
      /\ \A r \in DOMAIN column.rows : column.rows[r].time \in Nat
  BY <1>2, ColumnTypes
<1>4. Look(gs, h).time = column.rows[k].time /\ IsDangling(column, k)
  BY DEF Look
<1>5. d \in 0..U64Max
  <2>1. column.rows[k].time \in Nat /\ column.rows[k].time <= t
    BY <1>1, <1>2, <1>3
  <2>2. t - column.rows[k].time \in 0..U64Max
    BY <2>1, WidthAssumption
  <2> QED BY <1>4, <2>2
<1> HIDE DEF d, column, g, k
<1>6. /\ DOMAIN c.rows = DOMAIN column.rows
      /\ ~IsDangling(c, k)
      /\ \A i \in DOMAIN column.rows :
            /\ c.rows[i].time = column.rows[i].time
            /\ c.rows[i].data = column.rows[i].data
            /\ i # k => (IsDangling(c, i) <=> IsDangling(column, i))
  BY <1>1, <1>3, <1>4, <1>5, CompleteProperties
<1>7. ColumnOK(Pitches, c)
  BY <1>1, <1>2, <1>4, <1>5, CompleteKeepsColumn
<1> HIDE DEF c
<1>8. \A r \in DOMAIN c.rows : c.rows[r].time <= t
  BY <1>2, <1>6
<1>9. /\ GroupsOK(new, t) /\ DOMAIN new = DOMAIN gs /\ new[g].notes = c
      /\ new[g].channel = gs[g].channel
      /\ \A x \in DOMAIN gs : x # g => new[x] = gs[x]
  BY <1>1, <1>7, <1>8, NotesReplaced
<1> HIDE DEF new
<1>10. \A x \in DOMAIN gs : DOMAIN new[x].notes.rows = DOMAIN gs[x].notes.rows
  BY <1>6, <1>9 DEF column
<1>11. HandlesOf(new) = HandlesOf(gs)
  BY <1>9, <1>10 DEF HandlesOf
<1>12. ASSUME NEW x \in HandlesOf(gs), x # h
       PROVE  Look(new, x) = Look(gs, x)
  <2>1. /\ x.group \in DOMAIN gs /\ x.row \in DOMAIN gs[x.group].notes.rows
        /\ x = [group |-> x.group, row |-> x.row]
    BY HandleNames
  <2>2. CASE x.group = g
    <3>1. x.row # k /\ x.row \in DOMAIN column.rows
      BY <1>1, <1>12, <2>1, <2>2 DEF column
    <3>2. IsDangling(c, x.row) = IsDangling(column, x.row)
      BY <1>6, <3>1 DEF IsDangling
    <3> QED BY <1>6, <1>9, <2>2, <3>1, <3>2 DEF Look, column
  <2>3. CASE x.group # g
    <3>1. new[x.group] = gs[x.group]
      BY <1>9, <2>1, <2>3
    <3> QED BY <3>1 DEF Look
  <2> QED BY <2>2, <2>3
<1>13. Look(new, h).time = Look(gs, h).time /\ ~Look(new, h).open
  <2>1. Look(new, h).time = c.rows[k].time /\ (Look(new, h).open <=> IsDangling(c, k))
    BY <1>9 DEF Look, g, k
  <2> QED BY <1>1, <1>4, <1>6, <2>1
<1> QED BY <1>5, <1>9, <1>11, <1>12, <1>13 DEF new, c, d, column, g, k

--------------------------------------------------------------------------------
(* The open notes of the track, by the theorems about OpenNotes. *)

StartsOf(gs) == [h \in HandlesOf(gs) |-> Look(gs, h).time]
LooksOf(gs) == [h \in HandlesOf(gs) |-> Look(gs, h)]

Bookkeeping == TP!TablesInv(HandlesOf(groups), StartsOf(groups))
Sounds == SoundOK(HandlesOf(groups), LooksOf(groups), TP!Sounding)
NotesInv == Bookkeeping /\ Sounds

(* Handles are no free slots, and starts are times.                        *)
LEMMA HandlesDistinct ==
    ASSUME NEW gs, NEW t, GroupsOK(gs, t)
    PROVE  TP!NotesOK(HandlesOf(gs), StartsOf(gs))
<1>1. ASSUME NEW h \in HandlesOf(gs)
      PROVE  h \in [group : Nat, row : Nat] /\ StartsOf(gs)[h] \in Nat
  <2>1. /\ h.group \in DOMAIN gs /\ h.row \in DOMAIN gs[h.group].notes.rows
        /\ h = [group |-> h.group, row |-> h.row]
    BY HandleNames
  <2>2. /\ DOMAIN gs = 1..Len(gs) /\ ColumnOK(Pitches, gs[h.group].notes)
    BY <2>1, GroupsOKTypes
  <2>3. /\ h.row \in 1..Len(gs[h.group].notes.rows)
        /\ gs[h.group].notes.rows[h.row].time \in Nat
    BY <2>1, <2>2, ColumnTypes
  <2>4. h.group \in Nat /\ h.row \in Nat
    BY <2>1, <2>2, <2>3
  <2>5. [group |-> h.group, row |-> h.row] \in [group : Nat, row : Nat]
    BY <2>4
  <2> QED BY <2>1, <2>3, <2>5 DEF StartsOf, Look
<1>2. Free \notin HandlesOf(gs)
  BY <1>1, TrackAssumption
<1> QED BY <1>1, <1>2, WidthAssumption DEF TP!NotesOK

(* The queues of the keys hold handles.                                    *)
LEMMA SoundingHandles ==
    ASSUME Bookkeeping
    PROVE  /\ DOMAIN TP!Sounding = NoteKeys
           /\ \A k \in NoteKeys : TP!Sounding[k] \in Seq(HandlesOf(groups))
<1>1. PICK N, S : N = HandlesOf(groups) /\ S = StartsOf(groups)
  OBVIOUS
<1>2. TP!TablesOK(N)
  BY <1>1 DEF Bookkeeping, TP!TablesInv
<1>3. /\ TP!Sounding = [k \in NoteKeys |-> IF slotNote[k] = Free THEN <<>>
                                           ELSE <<slotNote[k]>> \o TP!Waiting(k)]
      /\ \A k \in NoteKeys : /\ TP!Waiting(k) \in Seq(N)
                             /\ slotNote[k] # Free => slotNote[k] \in N
  BY <1>2, TrackerAssumption, TP!SoundingTypes
<1>4. ASSUME NEW k \in NoteKeys
      PROVE  TP!Sounding[k] \in Seq(N)
  <2>1. CASE slotNote[k] = Free
    BY <1>3, <2>1
  <2>2. CASE slotNote[k] # Free
    <3> DEFINE x == slotNote[k]
               W == TP!Waiting(k)
    <3>1. x \in N /\ W \in Seq(N) /\ TP!Sounding[k] = <<x>> \o W
      BY <1>3, <2>2
    <3> HIDE DEF x, W
    <3>2. <<x>> \in Seq(N)
      BY <3>1
    <3> QED BY <3>1, <3>2, ConcatProperties
  <2> QED BY <2>1, <2>2
<1> QED BY <1>1, <1>3, <1>4

(* What does not touch the notes changes nothing of the above.             *)
LEMMA QuietStep ==
    ASSUME NotesInv, NEW t, GroupsOK(groups, t), GroupsOK(groups', t),
           SameLooks(groups, groups'), UNCHANGED tracker
    PROVE  NotesInv'
<1>1. PICK N, S, N1, S1, L : /\ N = HandlesOf(groups) /\ S = StartsOf(groups)
                             /\ N1 = HandlesOf(groups') /\ S1 = StartsOf(groups')
                             /\ L = LooksOf(groups)
  OBVIOUS
<1>2. N1 = N /\ S1 = S /\ LooksOf(groups') = L
  BY <1>1 DEF SameLooks, StartsOf, LooksOf
<1>3. TP!NotesOK(N1, S1)
  <2>1. PICK new : new = groups'
    OBVIOUS
  <2>2. TP!NotesOK(HandlesOf(new), StartsOf(new))
    BY <2>1, HandlesDistinct
  <2> QED BY <1>1, <2>1, <2>2
<1>4. TP!Extend(N, S, N1, S1)
  BY <1>2, <1>3 DEF TP!Extend
<1>5. TP!TablesInv(N, S) /\ SoundOK(N, L, TP!Sounding)
  BY <1>1 DEF NotesInv, Bookkeeping, Sounds
<1>6. TP!tracker' = TP!tracker
  BY DEF tracker, TP!tracker
<1>7. TP!TablesInv(N1, S1)' /\ TP!Sounding' = TP!Sounding
  BY <1>4, <1>5, <1>6, TrackerAssumption, TP!TablesKept
<1>8. SoundOK(N1, L, TP!Sounding')
  BY <1>2, <1>5, <1>7
<1>9. Bookkeeping'
  BY <1>1, <1>7 DEF Bookkeeping
<1>10. Sounds'
  BY <1>1, <1>2, <1>8 DEF Sounds
<1> QED BY <1>9, <1>10 DEF NotesInv

--------------------------------------------------------------------------------
(* A note starts and a note ends, in the columns and in the tables. *)

(* The row of a new note, and the note in the queue of its key.            *)
LEMMA OpenedStep ==
    ASSUME NotesInv, NEW t \in 0..U64Max, NEW gs, GroupsOK(gs, t), SameLooks(groups, gs),
           NEW g \in DOMAIN gs, NEW pitch \in Pitches, NEW c \in Channels, gs[g].channel = c,
           groups' = [gs EXCEPT ![g].notes = Push(gs[g].notes, t, pitch)],
           Tracker!Open(<<c, pitch>>, [group |-> g, row |-> Len(gs[g].notes.rows) + 1], t)
    PROVE  NotesInv' /\ GroupsOK(groups', t)
<1> DEFINE h == [group |-> g, row |-> Len(gs[g].notes.rows) + 1]
           key == <<c, pitch>>
<1>1. PICK new, N, S, L, T, N1, S1, L1 :
        /\ new = groups' /\ N = HandlesOf(groups) /\ S = StartsOf(groups) /\ L = LooksOf(groups)
        /\ T = TP!Sounding
        /\ N1 = HandlesOf(groups') /\ S1 = StartsOf(groups') /\ L1 = LooksOf(groups')
  OBVIOUS
<1>2. /\ HandlesOf(gs) = N /\ \A x \in N : Look(gs, x) = L[x] /\ S[x] = L[x].time
  BY <1>1 DEF SameLooks, LooksOf, StartsOf
<1>4. Tracker!Open(key, h, t)
  OBVIOUS
<1> HIDE DEF h
<1>3. /\ GroupsOK(new, t)
      /\ h \notin N /\ N1 = N \cup {h}
      /\ \A x \in N : Look(new, x) = Look(gs, x)
      /\ Look(new, h).channel = c /\ Look(new, h).time = t
      /\ Look(new, h).data = pitch /\ Look(new, h).open
  <2> DEFINE column == gs[g].notes
             m == [gs EXCEPT ![g].notes = Push(column, t, pitch)]
             x == [group |-> g, row |-> Len(column.rows) + 1]
  <2>1. /\ GroupsOK(m, t)
        /\ x \notin HandlesOf(gs) /\ HandlesOf(m) = HandlesOf(gs) \cup {x}
        /\ \A y \in HandlesOf(gs) : Look(m, y) = Look(gs, y)
        /\ Look(m, x).channel = gs[g].channel /\ Look(m, x).time = t
        /\ Look(m, x).data = pitch /\ Look(m, x).open
    BY RowPushed, Zenon
  <2>2. new = m
    BY <1>1
  <2>3. h = x
    BY DEF h
  <2> HIDE DEF m, x
  <2> QED BY <1>1, <1>2, <2>1, <2>2, <2>3
<1>5. /\ \A x \in N : L1[x] = L[x] /\ S1[x] = S[x]
      /\ L1[h].channel = c /\ L1[h].data = pitch /\ L1[h].open /\ S1[h] = t
  BY <1>1, <1>2, <1>3 DEF LooksOf, StartsOf
<1>6. TP!NotesOK(N1, S1)
  <2>1. TP!NotesOK(HandlesOf(new), StartsOf(new))
    BY <1>3, HandlesDistinct
  <2> QED BY <1>1, <2>1
<1>7. TP!Extend(N, S, N1, S1) /\ h \in N1
  BY <1>3, <1>5, <1>6 DEF TP!Extend
<1>8. TP!TablesInv(N, S) /\ SoundOK(N, L, T)
  BY <1>1 DEF NotesInv, Bookkeeping, Sounds
<1>9. key \in NoteKeys
  BY DEF NoteKeys
<1>10. TP!Open(key, h, S1[h])
  BY <1>4, <1>5
     DEF Tracker!Open, Tracker!OpenDirect, Tracker!OpenInOwnQueue, Tracker!OpenInFreeQueue,
         Tracker!OpenInNewQueue, Tracker!TakeSlot, Tracker!Pack, Tracker!Enqueue, Tracker!Link,
         Tracker!EmptyQueue, Tracker!NoEntry, Tracker!NoQueue,
         TP!Open, TP!OpenDirect, TP!OpenInOwnQueue, TP!OpenInFreeQueue,
         TP!OpenInNewQueue, TP!TakeSlot, TP!Pack, TP!Enqueue, TP!Link,
         TP!EmptyQueue, TP!NoEntry, TP!NoQueue
<1> HIDE DEF key
<1>11. /\ TP!TablesInv(N1, S1)'
       /\ TP!Sounding' = [T EXCEPT ![key] = Append(T[key], h)]
  <2>1. /\ TP!TablesInv(N1, S1)'
        /\ TP!Sounding' = [TP!Sounding EXCEPT ![key] = Append(TP!Sounding[key], h)]
    BY <1>7, <1>8, <1>9, <1>10, TrackerAssumption, TP!OpenStep
  <2> QED BY <1>1, <2>1
<1>12. DOMAIN T = NoteKeys /\ \A k \in NoteKeys : T[k] \in Seq(N)
  BY <1>1, SoundingHandles DEF NotesInv
<1>13. SoundOK(N1, L1, [T EXCEPT ![key] = Append(T[key], h)])
  <2>1. L1[h].channel = key[1] /\ L1[h].data = key[2]
    BY <1>5 DEF key
  <2>2. /\ h \notin N /\ SoundOK(N, L, T) /\ L1[h].open
        /\ \A x \in N : L1[x] = L[x]
    BY <1>3, <1>5, <1>8
  <2> DEFINE T1 == [T EXCEPT ![key] = Append(T[key], h)]
  <2>3. DOMAIN T1 = NoteKeys /\ T1[key] = Append(T[key], h) /\ \A k \in NoteKeys : k # key => T1[k] = T[k]
    BY <1>9, <1>12
  <2> DEFINE n == Len(T[key])
             A == Append(T[key], h)
  <2>5. n \in Nat /\ DOMAIN T[key] = 1..n
    BY <1>9, <1>12, LenProperties
  <2>6. DOMAIN A = 1..(n + 1) /\ A[n + 1] = h /\ \A i \in 1..n : A[i] = T[key][i]
    <3> DEFINE M == N \cup {h}
    <3>1. T[key] \in Seq(M) /\ h \in M
      BY <1>9, <1>12, SeqMonotonic
    <3> HIDE DEF M
    <3>2. /\ A \in Seq(M) /\ Len(A) = n + 1 /\ A[n + 1] = h
          /\ \A i \in 1..n : A[i] = T[key][i]
      BY <3>1, AppendProperties
    <3> QED BY <3>2, LenProperties
  <2> HIDE DEF T1, n, A
  <2>7. DOMAIN T1[key] = 1..(n + 1) /\ T1[key][n + 1] = h /\ \A i \in 1..n : T1[key][i] = T[key][i]
    BY <2>3, <2>6 DEF A
  <2>8. N1 = N \cup {h}
    BY <1>3
  <2>4. SoundOK(N1, L1, T1)
    BY <1>9, <2>1, <2>2, <2>3, <2>5, <2>7, <2>8, OneMoreSounds
  <2> QED BY <2>4 DEF T1
<1>14. Bookkeeping'
  BY <1>1, <1>11 DEF Bookkeeping
<1>15. Sounds'
  BY <1>1, <1>3, <1>11, <1>13 DEF Sounds
<1> QED BY <1>1, <1>3, <1>14, <1>15 DEF NotesInv

(* end_note: the first note of the key ends, with the time since its start. *)
LEMMA ClosedStep ==
    ASSUME NotesInv, NEW t \in 0..U64Max, GroupsOK(groups, t), NEW key \in NoteKeys,
           LET h == slotNote[key]
           IN  /\ groups' = [groups EXCEPT ![h.group].notes =
                                Complete(@, h.row, t - Tracker!StartOf(key, RowStarts))]
               /\ Tracker!Close(key, RowStarts)
    PROVE  NotesInv' /\ GroupsOK(groups', t)
<1>1. PICK gs, new, N, S, L, T, N1, S1, L1, h, W :
        /\ gs = groups /\ new = groups'
        /\ N = HandlesOf(groups) /\ S = StartsOf(groups) /\ L = LooksOf(groups)
        /\ T = TP!Sounding /\ h = slotNote[key] /\ W = TP!Waiting(key)
        /\ N1 = HandlesOf(groups') /\ S1 = StartsOf(groups') /\ L1 = LooksOf(groups')
  OBVIOUS
<1>2. RowStarts = S
  BY <1>1 DEF RowStarts, Handles, StartsOf, HandlesOf, Look
<1>3. TP!TablesInv(N, S) /\ SoundOK(N, L, T)
  BY <1>1 DEF NotesInv, Bookkeeping, Sounds
<1>4. TP!Close(key, S)
  BY <1>2
     DEF Tracker!Close, Tracker!CloseWithoutQueue, Tracker!CloseAndRelease, Tracker!CloseAndPromote,
         Tracker!ClearSlot, Tracker!TakeSlot, Tracker!Pack, Tracker!NoEntry, Tracker!NoQueue,
         TP!Close, TP!CloseWithoutQueue, TP!CloseAndRelease, TP!CloseAndPromote,
         TP!ClearSlot, TP!TakeSlot, TP!Pack, TP!NoEntry, TP!NoQueue
<1>5. /\ h \in N /\ TP!StartOf(key, S) = S[h]
      /\ T[key] = <<h>> \o W /\ W \in Seq(N) /\ Tail(T[key]) = W
  <2>1. TP!TablesInv(N, S) /\ TP!Close(key, S)
    BY <1>3, <1>4
  <2>2. /\ slotNote[key] \in N /\ TP!StartOf(key, S) = S[slotNote[key]]
        /\ TP!Sounding[key] = <<slotNote[key]>> \o TP!Waiting(key) /\ TP!Waiting(key) \in Seq(N)
        /\ Tail(TP!Sounding[key]) = TP!Waiting(key)
    BY <2>1, TrackerAssumption, TP!ClosedNote
  <2> QED BY <1>1, <2>2
<1>6. /\ TP!TablesInv(N, S)'
      /\ TP!Sounding' = [T EXCEPT ![key] = W]
  <2>1. /\ TP!TablesInv(N, S)'
        /\ TP!Sounding' = [TP!Sounding EXCEPT ![key] = Tail(TP!Sounding[key])]
    BY <1>3, <1>4, TrackerAssumption, TP!CloseStep
  <2> QED BY <1>1, <1>5, <2>1
<1>7. Tracker!StartOf(key, RowStarts) = Look(gs, h).time
  <2>1. Tracker!StartOf(key, RowStarts) = TP!StartOf(key, S)
    BY <1>2 DEF Tracker!StartOf, TP!StartOf
  <2> QED BY <1>1, <1>5, <2>1 DEF StartsOf
<1>8. Look(gs, h).open
  <2>1. 1 \in DOMAIN T[key] /\ T[key][1] = h
    BY <1>5
  <2>2. L[h].open
    BY <1>3, <2>1 DEF SoundOK
  <2> QED BY <1>1, <1>5, <2>2 DEF LooksOf
<1>9. new = [gs EXCEPT ![h.group].notes = Complete(gs[h.group].notes, h.row, t - Look(gs, h).time)]
  BY <1>1, <1>7
<1>10. /\ GroupsOK(new, t) /\ HandlesOf(new) = HandlesOf(gs)
       /\ \A x \in HandlesOf(gs) : x # h => Look(new, x) = Look(gs, x)
       /\ Look(new, h).time = Look(gs, h).time /\ ~Look(new, h).open
  <2>1. h \in HandlesOf(gs) /\ GroupsOK(gs, t)
    BY <1>1, <1>5
  <2> DEFINE m == [gs EXCEPT ![h.group].notes =
                     Complete(gs[h.group].notes, h.row, t - Look(gs, h).time)]
  <2>2. /\ GroupsOK(m, t) /\ HandlesOf(m) = HandlesOf(gs)
        /\ \A x \in HandlesOf(gs) : x # h => Look(m, x) = Look(gs, x)
        /\ Look(m, h).time = Look(gs, h).time /\ ~Look(m, h).open
    BY <1>8, <2>1, RowCompleted, Zenon
  <2>3. new = m
    BY <1>9
  <2> HIDE DEF m
  <2> QED BY <2>2, <2>3
<1>11. N1 = N /\ S1 = S /\ (\A x \in N : x # h => L1[x] = L[x]) /\ ~L1[h].open
  <2>1. N1 = N
    BY <1>1, <1>10
  <2>2. \A x \in N : Look(new, x).time = Look(gs, x).time
    BY <1>1, <1>10
  <2>3. S1 = S
    BY <1>1, <2>1, <2>2 DEF StartsOf
  <2> QED BY <1>1, <1>5, <1>10, <2>1, <2>3 DEF LooksOf
<1>12. DOMAIN T = NoteKeys
  BY <1>1, SoundingHandles DEF NotesInv
<1>13. SoundOK(N, L1, [T EXCEPT ![key] = W])
  <2> DEFINE T1 == [T EXCEPT ![key] = W]
  <2>1. T1[key] = W /\ \A k \in NoteKeys : k # key => T1[k] = T[k]
    BY <1>12
  <2> DEFINE n == Len(W)
  <2>3. n \in Nat /\ DOMAIN W = 1..n
    BY <1>5, LenProperties
  <2>4. DOMAIN T[key] = 1..(n + 1) /\ T[key][1] = h /\ \A i \in 1..n : T[key][i + 1] = W[i]
    BY <1>5, <2>3
  <2> HIDE DEF T1, n
  <2>5. DOMAIN T1[key] = 1..n /\ \A i \in 1..n : T1[key][i] = T[key][i + 1]
    BY <2>1, <2>3, <2>4
  <2>6. SoundOK(N, L, T) /\ h \in N /\ (\A x \in N : x # h => L1[x] = L[x]) /\ ~L1[h].open
    BY <1>3, <1>5, <1>11
  <2>7. /\ n \in Nat /\ DOMAIN T[key] = 1..(n + 1) /\ T[key][1] = h
        /\ \A k \in NoteKeys : k # key => T1[k] = T[k]
    BY <2>1, <2>3, <2>4
  <2>2. SoundOK(N, L1, T1)
    BY <2>5, <2>6, <2>7, OneLessSounds
  <2> QED BY <2>2 DEF T1
<1>14. Bookkeeping'
  BY <1>1, <1>6, <1>11 DEF Bookkeeping
<1>15. Sounds'
  BY <1>1, <1>6, <1>11, <1>13 DEF Sounds
<1> QED BY <1>1, <1>10, <1>14, <1>15 DEF NotesInv

--------------------------------------------------------------------------------
(* The other columns. *)

(* What the columns other than the notes hold, and no time after t.        *)
Values(t) ==
    /\ GroupsOK(groups, t)
    /\ stragglers \in [Channels -> Waiting]
    /\ pedalStarts \in [Channels -> Nat \cup {NotHeld}]
    /\ \A c \in Channels : pedalStarts[c] # NotHeld => pedalStarts[c] <= t

Phases == {"reading", "finished", "failed"}

FullInv ==
    /\ IInv /\ NotesInv /\ Values(now)
    /\ now \in 0..U64Max /\ phase \in Phases

(* What is appended outside of a group's notes changes no note.            *)
LEMMA ExtendTypes ==
    ASSUME NEW items, items.controls \in Seq(ControlItem), items.bends \in Seq(Timed),
           items.pedals \in Seq(PedalItem)
    PROVE  /\ \A waiting \in Waiting : Extend(waiting, items) \in Waiting
           /\ \A group \in Group : /\ Extend(group, items) \in Group
                                   /\ Extend(group, items).notes = group.notes
                                   /\ Extend(group, items).channel = group.channel
<1>1. ASSUME NEW controls \in Seq(ControlItem), NEW bends \in Seq(Timed),
             NEW pedals \in Seq(PedalItem)
      PROVE  /\ controls \o items.controls \in Seq(ControlItem)
             /\ bends \o items.bends \in Seq(Timed)
             /\ pedals \o items.pedals \in Seq(PedalItem)
  BY ConcatProperties
<1>2. ASSUME NEW waiting \in Waiting
      PROVE  Extend(waiting, items) \in Waiting
  <2>1. /\ waiting.controls \o items.controls \in Seq(ControlItem)
        /\ waiting.bends \o items.bends \in Seq(Timed)
        /\ waiting.pedals \o items.pedals \in Seq(PedalItem)
    BY <1>1 DEF Waiting
  <2> QED BY <2>1 DEF Extend, Waiting
<1>3. ASSUME NEW group \in Group
      PROVE  /\ Extend(group, items) \in Group /\ Extend(group, items).notes = group.notes
             /\ Extend(group, items).channel = group.channel
  <2>1. /\ group.controls \o items.controls \in Seq(ControlItem)
        /\ group.bends \o items.bends \in Seq(Timed)
        /\ group.pedals \o items.pedals \in Seq(PedalItem)
    BY <1>1 DEF Group
  <2> QED BY <2>1 DEF Extend, Group
<1> QED BY <1>2, <1>3

(* Controls, bends and pedals go to a group or wait.                       *)
LEMMA AppendKeepsValues ==
    ASSUME IInv, NEW t, Values(t), NEW c \in Channels, NEW items,
           items.controls \in Seq(ControlItem), items.bends \in Seq(Timed),
           items.pedals \in Seq(PedalItem), AppendToGroupOrStraggler(c, items)
    PROVE  /\ GroupsOK(groups', t) /\ SameLooks(groups, groups')
           /\ stragglers' \in [Channels -> Waiting]
<1>1. GroupsOK(groups, t) /\ stragglers \in [Channels -> Waiting]
  BY DEF Values
<1>2. CASE CurrentGroup(c) = NoGroup
  <2>1. groups' = groups /\ stragglers' = [stragglers EXCEPT ![c] = Extend(stragglers[c], items)]
    BY <1>2 DEF AppendToGroupOrStraggler
  <2>2. Extend(stragglers[c], items) \in Waiting
    BY <1>1, ExtendTypes
  <2>3. stragglers' \in [Channels -> Waiting]
    BY <1>1, <2>1, <2>2
  <2>4. SameLooks(groups, groups)
    BY DEF SameLooks
  <2> QED BY <1>1, <2>1, <2>3, <2>4
<1>3. CASE CurrentGroup(c) # NoGroup
  <2> DEFINE g == CurrentGroup(c)
             v == Extend(groups[g], items)
  <2>1. groups' = [groups EXCEPT ![g] = v] /\ stragglers' = stragglers
    BY <1>3 DEF AppendToGroupOrStraggler
  <2>2. g \in DOMAIN groups
    <3>1. /\ groupOf \in [GroupKeys -> 0..Len(groups)] /\ CurrentKey(c) \in GroupKeys
          /\ Len(groups) \in Nat /\ DOMAIN groups = 1..Len(groups)
      BY KeyType, GroupsTypes DEF IInv, Tables, CurrentKey
    <3> QED BY <1>3, <3>1 DEF CurrentGroup, NoGroup
  <2>3. GroupOK(groups[g], t) /\ groups[g] \in Group
    BY <1>1, <2>2, GroupsOKTypes
  <2>4. v \in Group /\ v.notes = groups[g].notes /\ v.channel = groups[g].channel
    BY <2>3, ExtendTypes
  <2> HIDE DEF g, v
  <2>5. GroupOK(v, t)
    BY <2>3, <2>4 DEF GroupOK
  <2>6. GroupsOK([groups EXCEPT ![g] = v], t) /\ SameLooks(groups, [groups EXCEPT ![g] = v])
    BY <1>1, <2>2, <2>4, <2>5, NotesUntouched
  <2> QED BY <1>1, <2>1, <2>6
<1> QED BY <1>2, <1>3

(* The group of the channel's program: it is there, and is the channel's.  *)
LEMMA EnsuredGroup ==
    ASSUME IInv, NEW t, Values(t), NEW c \in Channels
    PROVE  LET s == EnsureGroup(c)
               g == s.groupOf[CurrentKey(c)]
           IN  /\ GroupsOK(s.groups, t) /\ SameLooks(groups, s.groups)
               /\ g \in DOMAIN s.groups /\ s.groups[g].channel = c
               /\ s.stragglers \in [Channels -> Waiting]
<1> DEFINE s == EnsureGroup(c)
           k == CurrentKey(c)
           g == s.groupOf[k]
<1>1. /\ Tables(s.groups, s.groupOf, s.activePrograms)
      /\ programs[c] \in 0..(Programs - 1)
  BY EnsureKeepsTables DEF IInv
<1>2. k \in GroupKeys /\ k = Key(c, programs[c])
  BY <1>1, KeyType DEF CurrentKey
<1>3. GroupsOK(groups, t) /\ stragglers \in [Channels -> Waiting]
  BY DEF Values
<1>4. /\ g # NoGroup /\ GroupsOK(s.groups, t) /\ SameLooks(groups, s.groups)
      /\ s.stragglers \in [Channels -> Waiting]
  <2>1. CASE CurrentGroup(c) # NoGroup
    <3>1. s.groups = groups /\ s.groupOf = groupOf /\ s.stragglers = stragglers
      BY <2>1 DEF EnsureGroup
    <3>2. SameLooks(groups, groups)
      BY DEF SameLooks
    <3> HIDE DEF s
    <3> QED BY <1>3, <2>1, <3>1, <3>2 DEF CurrentGroup
  <2>2. CASE CurrentGroup(c) = NoGroup
    <3> DEFINE v == NewGroup(c, programs[c], stragglers[c])
    <3>1. /\ s.groups = Append(groups, v) /\ s.groupOf = [groupOf EXCEPT ![k] = Len(groups) + 1]
          /\ s.stragglers = [stragglers EXCEPT ![c] = NoColumns]
      BY <2>2 DEF EnsureGroup, CreateGroup
    <3>2. DOMAIN groupOf = GroupKeys /\ Len(groups) \in Nat
      BY GroupsTypes DEF IInv, Tables
    <3>3. g # NoGroup
      BY <1>2, <3>1, <3>2 DEF NoGroup
    <3>4. NoColumns \in Waiting
      BY EmptySeq DEF NoColumns, Waiting
    <3>5. s.stragglers \in [Channels -> Waiting]
      BY <1>3, <3>1, <3>4
    <3>6. /\ EmptyColumns \in Columns(Pitches) /\ ColumnOK(Pitches, EmptyColumns)
          /\ DOMAIN EmptyColumns.rows = {}
      BY EmptyColumnOK, ColumnTypes
    <3>7. v \in Group /\ v.notes = EmptyColumns
      BY <1>1, <1>3, <3>6 DEF NewGroup, Group, Waiting
    <3> HIDE DEF v
    <3>8. GroupOK(v, t)
      BY <3>6, <3>7 DEF GroupOK
    <3>9. GroupsOK(Append(groups, v), t) /\ SameLooks(groups, Append(groups, v))
      BY <1>3, <3>7, <3>8, GroupAdded
    <3> QED BY <3>1, <3>3, <3>5, <3>9
  <2> QED BY <2>1, <2>2
<1> HIDE DEF s
<1>5. g \in DOMAIN s.groups
  <2>1. s.groupOf \in [GroupKeys -> 0..Len(s.groups)] /\ IsGroups(s.groups)
    BY <1>1 DEF Tables
  <2>2. Len(s.groups) \in Nat /\ DOMAIN s.groups = 1..Len(s.groups)
    BY <2>1, GroupsTypes
  <2> QED BY <1>2, <1>4, <2>1, <2>2 DEF NoGroup
<1>6. s.groups[g].channel = c
  BY <1>1, <1>2, <1>4 DEF Tables, Indexed
<1> QED BY <1>4, <1>5, <1>6 DEF s

--------------------------------------------------------------------------------
(* One lemma per event. *)

(* add_note: the row is in the group of the channel, and its note sounds.  *)
LEMMA NoteOnKeeps ==
    ASSUME IInv, NotesInv, NEW t \in 0..U64Max, t = now, Values(t), NEW c \in Channels,
           NEW pitch \in Pitches, NoteOn(c, pitch)
    PROVE  Values(t)' /\ NotesInv'
<1> DEFINE s == EnsureGroup(c)
           g == s.groupOf[CurrentKey(c)]
<1>1. /\ GroupsOK(s.groups, t) /\ SameLooks(groups, s.groups)
      /\ g \in DOMAIN s.groups /\ s.groups[g].channel = c
      /\ s.stragglers \in [Channels -> Waiting]
  BY EnsuredGroup
<1>2. PICK gs, x : gs = s.groups /\ x = g
  OBVIOUS
<1>3. /\ groups' = [gs EXCEPT ![x].notes = Push(gs[x].notes, t, pitch)]
      /\ stragglers' = s.stragglers /\ pedalStarts' = pedalStarts
      /\ Tracker!Open(<<c, pitch>>, [group |-> x, row |-> Len(gs[x].notes.rows) + 1], t)
  BY <1>2 DEF NoteOn, SetGrouping
<1> HIDE DEF s, g
<1>4. NotesInv' /\ GroupsOK(groups', t)
  BY <1>1, <1>2, <1>3, OpenedStep
<1> QED BY <1>1, <1>3, <1>4 DEF Values

(* end_note: the row ends, and its note sounds no more.                    *)
LEMMA NoteOffKeeps ==
    ASSUME NotesInv, NEW t \in 0..U64Max, t = now, Values(t), NEW c \in Channels,
           NEW pitch \in Pitches, NoteOff(c, pitch)
    PROVE  Values(t)' /\ NotesInv'
<1> DEFINE key == <<c, pitch>>
<1>1. key \in NoteKeys /\ GroupsOK(groups, t)
  BY DEF NoteKeys, Values
<1>2. LET h == slotNote[key]
      IN  /\ groups' = [groups EXCEPT ![h.group].notes =
                           Complete(@, h.row, t - Tracker!StartOf(key, RowStarts))]
          /\ Tracker!Close(key, RowStarts)
  BY DEF NoteOff
<1> HIDE DEF key
<1>3. NotesInv' /\ GroupsOK(groups', t)
  BY <1>1, <1>2, ClosedStep
<1>4. stragglers' = stragglers /\ pedalStarts' = pedalStarts
  BY DEF NoteOff
<1> QED BY <1>3, <1>4 DEF Values

(* A control and the pedal it ends: the pedal went down before now.        *)
LEMMA ControlKeeps ==
    ASSUME IInv, NotesInv, NEW t \in 0..U64Max, t = now, Values(t), NEW c \in Channels,
           NEW number \in 0..127, NEW value \in 0..127, Control(c, number, value)
    PROVE  Values(t)' /\ NotesInv'
<1> DEFINE lifted == number = 64 /\ value < 64 /\ pedalStarts[c] # NotHeld
           pedal == [time |-> pedalStarts[c], duration |-> t - pedalStarts[c]]
           pedals == IF lifted THEN <<pedal>> ELSE <<>>
           items == [controls |-> <<[time |-> t, number |-> number]>>, bends |-> <<>>,
                     pedals |-> pedals]
<1>1. /\ AppendToGroupOrStraggler(c, items)
      /\ pedalStarts' = IF number # 64 THEN pedalStarts
                        ELSE [pedalStarts EXCEPT ![c] = IF value < 64 THEN NotHeld
                                                        ELSE IF @ = NotHeld THEN t ELSE @]
      /\ UNCHANGED tracker
  BY DEF Control
<1>2. t \in Nat /\ number \in Nat
  BY WidthAssumption
<1>3. /\ pedalStarts \in [Channels -> Nat \cup {NotHeld}] /\ GroupsOK(groups, t)
      /\ \A d \in Channels : pedalStarts[d] # NotHeld => pedalStarts[d] <= t
  BY DEF Values
<1>4. items.controls \in Seq(ControlItem) /\ items.bends \in Seq(Timed)
  <2>1. [time |-> t, number |-> number] \in ControlItem
    BY <1>2 DEF ControlItem
  <2> QED BY <2>1, EmptySeq
<1>5. items.pedals \in Seq(PedalItem)
  <2>1. CASE lifted
    <3>1. pedalStarts[c] \in Nat /\ pedalStarts[c] <= t
      BY <1>3, <2>1
    <3>2. t - pedalStarts[c] \in Nat
      BY <1>2, <3>1
    <3>3. pedal \in PedalItem
      BY <3>1, <3>2 DEF PedalItem
    <3> HIDE DEF pedal
    <3>4. items.pedals = <<pedal>>
      BY <2>1
    <3> QED BY <3>3, <3>4
  <2>2. CASE ~lifted
    BY <2>2, EmptySeq
  <2> QED BY <2>1, <2>2
<1> HIDE DEF items, lifted, pedals, pedal
<1>6. /\ GroupsOK(groups', t) /\ SameLooks(groups, groups')
      /\ stragglers' \in [Channels -> Waiting]
  BY <1>1, <1>4, <1>5, AppendKeepsValues
<1>7. /\ pedalStarts' \in [Channels -> Nat \cup {NotHeld}]
      /\ \A d \in Channels : pedalStarts'[d] # NotHeld => pedalStarts'[d] <= t
  <2>1. CASE number # 64
    BY <1>1, <1>3, <2>1
  <2>2. CASE number = 64
    <3>1. PICK x : pedalStarts' = [pedalStarts EXCEPT ![c] = x]
                   /\ (x = NotHeld \/ x = t \/ x = pedalStarts[c])
      BY <1>1, <2>2
    <3>2. x \in Nat \cup {NotHeld} /\ (x # NotHeld => x <= t)
      BY <1>2, <1>3, <3>1
    <3> QED BY <1>3, <3>1, <3>2
  <2> QED BY <2>1, <2>2
<1>8. NotesInv'
  BY <1>1, <1>3, <1>6, QuietStep
<1> QED BY <1>6, <1>7, <1>8 DEF Values

(* A pitch bend.                                                           *)
LEMMA BendKeeps ==
    ASSUME IInv, NotesInv, NEW t \in 0..U64Max, t = now, Values(t), NEW c \in Channels,
           PitchBend(c)
    PROVE  Values(t)' /\ NotesInv'
<1> DEFINE items == [controls |-> <<>>, bends |-> <<[time |-> t]>>, pedals |-> <<>>]
<1>1. AppendToGroupOrStraggler(c, items) /\ pedalStarts' = pedalStarts /\ UNCHANGED tracker
  BY DEF PitchBend
<1>2. /\ items.controls \in Seq(ControlItem) /\ items.bends \in Seq(Timed)
      /\ items.pedals \in Seq(PedalItem)
  <2>1. [time |-> t] \in Timed
    BY WidthAssumption DEF Timed
  <2> QED BY <2>1, EmptySeq
<1> HIDE DEF items
<1>3. /\ GroupsOK(groups', t) /\ SameLooks(groups, groups')
      /\ stragglers' \in [Channels -> Waiting]
  BY <1>1, <1>2, AppendKeepsValues
<1>4. NotesInv'
  BY <1>1, <1>3, QuietStep DEF Values
<1> QED BY <1>1, <1>3, <1>4 DEF Values

(* A lyric, in the group of channel 0.                                     *)
LEMMA LyricKeepsValues ==
    ASSUME IInv, NotesInv, NEW t \in 0..U64Max, t = now, Values(t),
           NEW e \in Events, e.kind = "lyric", Lyric(e.text)
    PROVE  Values(t)' /\ NotesInv'
<1> DEFINE s == EnsureGroup(0)
           g == s.groupOf[CurrentKey(0)]
           item == [time |-> t, text |-> e.text]
<1>1. /\ GroupsOK(s.groups, t) /\ SameLooks(groups, s.groups)
      /\ g \in DOMAIN s.groups /\ s.stragglers \in [Channels -> Waiting]
  BY ChannelAssumption, EnsuredGroup
<1>2. PICK gs, x : gs = s.groups /\ x = g
  OBVIOUS
<1> DEFINE v == [gs[x] EXCEPT !.lyrics = Append(gs[x].lyrics, item)]
<1>3. /\ groups' = [gs EXCEPT ![x] = v] /\ stragglers' = s.stragglers
      /\ pedalStarts' = pedalStarts /\ UNCHANGED tracker
  BY <1>2 DEF Lyric, SetGrouping
<1>4. item \in LyricItem
  BY WidthAssumption DEF LyricItem
<1> HIDE DEF s, g, item
<1>5. GroupOK(gs[x], t) /\ gs[x] \in Group
  BY <1>1, <1>2, GroupsOKTypes
<1>6. v \in Group /\ v.notes = gs[x].notes /\ v.channel = gs[x].channel
  <2>1. Append(gs[x].lyrics, item) \in Seq(LyricItem)
    BY <1>4, <1>5, AppendProperties DEF Group
  <2> QED BY <1>5, <2>1 DEF Group
<1> HIDE DEF v
<1>7. GroupOK(v, t)
  BY <1>5, <1>6 DEF GroupOK
<1>8. GroupsOK([gs EXCEPT ![x] = v], t) /\ SameLooks(gs, [gs EXCEPT ![x] = v])
  BY <1>1, <1>2, <1>6, <1>7, NotesUntouched
<1>9. GroupsOK(groups', t) /\ SameLooks(groups, groups')
  BY <1>1, <1>2, <1>3, <1>8 DEF SameLooks
<1>10. NotesInv'
  BY <1>3, <1>9, QuietStep DEF Values
<1> QED BY <1>1, <1>3, <1>9, <1>10 DEF Values

(* Events that leave the groups, the pedals and the open notes alone.      *)
LEMMA NothingKept ==
    ASSUME NotesInv, NEW t, Values(t), UNCHANGED <<grouping, pedalStarts, tracker>>
    PROVE  Values(t)' /\ NotesInv'
<1>1. groups' = groups /\ stragglers' = stragglers /\ pedalStarts' = pedalStarts /\ UNCHANGED tracker
  BY DEF grouping
<1>2. SameLooks(groups, groups') /\ GroupsOK(groups, t)
  BY <1>1 DEF SameLooks, Values
<1> QED BY <1>1, <1>2, QuietStep DEF Values

--------------------------------------------------------------------------------
(* A turn of the loop. *)

(* Rows that start by a time start by any later one.                       *)
LEMMA GroupsLater ==
    ASSUME NEW gs, NEW t \in Nat, GroupsOK(gs, t), NEW u \in Nat, t <= u
    PROVE  GroupsOK(gs, u)
<1>1. ASSUME NEW g \in DOMAIN gs
      PROVE  GroupOK(gs[g], u)
  <2>1. GroupOK(gs[g], t) /\ ColumnOK(Pitches, gs[g].notes)
    BY GroupsOKTypes
  <2>2. \A r \in DOMAIN gs[g].notes.rows : /\ gs[g].notes.rows[r].time \in Nat
                                           /\ gs[g].notes.rows[r].time <= t
    BY <2>1, ColumnTypes DEF GroupOK
  <2> QED BY <2>1, <2>2 DEF GroupOK
<1> QED BY <1>1 DEF GroupsOK

(* The columns and the open notes after an event of a channel.             *)
LEMMA ChannelKeepsNotes ==
    ASSUME FullInv, NEW t, t = now, NEW e \in Events, Channel(e)
    PROVE  Values(t)' /\ NotesInv' /\ phase' \in Phases
<1>1. IInv /\ NotesInv /\ Values(t) /\ t \in 0..U64Max /\ phase \in Phases
  BY DEF FullInv
<1>2. e.kind \in {"note_on", "note_off"} => e.pitch \in Pitches
  BY DEF Pitches
<1>3. e.kind \in {"note_on", "note_off", "control", "bend", "program"} => e.channel \in Channels
  BY EventAssumption
<1>4. CASE ApplyNoteOn(e)
  <2>1. NoteOn(e.channel, e.pitch) /\ e.channel \in Channels /\ e.pitch \in Pitches
    BY <1>2, <1>3, <1>4 DEF ApplyNoteOn, StartsNote
  <2>2. phase' = phase
    BY <2>1 DEF NoteOn
  <2> QED BY <1>1, <2>1, <2>2, NoteOnKeeps
<1>5. CASE ApplyOverflow(e)
  <2>1. phase' \in Phases /\ UNCHANGED <<grouping, pedalStarts, tracker>>
    BY <1>5 DEF ApplyOverflow, NoteOnOverflow, Phases
  <2> QED BY <1>1, <2>1, NothingKept
<1>6. CASE ApplyNoteOff(e)
  <2>1. NoteOff(e.channel, e.pitch) /\ e.channel \in Channels /\ e.pitch \in Pitches
    BY <1>2, <1>3, <1>6 DEF ApplyNoteOff, EndsNote
  <2>2. phase' = phase
    BY <2>1 DEF NoteOff
  <2> QED BY <1>1, <2>1, <2>2, NoteOffKeeps
<1>7. CASE ApplyIgnored(e)
  <2>1. phase' = phase /\ UNCHANGED <<grouping, pedalStarts, tracker>>
    BY <1>7 DEF ApplyIgnored, NoteOffIgnored
  <2> QED BY <1>1, <2>1, NothingKept
<1>8. CASE ApplyControl(e)
  <2>1. /\ Control(e.channel, e.number, e.value) /\ e.channel \in Channels
        /\ e.number \in 0..127 /\ e.value \in 0..127
    BY <1>3, <1>8, EventAssumption DEF ApplyControl
  <2>2. phase' = phase
    BY <2>1 DEF Control
  <2> QED BY <1>1, <2>1, <2>2, ControlKeeps
<1>9. CASE ApplyBend(e)
  <2>1. PitchBend(e.channel) /\ e.channel \in Channels
    BY <1>3, <1>9 DEF ApplyBend
  <2>2. phase' = phase
    BY <2>1 DEF PitchBend
  <2> QED BY <1>1, <2>1, <2>2, BendKeeps
<1>10. CASE ApplyProgram(e)
  <2>1. phase' = phase /\ UNCHANGED <<grouping, pedalStarts, tracker>>
    BY <1>10 DEF ApplyProgram, SetProgram
  <2> QED BY <1>1, <2>1, NothingKept
<1> QED BY <1>4, <1>5, <1>6, <1>7, <1>8, <1>9, <1>10 DEF Channel

(* A turn of the parse loop, with the clock it leaves.                     *)
LEMMA ApplyKeeps ==
    ASSUME FullInv, NEW e \in Events, Apply(e)
    PROVE  FullInv'
<1>1. PICK t : t = now
  OBVIOUS
<1>2. t \in 0..U64Max /\ phase \in Phases /\ IInv /\ NotesInv /\ Values(t)
  BY <1>1 DEF FullInv
<1>3. IInv' /\ Values(t)' /\ NotesInv' /\ phase' \in Phases
  <2>1. CASE Channel(e)
    BY <1>1, <1>2, <2>1, ChannelKeeps, ChannelKeepsNotes
  <2>2. CASE ApplyLyric(e)
    <3>1. e.kind = "lyric" /\ Lyric(e.text)
      BY <2>2 DEF ApplyLyric
    <3>2. phase' = phase
      BY <3>1 DEF Lyric
    <3> QED BY <1>1, <1>2, <3>1, <3>2, LyricKeeps, LyricKeepsValues
  <2> QED BY <2>1, <2>2 DEF Apply
<1>4. PICK u : u = now' /\ u \in 0..U64Max /\ t <= u
  <2>1. PICK d \in Deltas : now + d <= U64Max /\ now' = now + d
    BY DEF Apply
  <2>2. d \in Nat /\ t \in Nat /\ U64Max \in Nat
    BY <1>2, TrackAssumption, WidthAssumption
  <2> QED BY <1>1, <2>1, <2>2
<1>5. Values(u)'
  <2>1. t \in Nat /\ u \in Nat /\ t <= u
    BY <1>2, <1>4
  <2>2. /\ GroupsOK(groups', t) /\ pedalStarts' \in [Channels -> Nat \cup {NotHeld}]
        /\ \A c \in Channels : pedalStarts'[c] # NotHeld => pedalStarts'[c] <= t
        /\ stragglers' \in [Channels -> Waiting]
    BY <1>3 DEF Values
  <2>3. GroupsOK(groups', u)
    BY <2>1, <2>2, GroupsLater
  <2>4. \A c \in Channels : pedalStarts'[c] # NotHeld => pedalStarts'[c] <= u
    <3> SUFFICES ASSUME NEW c \in Channels, pedalStarts'[c] # NotHeld
                 PROVE  pedalStarts'[c] <= u
      OBVIOUS
    <3>1. pedalStarts'[c] \in Nat /\ pedalStarts'[c] <= t
      BY <2>2
    <3> QED BY <2>1, <3>1
  <2> QED BY <2>2, <2>3, <2>4 DEF Values
<1>6. Values(now)'
  BY <1>4, <1>5 DEF Values
<1> QED BY <1>3, <1>4, <1>6 DEF FullInv

(* A track begins with no note.                                            *)
LEMMA NothingAtFirst ==
    ASSUME Init
    PROVE  NotesInv /\ Values(now) /\ now \in 0..U64Max /\ phase \in Phases
<1>1. /\ groups = <<>> /\ stragglers = [c \in Channels |-> NoColumns]
      /\ pedalStarts = [c \in Channels |-> NotHeld] /\ now = 0 /\ phase = "reading"
      /\ Tracker!TrackerInit
  BY DEF Init
<1>2. HandlesOf(groups) = {}
  BY <1>1 DEF HandlesOf
<1>3. GroupsOK(groups, now)
  BY <1>1, EmptySeq DEF GroupsOK
<1>4. NoColumns \in Waiting
  BY EmptySeq DEF NoColumns, Waiting
<1>5. Values(now)
  BY <1>1, <1>3, <1>4 DEF Values
<1>6. TP!TrackerInit
  BY <1>1 DEF Tracker!TrackerInit, TP!TrackerInit, Tracker!NoQueue, TP!NoQueue
<1>7. TP!NotesOK(HandlesOf(groups), StartsOf(groups))
  BY <1>3, HandlesDistinct
<1>8. /\ Bookkeeping
      /\ TP!Sounding = [k \in NoteKeys |-> <<>>]
  BY <1>2, <1>6, <1>7, TrackerAssumption, TP!TablesInit DEF Bookkeeping
<1>9. Sounds
  BY <1>2, <1>8 DEF Sounds, SoundOK
<1> QED BY <1>1, <1>5, <1>8, <1>9, WidthAssumption DEF NotesInv, Phases

--------------------------------------------------------------------------------
(* The theorems. *)

(* There is no group at first, and no channel has a program with one.      *)
LEMMA TablesAtFirst ==
    ASSUME Init
    PROVE  IInv
<1>1. programs \in [Channels -> 0..(Programs - 1)]
  BY ChannelAssumption DEF Init
<1>2. /\ groups = <<>> /\ groupOf = [k \in GroupKeys |-> NoGroup]
      /\ activePrograms = [c \in Channels |-> {}]
  BY DEF Init
<1>3. IsGroups(groups) /\ Len(groups) = 0 /\ DOMAIN groups = {}
  BY <1>2, EmptySeq DEF IsGroups
<1>4. /\ groupOf \in [GroupKeys -> 0..Len(groups)]
      /\ activePrograms \in [Channels -> SUBSET (0..(Programs - 1))]
  BY <1>2, <1>3 DEF NoGroup
<1>5. Indexed(groups, groupOf, activePrograms)
  BY <1>2, <1>3, KeyType DEF Indexed
<1> QED BY <1>1, <1>3, <1>4, <1>5 DEF IInv, Tables

(* The tables and the groups agree when a track begins and after every     *)
(* event and finish, whatever the events are (ScoreTrackBuilder).          *)
THEOREM Inductive == Spec => []IInv
<1>1. Init => IInv
  BY TablesAtFirst
<1>2. IInv /\ [Next]_vars => IInv'
  <2> SUFFICES ASSUME IInv, [Next]_vars
               PROVE  IInv'
    OBVIOUS
  <2>1. ASSUME NEW e \in Events, Apply(e)
        PROVE  IInv'
    <3>1. CASE Channel(e)
      BY <3>1, ChannelKeeps
    <3>2. CASE ApplyLyric(e)
      BY <3>2, LyricKeeps DEF ApplyLyric
    <3> QED BY <2>1, <3>1, <3>2 DEF Apply
  <2>2. CASE Finish
    BY <2>2 DEF Finish, grouping, IInv
  <2>3. CASE UNCHANGED vars
    BY <2>3 DEF vars, grouping, IInv
  <2> QED BY <2>1, <2>2, <2>3 DEF Next
<1> QED BY <1>1, <1>2, PTL DEF Spec

(* Every group is found under its own channel and program and under no     *)
(* other, and the programs finish walks are those that have a group        *)
(* (create_group, ensure_group, finish and its assertion).                 *)
THEOREM GroupsFound == Spec => []GroupsIndexed
<1>1. IInv => GroupsIndexed
  BY DEF IInv, Tables, Indexed, GroupsIndexed
<1> QED BY <1>1, Inductive, PTL

(* Whatever the events are, a track's columns and its open notes keep what *)
(* the two lemmas about a turn of the loop ask of them.                    *)
THEOREM NotesInductive == Spec => []FullInv
<1>1. Init => FullInv
  BY NothingAtFirst, TablesAtFirst DEF FullInv
<1>2. FullInv /\ [Next]_vars => FullInv'
  <2> SUFFICES ASSUME FullInv, [Next]_vars
               PROVE  FullInv'
    OBVIOUS
  <2>1. CASE \E e \in Events : Apply(e)
    BY <2>1, ApplyKeeps
  <2>2. CASE Finish \/ UNCHANGED vars
    <3>1. /\ UNCHANGED <<programs, grouping, pedalStarts, tracker, now>>
          /\ phase' = phase \/ phase' = "finished"
      BY <2>2 DEF Finish, vars
    <3>2. PICK t : t = now
      OBVIOUS
    <3>3. IInv'
      BY <3>1 DEF FullInv, IInv, grouping
    <3>4. Values(t)' /\ NotesInv'
      BY <3>1, <3>2, NothingKept DEF FullInv
    <3>5. Values(now)'
      BY <3>1, <3>2, <3>4
    <3> QED BY <3>1, <3>3, <3>4, <3>5 DEF FullInv, Phases
  <2> QED BY <2>1, <2>2 DEF Next
<1> QED BY <1>1, <1>2, PTL DEF Spec

(* Every group index, row index and queue index names something that is    *)
(* there, every stored duration is a number, and the clock fits its type   *)
(* (ScoreTrackBuilder and the columns and tables it is made of).           *)
THEOREM TypeCorrect == Spec => []TypeOK
<1>1. FullInv => TypeOK
  <2> SUFFICES ASSUME FullInv
               PROVE  TypeOK
    OBVIOUS
  <2>1. PICK N, S : N = HandlesOf(groups) /\ S = StartsOf(groups)
    OBVIOUS
  <2>2. TP!TablesOK(N)
    BY <2>1 DEF FullInv, NotesInv, Bookkeeping, TP!TablesInv
  <2>3. Handles = N
    BY <2>1 DEF Handles, HandlesOf
  <2>4. Tracker!TablesOK(Handles)
    BY <2>2, <2>3 DEF Tracker!TablesOK, Tracker!Entry, Tracker!Header,
                      TP!TablesOK, TP!Entry, TP!Header
  <2> QED BY <2>4 DEF FullInv, IInv, Tables, Values, GroupsOK, Phases, TypeOK
<1> QED BY <1>1, NotesInductive, PTL

(* The rows that dangle are exactly the notes that sound, each in one      *)
(* place, at its channel and pitch: no row is completed twice, whatever    *)
(* program changes come between (add_note, end_note).                      *)
THEOREM NotesSound == Spec => []DanglingRowsSound
<1>1. FullInv => DanglingRowsSound
  <2> SUFFICES ASSUME FullInv
               PROVE  DanglingRowsSound
    OBVIOUS
  <2> DEFINE T == Tracker!Sounding
  <2>1. PICK L : L = LooksOf(groups)
    OBVIOUS
  <2>2. SoundOK(Handles, L, T)
    <3>1. Handles = HandlesOf(groups) /\ T = TP!Sounding
      BY DEF Handles, HandlesOf, Tracker!Sounding, TP!Sounding
    <3> QED BY <2>1, <3>1 DEF FullInv, NotesInv, Sounds
  <2>4. \A h \in Handles : /\ L[h].channel = groups[h.group].channel
                           /\ L[h].data = groups[h.group].notes.rows[h.row].data
                           /\ L[h].open <=> IsDangling(groups[h.group].notes, h.row)
    BY <2>1 DEF LooksOf, Look, Handles, HandlesOf
  <2> DEFINE places == UNION {{<<key, i>> : i \in DOMAIN T[key]} : key \in NoteKeys}
             At(place) == T[place[1]][place[2]]
  <2>5. /\ \A key \in NoteKeys : \A i \in DOMAIN T[key] : <<key, i>> \in places
        /\ \A p \in places : p[1] \in NoteKeys /\ p[2] \in DOMAIN T[p[1]] /\ p = <<p[1], p[2]>>
    OBVIOUS
  <2>6. \A p \in places : /\ At(p) \in Handles /\ L[At(p)].open
                          /\ L[At(p)].channel = p[1][1] /\ L[At(p)].data = p[1][2]
    BY <2>2, <2>5 DEF SoundOK
  <2>7. \A p, q \in places : At(p) = At(q) => p = q
    <3> SUFFICES ASSUME NEW p \in places, NEW q \in places, At(p) = At(q)
                 PROVE  p = q
      OBVIOUS
    <3>1. p[1] = q[1] /\ p[2] = q[2]
      BY <2>2, <2>5 DEF SoundOK
    <3>2. p = <<p[1], p[2]>> /\ q = <<q[1], q[2]>>
      BY <2>5
    <3> QED BY <3>1, <3>2
  <2>8. \A h \in Handles : L[h].open => \E p \in places : At(p) = h
    <3> SUFFICES ASSUME NEW h \in Handles, L[h].open
                 PROVE  \E p \in places : At(p) = h
      OBVIOUS
    <3>1. PICK k \in NoteKeys : \E i \in DOMAIN T[k] : T[k][i] = h
      BY <2>2 DEF SoundOK
    <3>2. PICK i \in DOMAIN T[k] : T[k][i] = h
      BY <3>1
    <3>3. <<k, i>> \in places /\ At(<<k, i>>) = h
      BY <2>5, <3>2
    <3> QED BY <3>3
  <2> HIDE DEF T, places
  <2>9. {At(p) : p \in places} = {h \in Handles : IsDangling(groups[h.group].notes, h.row)}
    BY <2>4, <2>6, <2>8
  <2>10. \A p \in places : /\ groups[At(p).group].channel = p[1][1]
                           /\ groups[At(p).group].notes.rows[At(p).row].data = p[1][2]
    BY <2>4, <2>6
  <2> QED BY <2>7, <2>9, <2>10 DEF DanglingRowsSound, T, places
<1> QED BY <1>1, NotesInductive, PTL

================================================================================
