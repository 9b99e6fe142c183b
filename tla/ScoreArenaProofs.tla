---------------------------- MODULE ScoreArenaProofs ---------------------------
(***************************************************************************)
(* What ScoreArena's runs check holds for every file and any number of     *)
(* columns and readers: lengths fit u32, each track reads its own group    *)
(* through its ranges, notes() returns every note once, and heap_bytes     *)
(* never counts half a cache.  Only NotesReturns, a liveness property, is  *)
(* left to TLC.                                                            *)
(*                                                                         *)
(* The invariant has three parts.  ArenaInv speaks of the finished tracks  *)
(* and of the ranges of the group under way alike: what a range was given  *)
(* lies under it still, since columns only grow, and no item lies under    *)
(* none.  CacheInv says that the list is the flattening of the segments    *)
(* taken so far, CallsInv what the threads have been told.  All three rest *)
(* on how FlattenSeq grows with its argument (FlattenProperties).          *)
(***************************************************************************)
EXTENDS ScoreArena, OrderingProofs, SequenceTheorems, FiniteSetTheorems, TLAPS

--------------------------------------------------------------------------------
(* The inductive invariant. *)

Item == Nat \X Nat
Width == Len(Columns) + 1

(* The k-th range of a track is of the column Name[k], whose items are     *)
(* Stores[k].                                                              *)
Name == [k \in 1..Width |-> IF k = 1 THEN "notes" ELSE Columns[k - 1]]
Stores == [k \in 1..Width |-> IF k = 1 THEN AllNotes ELSE columns[Columns[k - 1]]]

(* The items of a group, n of them, lie under a range. *)
Holds(s, r, g, n) ==
    /\ r.start \in Nat /\ r.len = n /\ r.start + n <= Len(s)
    /\ \A j \in 1..n : s[r.start + j] = <<g, j>>

(* As many ranges as there should be: Width for a track, fewer or as many  *)
(* for the group under way, which is one of the groups.                    *)
Lengths(gs, tr, rs) ==
    /\ \A g \in 1..Len(tr) : Len(tr[g]) = Width
    /\ Len(rs) <= Width /\ Len(tr) <= Len(gs)
    /\ Len(rs) # 0 => Len(tr) < Len(gs)

OwnGroups(gs, S, tr, rs) ==
    /\ \A g \in 1..Len(tr) : \A k \in 1..Width : Holds(S[k], tr[g][k], g, gs[g][Name[k]])
    /\ \A k \in 1..Len(rs) : Holds(S[k], rs[k], Len(tr) + 1, gs[Len(tr) + 1][Name[k]])

AllUnder(S, tr, rs) ==
    \A k \in 1..Width : \A i \in 1..Len(S[k]) :
        \/ \E g \in 1..Len(tr) : Under(i, tr[g][k])
        \/ k <= Len(rs) /\ Under(i, rs[k])

Placed(gs, S, tr, rs) == Lengths(gs, tr, rs) /\ OwnGroups(gs, S, tr, rs) /\ AllUnder(S, tr, rs)

ArenaInv ==
    /\ groups \in Seq([ColumnNames \cup {"notes"} -> Nat])
    /\ segments \in Seq(Seq(Item)) /\ columns \in [ColumnNames -> Seq(Item)]
    /\ noteCount = Len(AllNotes) /\ noteCount <= U32Max
    /\ \A c \in ColumnNames : Len(columns[c]) <= U32Max
    /\ phase \in {"building", "shared", "failed"}
    /\ tracks \in Seq(Seq([start : Nat, len : Nat])) /\ ranges \in Seq([start : Nat, len : Nat])
    /\ Placed(groups, Stores, tracks, ranges)
    /\ phase = "shared" => Len(tracks) = Len(groups)

(* The closure runs in one thread at most, and the list it fills is the    *)
(* flattening of the segments it has taken.                                *)
CacheInv ==
    /\ once \in {"empty", "running", "complete"} /\ filled \in 0..Len(segments)
    /\ once = "empty" => list = <<>> /\ filled = 0
    /\ once = "running" => filler \in Readers /\ list = FlattenSeq(SubSeq(segments, 1, filled))
    /\ once = "complete" => list = AllNotes
    /\ once # "running" => filler = NoReader

Sizes == {0, noteCount + Len(OtherItems)}
      \cup (IF once = "complete" THEN {2 * noteCount + Len(OtherItems)} ELSE {})

CallsInv ==
    /\ pc \in [Readers -> {"idle", "get", "initialize", "fill"}]
    /\ \A r \in Readers : pc[r] = "fill" <=> once = "running" /\ filler = r
    /\ \A r \in Readers : pc[r] = "get" \/ pc[r] = "initialize" => phase = "shared"
    /\ DOMAIN seen = Readers /\ \A r \in Readers : seen[r] \in {<<>>, AllNotes}
    /\ size \in [Readers -> Sizes]

NobodyCalls ==
    /\ once = "empty"
    /\ \A r \in Readers : seen[r] = <<>> /\ size[r] = 0

IInv == ArenaInv /\ CacheInv /\ CallsInv /\ (phase # "shared" => NobodyCalls)

(* Items already there stay where they are.                                *)
LEMMA HoldsOn ==
    ASSUME NEW s \in Seq(Item), NEW x \in Seq(Item), NEW r, NEW g, NEW n \in Nat, Holds(s, r, g, n)
    PROVE  Holds(s \o x, r, g, n)
<1>1. /\ Len(s) \in Nat /\ Len(x) \in Nat /\ Len(s \o x) = Len(s) + Len(x)
      /\ \A i \in 1..Len(s) : (s \o x)[i] = s[i]
  BY LenProperties, ConcatProperties
<1>2. /\ r.start \in Nat /\ r.len = n /\ r.start + n <= Len(s)
      /\ \A j \in 1..n : s[r.start + j] = <<g, j>>
  BY DEF Holds
<1>3. \A j \in 1..n : r.start + j \in 1..Len(s)
  BY <1>1, <1>2
<1>4. \A j \in 1..n : (s \o x)[r.start + j] = <<g, j>>
  BY <1>1, <1>2, <1>3
<1>5. r.start + n <= Len(s \o x)
  BY <1>1, <1>2
<1> QED BY <1>2, <1>4, <1>5 DEF Holds

(* Items put behind them lie under the range that starts where they end.   *)
LEMMA HoldsNew ==
    ASSUME NEW s \in Seq(Item), NEW g \in Nat, NEW n \in Nat
    PROVE  /\ Items(g, n) \in Seq(Item)
           /\ Holds(s \o Items(g, n), ScoreRange(Len(s), n), g, n)
           /\ Len(s \o Items(g, n)) = Len(s) + n
<1> DEFINE x == Items(g, n)
           r == ScoreRange(Len(s), n)
<1>1. x = [i \in 1..n |-> <<g, i>>] /\ r.start = Len(s) /\ r.len = n
  BY DEF Items, ScoreRange
<1>2. x \in Seq(Item) /\ Len(x) = n
  BY <1>1 DEF Item
<1> HIDE DEF x, r
<1>3. /\ Len(s) \in Nat /\ Len(s \o x) = Len(s) + n
      /\ \A i \in (Len(s) + 1)..(Len(s) + n) : (s \o x)[i] = x[i - Len(s)]
  <2>1. s \o x \in Seq(Item) /\ Len(s) \in Nat
    BY <1>2, ConcatProperties, LenProperties
  <2>2. /\ Len(s \o x) = Len(s) + Len(x)
        /\ \A i \in (Len(s) + 1)..(Len(s) + Len(x)) : (s \o x)[i] = x[i - Len(s)]
    BY <1>2, ConcatProperties
  <2> QED BY <1>2, <2>1, <2>2
<1>4. ASSUME NEW j \in 1..n
      PROVE  (s \o x)[r.start + j] = <<g, j>>
  <2>1. /\ r.start + j \in (Len(s) + 1)..(Len(s) + n) /\ (r.start + j) - Len(s) = j
    BY <1>1, <1>3
  <2> QED BY <1>1, <1>3, <2>1
<1>5. r.start + n <= Len(s \o x)
  BY <1>1, <1>3
<1> QED BY <1>1, <1>2, <1>3, <1>4, <1>5 DEF Holds, x, r

(* The next range of the group under way: its items go behind those of the *)
(* column.                                                                 *)
LEMMA RangePlaced ==
    ASSUME NEW gs \in Seq([ColumnNames \cup {"notes"} -> Nat]),
           NEW S \in [1..Width -> Seq(Item)], NEW tr \in Seq(Seq([start : Nat, len : Nat])),
           NEW rs \in Seq([start : Nat, len : Nat]), Placed(gs, S, tr, rs),
           Len(rs) < Width, Len(tr) < Len(gs)
    PROVE  LET k == Len(rs) + 1
               g == Len(tr) + 1
               n == gs[g][Name[k]]
               S1 == [S EXCEPT ![k] = S[k] \o Items(g, n)]
           IN  Placed(gs, S1, tr, Append(rs, ScoreRange(Len(S[k]), n)))
<1> DEFINE k == Len(rs) + 1
           g == Len(tr) + 1
           n == gs[g][Name[k]]
           S1 == [S EXCEPT ![k] = S[k] \o Items(g, n)]
           r == ScoreRange(Len(S[k]), n)
           rs1 == Append(rs, r)
<1>1. /\ Len(rs) \in Nat /\ Len(tr) \in Nat /\ Len(gs) \in Nat /\ Width \in Nat
      /\ Len(rs) < Width /\ Len(tr) < Len(gs)
  BY LenProperties, ColumnAssumption DEF Width
<1>2. \A i \in 1..Width : Name[i] \in ColumnNames \cup {"notes"}
  <2>1. /\ DOMAIN Columns = 1..Len(Columns) /\ Len(Columns) \in Nat
    BY ColumnAssumption, LenProperties
  <2>2. ASSUME NEW i \in 1..Width
        PROVE  Name[i] \in ColumnNames \cup {"notes"}
    <3>1. CASE i = 1
      BY <3>1 DEF Name
    <3>2. CASE i # 1
      <4>1. i - 1 \in DOMAIN Columns
        BY <2>1, <3>2 DEF Width
      <4> QED BY <3>2, <4>1 DEF Name, ColumnNames
    <3> QED BY <3>1, <3>2
  <2> QED BY <2>2
<1>3. /\ k \in 1..Width /\ g \in 1..Len(gs) /\ n \in Nat
      /\ \A h \in 1..Len(gs), i \in 1..Width : gs[h][Name[i]] \in Nat
  <2>1. \A h \in 1..Len(gs) : gs[h] \in [ColumnNames \cup {"notes"} -> Nat]
    BY LenProperties
  <2>2. k \in 1..Width /\ g \in 1..Len(gs)
    BY <1>1
  <2>3. \A h \in 1..Len(gs), i \in 1..Width : gs[h][Name[i]] \in Nat
    BY <1>2, <2>1
  <2> QED BY <2>2, <2>3
<1>4. /\ rs1 \in Seq([start : Nat, len : Nat]) /\ Len(rs1) = k /\ rs1[k] = r
      /\ \A i \in 1..Len(rs) : rs1[i] = rs[i]
  <2>1. r \in [start : Nat, len : Nat]
    BY <1>3, LenProperties DEF ScoreRange
  <2> HIDE DEF r
  <2> QED BY <2>1, AppendProperties
<1>5. \A i \in 1..k : i = k \/ i \in 1..Len(rs)
  <2>1. PICK a \in Nat : a = Len(rs)
    BY <1>1
  <2>2. \A i \in 1..(a + 1) : i = a + 1 \/ i \in 1..a
    BY <2>1
  <2> QED BY <2>1, <2>2
<1>6. S1[k] = S[k] \o Items(g, n) /\ \A i \in 1..Width : i # k => S1[i] = S[i]
  BY <1>3
<1>7. \A i \in 1..Width : S[i] \in Seq(Item)
  OBVIOUS
<1>8. /\ Items(g, n) \in Seq(Item) /\ Holds(S1[k], r, g, n) /\ Len(S1[k]) = Len(S[k]) + n
      /\ g \in Nat /\ Len(S[k]) \in Nat
  <2>1. PICK s \in Seq(Item), h \in Nat, m \in Nat : s = S[k] /\ h = g /\ m = n
    BY <1>1, <1>3, <1>7
  <2>2. /\ Items(h, m) \in Seq(Item) /\ Holds(s \o Items(h, m), ScoreRange(Len(s), m), h, m)
        /\ Len(s \o Items(h, m)) = Len(s) + m /\ Len(s) \in Nat
    BY HoldsNew, LenProperties
  <2> QED BY <1>6, <2>1, <2>2
<1> HIDE DEF S1, rs1
<1>9. ASSUME NEW i \in 1..Width, NEW q, NEW h, NEW m \in Nat, Holds(S[i], q, h, m)
      PROVE  Holds(S1[i], q, h, m)
  BY <1>6, <1>7, <1>8, <1>9, HoldsOn
<1>10. Lengths(gs, tr, rs1)
  BY <1>1, <1>4 DEF Placed, Lengths
<1>11. OwnGroups(gs, S1, tr, rs1)
  <2>1. ASSUME NEW h \in 1..Len(tr), NEW i \in 1..Width
        PROVE  Holds(S1[i], tr[h][i], h, gs[h][Name[i]])
    <3>1. h \in 1..Len(gs)
      BY <1>1
    <3>2. Holds(S[i], tr[h][i], h, gs[h][Name[i]])
      BY DEF Placed, OwnGroups
    <3> QED BY <1>3, <1>9, <3>1, <3>2
  <2>2. ASSUME NEW i \in 1..k
        PROVE  Holds(S1[i], rs1[i], g, gs[g][Name[i]])
    <3>1. CASE i = k
      BY <1>4, <1>8, <3>1
    <3>2. CASE i \in 1..Len(rs)
      <4>1. Holds(S[i], rs[i], g, gs[g][Name[i]])
        BY <3>2 DEF Placed, OwnGroups
      <4>2. i \in 1..Width
        BY <1>1, <3>2
      <4> QED BY <1>3, <1>4, <1>9, <3>2, <4>1, <4>2
    <3> QED BY <1>5, <3>1, <3>2
  <2> QED BY <1>4, <2>1, <2>2 DEF OwnGroups
<1>12. AllUnder(S1, tr, rs1)
  <2> SUFFICES ASSUME NEW j \in 1..Width, NEW i \in 1..Len(S1[j])
               PROVE  \/ \E h \in 1..Len(tr) : Under(i, tr[h][j])
                      \/ j <= k /\ Under(i, rs1[j])
    BY <1>4 DEF AllUnder
  <2>1. CASE i \in 1..Len(S[j])
    <3>1. \/ \E h \in 1..Len(tr) : Under(i, tr[h][j])
          \/ j <= Len(rs) /\ Under(i, rs[j])
      BY <2>1 DEF Placed, AllUnder
    <3>2. j <= Len(rs) => j \in 1..Len(rs) /\ j <= k
      BY <1>1
    <3> QED BY <1>4, <3>1, <3>2
  <2>2. CASE i \notin 1..Len(S[j])
    <3>1. j = k
      BY <1>6, <2>2
    <3>2. Len(S[k]) < i /\ i <= Len(S[k]) + n
      BY <1>3, <1>8, <2>2, <3>1
    <3>3. Under(i, r)
      BY <3>2 DEF Under, ScoreRange
    <3> QED BY <1>1, <1>4, <3>1, <3>3
  <2> QED BY <2>1, <2>2
<1> QED BY <1>10, <1>11, <1>12 DEF Placed, S1, rs1

(* The ranges of a whole group become a track's.                           *)
LEMMA TrackPlaced ==
    ASSUME NEW gs, NEW S, NEW tr \in Seq(Seq([start : Nat, len : Nat])),
           NEW rs \in Seq([start : Nat, len : Nat]), Placed(gs, S, tr, rs), Len(rs) = Width,
           Len(gs) \in Nat
    PROVE  /\ Placed(gs, S, Append(tr, rs), <<>>)
           /\ Append(tr, rs) \in Seq(Seq([start : Nat, len : Nat]))
<1> DEFINE tr1 == Append(tr, rs)
           n == Len(tr)
<1>1. n \in Nat /\ Width \in Nat \ {0} /\ Len(gs) \in Nat
  BY LenProperties, ColumnAssumption DEF Width
<1>2. /\ tr1 \in Seq(Seq([start : Nat, len : Nat])) /\ Len(tr1) = n + 1 /\ tr1[n + 1] = rs
      /\ \A g \in 1..n : tr1[g] = tr[g]
  BY AppendProperties
<1> HIDE DEF tr1
<1>3. \A g \in 1..(n + 1) : g = n + 1 \/ g \in 1..n
  BY <1>1
<1>4. Len(<<>>) = 0 /\ 1..0 = {}
  BY EmptySeq
<1>5. Lengths(gs, tr1, <<>>)
  <2>1. /\ \A g \in 1..n : Len(tr[g]) = Width
        /\ n < Len(gs)
    BY <1>1 DEF Placed, Lengths
  <2>2. \A g \in 1..(n + 1) : Len(tr1[g]) = Width
    BY <1>2, <1>3, <2>1
  <2>3. n + 1 <= Len(gs) /\ 0 <= Width
    BY <1>1, <2>1
  <2> QED BY <1>2, <1>4, <2>2, <2>3 DEF Lengths
<1>6. OwnGroups(gs, S, tr1, <<>>)
  <2>1. ASSUME NEW g \in 1..(n + 1), NEW k \in 1..Width
        PROVE  Holds(S[k], tr1[g][k], g, gs[g][Name[k]])
    BY <1>2, <1>3 DEF Placed, OwnGroups
  <2> QED BY <1>2, <1>4, <2>1 DEF OwnGroups
<1>7. AllUnder(S, tr1, <<>>)
  <2> SUFFICES ASSUME NEW k \in 1..Width, NEW i \in 1..Len(S[k])
               PROVE  \E g \in 1..(n + 1) : Under(i, tr1[g][k])
    BY <1>2 DEF AllUnder
  <2>1. \/ \E g \in 1..n : Under(i, tr[g][k])
        \/ Under(i, rs[k])
    BY DEF Placed, AllUnder
  <2>2. n + 1 \in 1..(n + 1) /\ 1..n \subseteq 1..(n + 1)
    BY <1>1
  <2> QED BY <1>2, <2>1, <2>2
<1> QED BY <1>2, <1>5, <1>6, <1>7 DEF Placed, tr1

--------------------------------------------------------------------------------
(* The steps of finish. *)

(* Names, stores and lengths of the columns.                               *)
LEMMA StoreTypes ==
    ASSUME ArenaInv
    PROVE  /\ Stores \in [1..Width -> Seq(Item)] /\ AllNotes \in Seq(Item)
           /\ Len(Columns) \in Nat /\ DOMAIN Columns = 1..Len(Columns) /\ Width = Len(Columns) + 1
           /\ Len(segments) \in Nat /\ Len(tracks) \in Nat /\ Len(ranges) \in Nat /\ Len(groups) \in Nat
<1>1. Len(Columns) \in Nat /\ DOMAIN Columns = 1..Len(Columns) /\ Width = Len(Columns) + 1
  BY ColumnAssumption, LenProperties DEF Width
<1>2. AllNotes \in Seq(Item)
  BY FlattenProperties DEF ArenaInv, AllNotes
<1>3. ASSUME NEW k \in 1..Width
      PROVE  Stores[k] \in Seq(Item)
  <2>1. CASE k = 1
    BY <1>2, <2>1 DEF Stores
  <2>2. CASE k # 1
    <3>1. k - 1 \in DOMAIN Columns
      BY <1>1, <2>2
    <3>2. Columns[k - 1] \in ColumnNames
      BY <3>1 DEF ColumnNames
    <3> QED BY <2>2, <3>2 DEF Stores, ArenaInv
  <2> QED BY <2>1, <2>2
<1>4. Stores = [k \in 1..Width |-> Stores[k]]
  BY DEF Stores
<1>5. Stores \in [1..Width -> Seq(Item)]
  BY <1>3, <1>4
<1>6. Len(segments) \in Nat /\ Len(tracks) \in Nat /\ Len(ranges) \in Nat /\ Len(groups) \in Nat
  BY LenProperties DEF ArenaInv
<1> QED BY <1>1, <1>2, <1>5, <1>6

(* Nothing but the phase changes when a range does not fit.                *)
LEMMA Overflowed ==
    ASSUME ArenaInv, phase = "building", Overflow
    PROVE  ArenaInv'
<1>1. /\ UNCHANGED <<groups, segments, noteCount, columns, ranges, tracks>> /\ phase' = "failed"
  BY DEF Overflow
<1>2. Stores' = Stores /\ AllNotes' = AllNotes
  BY <1>1 DEF Stores, AllNotes
<1> QED BY <1>1, <1>2 DEF ArenaInv

(* push_note_segment: the notes of the group behind all others.            *)
LEMMA NotesPushed ==
    ASSUME ArenaInv, phase = "building", Group <= Len(groups), ranges = <<>>, PushNoteSegment
    PROVE  ArenaInv'
<1> DEFINE n == groups[Group]["notes"]
<1>1. CASE ~Fits(noteCount, n)
  BY <1>1, Overflowed DEF PushNoteSegment
<1>2. CASE Fits(noteCount, n)
  <2>1. /\ noteCount' = noteCount + n /\ segments' = Append(segments, Items(Group, n))
        /\ ranges' = <<ScoreRange(noteCount, n)>>
        /\ UNCHANGED <<groups, phase, columns, tracks>>
    BY <1>2 DEF PushNoteSegment
  <2>2. PICK gs, S, tr, g, m : /\ gs = groups /\ S = Stores /\ tr = tracks /\ g = Group /\ m = n
    OBVIOUS
  <2>3. /\ S \in [1..Width -> Seq(Item)] /\ AllNotes \in Seq(Item)
        /\ Width \in Nat /\ Len(tr) \in Nat /\ Len(gs) \in Nat /\ g = Len(tr) + 1
        /\ 0 < Width /\ Len(tr) < Len(gs)
    BY <2>2, StoreTypes DEF Group
  <2>4. /\ gs \in Seq([ColumnNames \cup {"notes"} -> Nat])
        /\ tr \in Seq(Seq([start : Nat, len : Nat])) /\ Placed(gs, S, tr, <<>>)
        /\ noteCount = Len(AllNotes) /\ S[1] = AllNotes /\ Name[1] = "notes"
    BY <2>2, <2>3 DEF ArenaInv, Stores, Name
  <2>5. m = gs[g]["notes"] /\ m \in Nat /\ g \in Nat
    <3>1. g \in 1..Len(gs)
      BY <2>3
    <3>2. gs[g] \in [ColumnNames \cup {"notes"} -> Nat]
      <4>1. gs \in Seq([ColumnNames \cup {"notes"} -> Nat])
        BY <2>4
      <4>2. \A h \in 1..Len(gs) : gs[h] \in [ColumnNames \cup {"notes"} -> Nat]
        BY ONLY <4>1, LenProperties
      <4> QED BY <3>1, <4>2
    <3> QED BY <2>2, <2>3, <3>2
  <2> HIDE DEF n
  <2> DEFINE x == Items(g, m)
             S1 == [S EXCEPT ![1] = S[1] \o x]
  <2>6. x \in Seq(Item) /\ Len(AllNotes \o x) = Len(AllNotes) + m
    BY <2>3, <2>5, HoldsNew
  <2>7. /\ segments' \in Seq(Seq(Item)) /\ AllNotes' = AllNotes \o x
    <3>1. segments \in Seq(Seq(Item)) /\ segments' = Append(segments, x)
      BY <2>1, <2>2 DEF ArenaInv
    <3> HIDE DEF x
    <3>2. FlattenSeq(Append(segments, x)) = FlattenSeq(segments) \o x
      BY <2>6, <3>1, FlattenProperties
    <3>3. segments' \in Seq(Seq(Item))
      BY <2>6, <3>1, AppendProperties
    <3> QED BY <3>1, <3>2, <3>3 DEF AllNotes
  <2>8. Placed(gs, S1, tr, <<ScoreRange(Len(S[1]), m)>>)
    <3> DEFINE none == <<>>
               l == Len(none) + 1
               t == Len(tr) + 1
               c == gs[t][Name[l]]
    <3>1. none \in Seq([start : Nat, len : Nat]) /\ Len(none) = 0
      BY EmptySeq
    <3>2. Placed(gs, [S EXCEPT ![l] = S[l] \o Items(t, c)], tr, Append(none, ScoreRange(Len(S[l]), c)))
      BY <2>3, <2>4, <3>1, RangePlaced
    <3>3. l = 1 /\ t = g /\ c = m
      BY <2>3, <2>4, <2>5, <3>1
    <3>4. Append(none, ScoreRange(Len(S[l]), c)) = <<ScoreRange(Len(S[1]), m)>>
      BY <3>3
    <3> HIDE DEF l, t, c, none
    <3> QED BY <3>2, <3>3, <3>4
  <2>9. Stores' = S1
    <3>1. \A k \in 1..Width : Stores'[k] = IF k = 1 THEN AllNotes' ELSE S[k]
      BY <2>1, <2>2 DEF Stores
    <3>2. \A k \in 1..Width : S1[k] = IF k = 1 THEN AllNotes \o x ELSE S[k]
      BY <2>3, <2>4
    <3>3. /\ Stores' = [k \in 1..Width |-> Stores'[k]]
          /\ S1 = [k \in 1..Width |-> S1[k]]
      BY <2>3 DEF Stores
    <3> HIDE DEF S1, x
    <3> QED BY <2>7, <3>1, <3>2, <3>3
  <2> HIDE DEF x, S1
  <2>10. Placed(groups, Stores, tracks, ranges)'
    BY <2>1, <2>2, <2>4, <2>8, <2>9
  <2>11. noteCount' = Len(AllNotes') /\ noteCount' <= U32Max
    BY <1>2, <2>1, <2>2, <2>4, <2>6, <2>7 DEF Fits
  <2>12. ranges' \in Seq([start : Nat, len : Nat])
    <3>1. ScoreRange(noteCount, m) \in [start : Nat, len : Nat]
      BY <2>3, <2>4, <2>5, LenProperties DEF ScoreRange
    <3> QED BY <2>1, <2>2, <3>1
  <2> QED BY <2>1, <2>7, <2>10, <2>11, <2>12 DEF ArenaInv
<1> QED BY <1>1, <1>2

(* append_column: the items of the group behind those of the column.       *)
LEMMA ColumnAppended ==
    ASSUME ArenaInv, phase = "building", Group <= Len(groups), Len(ranges) \in DOMAIN Columns,
           AppendColumn(Columns[Len(ranges)])
    PROVE  ArenaInv'
<1> DEFINE l == Len(ranges)
           c == Columns[l]
           n == groups[Group][c]
<1>1. CASE ~Fits(Len(columns[c]), n)
  BY <1>1, Overflowed DEF AppendColumn
<1>2. CASE Fits(Len(columns[c]), n)
  <2>1. /\ columns' = [columns EXCEPT ![c] = columns[c] \o Items(Group, n)]
        /\ ranges' = Append(ranges, ScoreRange(Len(columns[c]), n))
        /\ UNCHANGED <<groups, phase, segments, noteCount, tracks>>
    BY <1>2 DEF AppendColumn
  <2>2. PICK gs, S, tr, rs, g, m, k, d :
          /\ gs = groups /\ S = Stores /\ tr = tracks /\ rs = ranges
          /\ g = Group /\ m = n /\ k = Len(ranges) + 1 /\ d = c
    OBVIOUS
  <2>3. /\ S \in [1..Width -> Seq(Item)]
        /\ Width \in Nat /\ Len(tr) \in Nat /\ Len(gs) \in Nat /\ g = Len(tr) + 1
        /\ Len(rs) \in Nat /\ k = Len(rs) + 1 /\ Len(rs) < Width /\ Len(tr) < Len(gs)
        /\ k \in 1..Width /\ k # 1 /\ k - 1 = Len(rs) /\ d \in ColumnNames
    BY <2>2, StoreTypes DEF Group, ColumnNames
  <2>4. /\ gs \in Seq([ColumnNames \cup {"notes"} -> Nat])
        /\ tr \in Seq(Seq([start : Nat, len : Nat])) /\ rs \in Seq([start : Nat, len : Nat])
        /\ Placed(gs, S, tr, rs) /\ columns \in [ColumnNames -> Seq(Item)]
        /\ S[k] = columns[d] /\ Name[k] = d
    BY <2>2, <2>3 DEF ArenaInv, Stores, Name
  <2>5. m = gs[g][d] /\ m \in Nat /\ g \in Nat
    <3>1. g \in 1..Len(gs)
      BY <2>3
    <3>2. gs[g] \in [ColumnNames \cup {"notes"} -> Nat]
      <4>1. gs \in Seq([ColumnNames \cup {"notes"} -> Nat])
        BY <2>4
      <4>2. \A h \in 1..Len(gs) : gs[h] \in [ColumnNames \cup {"notes"} -> Nat]
        BY ONLY <4>1, LenProperties
      <4> QED BY <3>1, <4>2
    <3> QED BY <2>2, <2>3, <3>2
  <2>6. /\ columns' = [columns EXCEPT ![d] = columns[d] \o Items(g, m)]
        /\ ranges' = Append(rs, ScoreRange(Len(S[k]), m))
        /\ Fits(Len(S[k]), m)
    BY <1>2, <2>1, <2>2, <2>4
  <2> HIDE DEF n, c, l
  <2> DEFINE x == Items(g, m)
             S1 == [S EXCEPT ![k] = S[k] \o x]
  <2>7. x \in Seq(Item) /\ Len(S[k] \o x) = Len(S[k]) + m /\ S[k] \o x \in Seq(Item)
    <3>1. S[k] \in Seq(Item)
      BY <2>3
    <3> QED BY <2>5, <3>1, HoldsNew, ConcatProperties
  <2>8. Placed(gs, S1, tr, Append(rs, ScoreRange(Len(S[k]), m)))
    <3> DEFINE j == Len(rs) + 1
               t == Len(tr) + 1
               q == gs[t][Name[j]]
    <3>1. Placed(gs, [S EXCEPT ![j] = S[j] \o Items(t, q)], tr, Append(rs, ScoreRange(Len(S[j]), q)))
      BY <2>3, <2>4, RangePlaced
    <3>2. j = k /\ t = g /\ q = m
      BY <2>3, <2>4, <2>5
    <3> HIDE DEF j, t, q
    <3> QED BY <3>1, <3>2
  <2>9. Stores' = S1
    <3>1. ASSUME NEW i \in 1..Width
          PROVE  Stores'[i] = S1[i]
      <4>1. CASE i = 1
        <5>1. Stores'[i] = AllNotes' /\ S1[i] = AllNotes
          BY <2>2, <2>3, <4>1 DEF Stores
        <5> QED BY <2>1, <5>1 DEF AllNotes
      <4>2. CASE i # 1
        <5>1. /\ Stores'[i] = columns'[Columns[i - 1]]
              /\ S[i] = columns[Columns[i - 1]] /\ i - 1 \in DOMAIN Columns
          BY <2>2, <4>2, StoreTypes DEF Stores
        <5>2. Columns[i - 1] \in ColumnNames
          BY <5>1 DEF ColumnNames
        <5>3. CASE i = k
          <6>1. columns'[d] = columns[d] \o x
            BY <2>3, <2>4, <2>6
          <6> QED BY <2>2, <2>3, <2>4, <5>1, <5>3, <6>1 DEF c, l
        <5>4. CASE i # k
          <6>1. Columns[i - 1] # d
            <7>1. Len(rs) \in DOMAIN Columns /\ d = Columns[Len(rs)] /\ i - 1 # Len(rs)
              BY <2>2, <2>3, <5>4 DEF c, l
            <7> QED BY <5>1, <7>1, ColumnAssumption
          <6>2. columns'[Columns[i - 1]] = columns[Columns[i - 1]]
            BY <2>4, <2>6, <5>2, <6>1
          <6> QED BY <2>3, <5>1, <5>4, <6>2
        <5> QED BY <5>3, <5>4
      <4> QED BY <4>1, <4>2
    <3>2. /\ Stores' = [i \in 1..Width |-> Stores'[i]]
          /\ S1 = [i \in 1..Width |-> S1[i]]
      BY <2>3 DEF Stores
    <3> HIDE DEF S1, x
    <3> QED BY <3>1, <3>2
  <2> HIDE DEF x, S1
  <2>10. Placed(groups, Stores, tracks, ranges)'
    BY <2>1, <2>2, <2>6, <2>8, <2>9
  <2>11. /\ columns' \in [ColumnNames -> Seq(Item)]
         /\ \A b \in ColumnNames : Len(columns'[b]) <= U32Max
    <3>1. columns' \in [ColumnNames -> Seq(Item)]
      BY <2>3, <2>4, <2>6, <2>7 DEF x
    <3>2. \A b \in ColumnNames : b # d => columns'[b] = columns[b]
      BY <2>4, <2>6
    <3>3. Len(columns'[d]) <= U32Max
      <4>1. columns'[d] = S[k] \o x
        BY <2>3, <2>4, <2>6 DEF x
      <4> QED BY <2>6, <2>7, <4>1 DEF Fits
    <3> QED BY <3>1, <3>2, <3>3 DEF ArenaInv
  <2>12. ranges' \in Seq([start : Nat, len : Nat])
    <3>1. ScoreRange(Len(S[k]), m) \in [start : Nat, len : Nat]
      BY <2>3, <2>5, LenProperties DEF ScoreRange
    <3> QED BY <2>4, <2>6, <3>1, AppendProperties
  <2>13. AllNotes' = AllNotes
    BY <2>1 DEF AllNotes
  <2> QED BY <2>1, <2>10, <2>11, <2>12, <2>13 DEF ArenaInv
<1> QED BY <1>1, <1>2

(* The ranges of the group become its track.                               *)
LEMMA TrackPushed ==
    ASSUME ArenaInv, phase = "building", Group <= Len(groups), Len(ranges) = Width, PushTrack
    PROVE  ArenaInv'
<1>1. /\ tracks' = Append(tracks, ranges) /\ ranges' = <<>>
      /\ UNCHANGED <<groups, phase, segments, noteCount, columns>>
  BY DEF PushTrack
<1>2. Stores' = Stores /\ AllNotes' = AllNotes
  BY <1>1 DEF Stores, AllNotes
<1>3. /\ Placed(groups, Stores, Append(tracks, ranges), <<>>)
      /\ Append(tracks, ranges) \in Seq(Seq([start : Nat, len : Nat]))
  <2>1. PICK gs, S, tr, rs : gs = groups /\ S = Stores /\ tr = tracks /\ rs = ranges
    OBVIOUS
  <2>2. /\ Len(gs) \in Nat /\ Placed(gs, S, tr, rs) /\ Len(rs) = Width
        /\ tr \in Seq(Seq([start : Nat, len : Nat])) /\ rs \in Seq([start : Nat, len : Nat])
    BY <2>1, StoreTypes DEF ArenaInv
  <2>3. /\ Placed(gs, S, Append(tr, rs), <<>>)
        /\ Append(tr, rs) \in Seq(Seq([start : Nat, len : Nat]))
    BY <2>2, TrackPlaced
  <2> QED BY <2>1, <2>3
<1>4. Placed(groups, Stores, tracks, ranges)'
  BY <1>1, <1>2, <1>3
<1> QED BY <1>1, <1>2, <1>3, <1>4, EmptySeq DEF ArenaInv

--------------------------------------------------------------------------------
(* The steps of the readers. *)

(* A step of finish for one group.                                         *)
LEMMA GroupFinished ==
    ASSUME IInv, FinishGroup
    PROVE  IInv'
<1>1. /\ ArenaInv /\ CacheInv /\ CallsInv /\ NobodyCalls
      /\ phase = "building" /\ Group <= Len(groups) /\ UNCHANGED <<cache, calls>>
  BY DEF IInv, FinishGroup
<1>2. ArenaInv' /\ phase' \in {"building", "failed"}
  <2>1. CASE ranges = <<>> /\ PushNoteSegment
    <3>1. phase' \in {"building", "failed"}
      BY <1>1, <2>1 DEF PushNoteSegment, Overflow
    <3> QED BY <1>1, <2>1, <3>1, NotesPushed
  <2>2. CASE Len(ranges) \in DOMAIN Columns /\ AppendColumn(Columns[Len(ranges)])
    <3>1. phase' \in {"building", "failed"}
      BY <1>1, <2>2 DEF AppendColumn, Overflow
    <3> QED BY <1>1, <2>2, <3>1, ColumnAppended
  <2>3. CASE Len(ranges) = Len(Columns) + 1 /\ PushTrack
    <3>1. phase' \in {"building", "failed"} /\ Len(ranges) = Width
      BY <1>1, <2>3 DEF PushTrack, Width
    <3> QED BY <1>1, <2>3, <3>1, TrackPushed
  <2> QED BY <2>1, <2>2, <2>3 DEF FinishGroup
<1>3. UNCHANGED <<once, filler, list, filled, pc, seen, size>>
  BY <1>1 DEF cache, calls
<1>4. NobodyCalls'
  BY <1>1, <1>3 DEF NobodyCalls
<1>5. CacheInv'
  <2>1. Len(segments') \in Nat
    BY <1>2, LenProperties DEF ArenaInv
  <2>2. once = "empty" /\ filled = 0 /\ list = <<>> /\ filler = NoReader
    BY <1>1 DEF CacheInv, NobodyCalls
  <2>3. filled' \in 0..Len(segments') /\ once' = "empty" /\ list' = <<>> /\ filled' = 0 /\ filler' = NoReader
    BY <1>3, <2>1, <2>2
  <2> QED BY <2>3 DEF CacheInv
<1>6. CallsInv'
  <2>1. /\ pc' \in [Readers -> {"idle", "get", "initialize", "fill"}]
        /\ \A r \in Readers : pc'[r] = "fill" <=> once' = "running" /\ filler' = r
        /\ \A r \in Readers : pc'[r] # "get" /\ pc'[r] # "initialize"
    BY <1>1, <1>3 DEF CallsInv
  <2>2. DOMAIN seen' = Readers /\ \A r \in Readers : seen'[r] = <<>>
    BY <1>1, <1>3 DEF CallsInv, NobodyCalls
  <2>3. size' \in [Readers -> {0}]
    <3>1. size \in [Readers -> Sizes] /\ \A r \in Readers : size[r] = 0
      BY <1>1 DEF CallsInv, NobodyCalls
    <3>2. size = [r \in Readers |-> size[r]]
      BY <3>1
    <3> QED BY <1>3, <3>1, <3>2
  <2>4. 0 \in Sizes'
    BY DEF Sizes
  <2>5. size' \in [Readers -> Sizes']
    BY <2>3, <2>4
  <2> QED BY <2>1, <2>2, <2>5 DEF CallsInv
<1> QED BY <1>2, <1>4, <1>5, <1>6 DEF IInv

(* The score is given to the threads.                                      *)
LEMMA Shared ==
    ASSUME IInv, Share
    PROVE  IInv'
<1>1. /\ ArenaInv /\ CacheInv /\ CallsInv /\ phase = "building" /\ Group > Len(groups) /\ phase' = "shared"
      /\ UNCHANGED <<groups, segments, noteCount, columns, ranges, tracks>>
      /\ UNCHANGED <<once, filler, list, filled, pc, seen, size>>
  BY DEF IInv, Share, cache, calls
<1>2. Stores' = Stores /\ AllNotes' = AllNotes /\ OtherItems' = OtherItems
  BY <1>1 DEF Stores, AllNotes, OtherItems
<1>3. Len(tracks) = Len(groups)
  <2>1. Len(tracks) \in Nat /\ Len(groups) \in Nat
    BY <1>1, StoreTypes
  <2>2. Len(tracks) <= Len(groups)
    BY <1>1 DEF ArenaInv, Placed, Lengths
  <2> QED BY <1>1, <2>1, <2>2 DEF Group
<1>4. ArenaInv'
  BY <1>1, <1>2, <1>3 DEF ArenaInv
<1>5. CacheInv'
  BY <1>1, <1>2 DEF CacheInv
<1>6. CallsInv'
  <2>1. Sizes' = Sizes
    BY <1>1, <1>2 DEF Sizes
  <2> QED BY <1>1, <1>2, <2>1 DEF CallsInv
<1> QED BY <1>1, <1>4, <1>5, <1>6 DEF IInv

(* What a reader's step leaves alone.                                      *)
LEMMA ScoreKept ==
    ASSUME ArenaInv, UNCHANGED score
    PROVE  /\ ArenaInv' /\ AllNotes' = AllNotes /\ OtherItems' = OtherItems
           /\ phase' = phase /\ segments' = segments /\ noteCount' = noteCount
<1>1. UNCHANGED <<groups, phase, segments, noteCount, columns, ranges, tracks>>
  BY DEF score
<1>2. Stores' = Stores /\ AllNotes' = AllNotes /\ OtherItems' = OtherItems
  BY <1>1 DEF Stores, AllNotes, OtherItems
<1> QED BY <1>1, <1>2 DEF ArenaInv

(* A reader that returns has seen what the cache holds.                    *)
LEMMA Returned ==
    ASSUME IInv, NEW r \in Readers, pc[r] # "fill", once = "complete", Return(r), UNCHANGED cache,
           phase = "shared"
    PROVE  IInv'
<1>1. /\ ArenaInv /\ CacheInv /\ CallsInv
      /\ pc' = [pc EXCEPT ![r] = "idle"] /\ seen' = [seen EXCEPT ![r] = list]
      /\ UNCHANGED score /\ UNCHANGED <<once, filler, list, filled, size>>
  BY DEF IInv, Return, cache
<1>2. /\ ArenaInv' /\ AllNotes' = AllNotes /\ OtherItems' = OtherItems
      /\ phase' = phase /\ segments' = segments /\ noteCount' = noteCount
  BY <1>1, ScoreKept
<1>3. CacheInv'
  BY <1>1, <1>2 DEF CacheInv
<1>4. CallsInv'
  <2>1. Sizes' = Sizes
    BY <1>1, <1>2 DEF Sizes
  <2>2. list = AllNotes
    BY <1>1 DEF CacheInv
  <2>3. /\ pc' \in [Readers -> {"idle", "get", "initialize", "fill"}]
        /\ \A q \in Readers : pc'[q] = "fill" <=> once' = "running" /\ filler' = q
        /\ \A q \in Readers : pc'[q] = "get" \/ pc'[q] = "initialize" => phase' = "shared"
    BY <1>1, <1>2 DEF CallsInv
  <2>4. DOMAIN seen' = Readers /\ \A q \in Readers : seen'[q] \in {<<>>, AllNotes}
    BY <1>1, <2>2 DEF CallsInv
  <2> QED BY <1>1, <1>2, <2>1, <2>3, <2>4 DEF CallsInv
<1> QED BY <1>2, <1>3, <1>4 DEF IInv

(* A call of notes() begins, or goes on to the slow path.                  *)
LEMMA WentOn ==
    ASSUME IInv, NEW r \in Readers, pc[r] # "fill", phase = "shared", NEW next \in {"get", "initialize"},
           pc' = [pc EXCEPT ![r] = next], UNCHANGED <<score, cache, seen, size>>
    PROVE  IInv'
<1>1. /\ ArenaInv /\ CacheInv /\ CallsInv
      /\ UNCHANGED score /\ UNCHANGED <<once, filler, list, filled, seen, size>>
  BY DEF IInv, cache
<1>2. /\ ArenaInv' /\ AllNotes' = AllNotes /\ OtherItems' = OtherItems
      /\ phase' = phase /\ segments' = segments /\ noteCount' = noteCount
  BY <1>1, ScoreKept
<1>3. CacheInv'
  BY <1>1, <1>2 DEF CacheInv
<1>4. CallsInv'
  <2>1. Sizes' = Sizes
    BY <1>1, <1>2 DEF Sizes
  <2>2. /\ pc' \in [Readers -> {"idle", "get", "initialize", "fill"}]
        /\ \A q \in Readers : pc'[q] = "fill" <=> once' = "running" /\ filler' = q
        /\ \A q \in Readers : pc'[q] = "get" \/ pc'[q] = "initialize" => phase' = "shared"
    BY <1>1, <1>2 DEF CallsInv
  <2> QED BY <1>1, <1>2, <2>1, <2>2 DEF CallsInv
<1> QED BY <1>2, <1>3, <1>4 DEF IInv

(* The first segments, and all of them.                                    *)
LEMMA Taken ==
    ASSUME NEW s \in Seq(Seq(Item))
    PROVE  /\ FlattenSeq(SubSeq(s, 1, 0)) = <<>>
           /\ SubSeq(s, 1, Len(s)) = s
           /\ \A n \in 0..(Len(s) - 1) :
                 FlattenSeq(SubSeq(s, 1, n + 1)) = FlattenSeq(SubSeq(s, 1, n)) \o s[n + 1]
<1>1. Len(s) \in Nat /\ \A i \in 1..Len(s) : s[i] \in Seq(Item)
  BY LenProperties
<1>2. FlattenSeq(SubSeq(s, 1, 0)) = <<>>
  <2>1. SubSeq(s, 1, 0) = <<>>
    BY SubSeqProperties, EmptySeq
  <2> QED BY <2>1, FlattenProperties, EmptySeq
<1>3. SubSeq(s, 1, Len(s)) = s
  OBVIOUS
<1>4. ASSUME NEW n \in 0..(Len(s) - 1)
      PROVE  FlattenSeq(SubSeq(s, 1, n + 1)) = FlattenSeq(SubSeq(s, 1, n)) \o s[n + 1]
  <2>1. /\ SubSeq(s, 1, n) \in Seq(Seq(Item)) /\ s[n + 1] \in Seq(Item)
        /\ SubSeq(s, 1, n + 1) = Append(SubSeq(s, 1, n), s[n + 1])
    BY <1>1
  <2>2. PICK a \in Seq(Seq(Item)), x \in Seq(Item) : a = SubSeq(s, 1, n) /\ x = s[n + 1]
    BY <2>1
  <2>3. FlattenSeq(Append(a, x)) = FlattenSeq(a) \o x
    BY FlattenProperties
  <2> QED BY <2>1, <2>2, <2>3
<1> QED BY <1>2, <1>3, <1>4

(* What heap_bytes counts is one of two sizes, by the state of the cache.  *)
LEMMA SizeCounted ==
    ASSUME ArenaInv, CacheInv
    PROVE  /\ noteCount \in Nat /\ Len(OtherItems) \in Nat
           /\ Len(FlattenSeq(segments)) + Cached + Len(OtherItems) =
                 IF once = "complete" THEN 2 * noteCount + Len(OtherItems) ELSE noteCount + Len(OtherItems)
           /\ Len(FlattenSeq(segments)) + Cached + Len(OtherItems) \in Sizes
<1>1. noteCount \in Nat /\ noteCount = Len(FlattenSeq(segments))
  BY StoreTypes, LenProperties DEF ArenaInv, AllNotes
<1>2. Len(OtherItems) \in Nat
  <2> DEFINE s == [i \in DOMAIN Columns |-> columns[Columns[i]]]
  <2>1. s = [i \in 1..Len(Columns) |-> columns[Columns[i]]] /\ Len(Columns) \in Nat
    BY StoreTypes
  <2>2. \A i \in 1..Len(Columns) : columns[Columns[i]] \in Seq(Item)
    BY StoreTypes DEF ArenaInv, ColumnNames
  <2>3. s \in Seq(Seq(Item))
    BY <2>1, <2>2
  <2> HIDE DEF s
  <2>4. FlattenSeq(s) \in Seq(Item)
    BY <2>3, FlattenProperties
  <2> QED BY <2>4, LenProperties DEF OtherItems, s
<1>3. once = "complete" => Len(list) = noteCount
  BY <1>1 DEF CacheInv, AllNotes
<1> QED BY <1>1, <1>2, <1>3 DEF Sizes, Cached

(* A step of notes() or heap_bytes().                                      *)
LEMMA ReaderStep ==
    ASSUME IInv, NEW r \in Readers, Call(r) \/ InNotes(r) \/ HeapBytes(r)
    PROVE  IInv'
<1>1. ArenaInv /\ CacheInv /\ CallsInv
  BY DEF IInv
<1>2. pc[r] = "fill" => once = "running" /\ filler = r
  BY <1>1 DEF CallsInv
<1>3. pc[r] # "idle" => phase = "shared"
  BY <1>1, <1>2 DEF IInv, CallsInv, NobodyCalls
<1>4. NoReader \notin Readers
  BY ArenaAssumption
<1>5. CASE Call(r)
  BY <1>5, WentOn DEF Call
<1>6. CASE Get(r)
  <2>1. phase = "shared" /\ pc[r] = "get" /\ UNCHANGED cache
    BY <1>3, <1>6 DEF Get
  <2>2. CASE once = "complete"
    BY <1>6, <2>1, <2>2, Returned DEF Get
  <2>3. CASE once # "complete"
    BY <1>6, <2>1, <2>3, WentOn DEF Get
  <2> QED BY <2>2, <2>3
<1>7. CASE Initialize(r)
  <2>1. phase = "shared" /\ pc[r] = "initialize"
    BY <1>3, <1>7 DEF Initialize
  <2>2. CASE once = "complete" /\ Return(r) /\ UNCHANGED cache
    BY <2>1, <2>2, Returned
  <2>3. CASE /\ once = "empty"
             /\ once' = "running" /\ filler' = r /\ filled' = 0
             /\ pc' = [pc EXCEPT ![r] = "fill"]
             /\ UNCHANGED <<score, list, seen, size>>
    <3>1. /\ ArenaInv' /\ AllNotes' = AllNotes /\ OtherItems' = OtherItems
          /\ phase' = phase /\ segments' = segments /\ noteCount' = noteCount
      BY <1>1, <2>3, ScoreKept
    <3>2. CacheInv'
      <4>1. segments \in Seq(Seq(Item)) /\ Len(segments) \in Nat
        BY <1>1, LenProperties DEF ArenaInv
      <4>2. FlattenSeq(SubSeq(segments, 1, 0)) = <<>>
        BY <4>1, Taken
      <4>3. list' = FlattenSeq(SubSeq(segments', 1, filled'))
        BY <1>1, <2>3, <3>1, <4>2 DEF CacheInv
      <4> QED BY <2>3, <3>1, <4>1, <4>3 DEF CacheInv
    <3>3. CallsInv'
      <4>1. Sizes' = Sizes
        BY <2>3, <3>1 DEF Sizes
      <4>2. /\ pc' \in [Readers -> {"idle", "get", "initialize", "fill"}]
            /\ \A q \in Readers : pc'[q] = "fill" <=> once' = "running" /\ filler' = q
            /\ \A q \in Readers : pc'[q] = "get" \/ pc'[q] = "initialize" => phase' = "shared"
        BY <1>1, <2>1, <2>3, <3>1 DEF CallsInv
      <4> QED BY <1>1, <2>3, <3>1, <4>1, <4>2 DEF CallsInv
    <3> QED BY <2>1, <3>1, <3>2, <3>3 DEF IInv
  <2> QED BY <1>7, <2>2, <2>3 DEF Initialize
<1>8. CASE Fill(r)
  <2>1. /\ pc[r] = "fill" /\ filled < Len(segments)
        /\ list' = list \o segments[filled + 1] /\ filled' = filled + 1
        /\ UNCHANGED score /\ UNCHANGED <<once, filler, pc, seen, size>>
    BY <1>8 DEF Fill, calls
  <2>2. /\ ArenaInv' /\ AllNotes' = AllNotes /\ OtherItems' = OtherItems
        /\ phase' = phase /\ segments' = segments /\ noteCount' = noteCount
    BY <1>1, <2>1, ScoreKept
  <2>3. CacheInv'
    <3>1. /\ segments \in Seq(Seq(Item)) /\ Len(segments) \in Nat
          /\ filled \in 0..(Len(segments) - 1) /\ filled' \in 0..Len(segments)
      BY <1>1, <2>1, LenProperties DEF ArenaInv, CacheInv
    <3>2. /\ once = "running" /\ filler \in Readers
          /\ list = FlattenSeq(SubSeq(segments, 1, filled))
      BY <1>1, <1>2, <2>1 DEF CacheInv
    <3>3. list' = FlattenSeq(SubSeq(segments', 1, filled'))
      BY <2>1, <2>2, <3>1, <3>2, Taken
    <3> QED BY <2>1, <2>2, <3>1, <3>2, <3>3 DEF CacheInv
  <2>4. CallsInv'
    <3>1. Sizes' = Sizes
      BY <2>1, <2>2 DEF Sizes
    <3> QED BY <1>1, <2>1, <2>2, <3>1 DEF CallsInv
  <2> QED BY <1>3, <2>1, <2>2, <2>3, <2>4 DEF IInv
<1>9. CASE Publish(r)
  <2>1. /\ pc[r] = "fill" /\ filled = Len(segments)
        /\ once' = "complete" /\ filler' = NoReader /\ list' = list /\ filled' = filled
        /\ pc' = [pc EXCEPT ![r] = "idle"] /\ seen' = [seen EXCEPT ![r] = list]
        /\ UNCHANGED score /\ size' = size
    BY <1>9 DEF Publish, Return
  <2>2. /\ ArenaInv' /\ AllNotes' = AllNotes /\ OtherItems' = OtherItems
        /\ phase' = phase /\ segments' = segments /\ noteCount' = noteCount
    BY <1>1, <2>1, ScoreKept
  <2>3. list = AllNotes /\ filled \in 0..Len(segments)
    <3>1. segments \in Seq(Seq(Item))
      BY <1>1 DEF ArenaInv
    <3>2. list = FlattenSeq(SubSeq(segments, 1, Len(segments))) /\ filled \in 0..Len(segments)
      BY <1>1, <1>2, <2>1 DEF CacheInv
    <3> QED BY <3>1, <3>2, Taken DEF AllNotes
  <2>4. CacheInv'
    BY <2>1, <2>2, <2>3 DEF CacheInv
  <2>5. CallsInv'
    <3>1. Sizes \subseteq Sizes'
      BY <1>2, <2>1, <2>2 DEF Sizes
    <3>2. /\ pc' \in [Readers -> {"idle", "get", "initialize", "fill"}]
          /\ \A q \in Readers : pc'[q] = "fill" <=> once' = "running" /\ filler' = q
          /\ \A q \in Readers : pc'[q] = "get" \/ pc'[q] = "initialize" => phase' = "shared"
      BY <1>1, <1>2, <2>1, <2>2 DEF CallsInv
    <3>3. DOMAIN seen' = Readers /\ \A q \in Readers : seen'[q] \in {<<>>, AllNotes}
      BY <1>1, <2>1, <2>3 DEF CallsInv
    <3>4. size' \in [Readers -> Sizes']
      BY <1>1, <2>1, <3>1 DEF CallsInv
    <3> QED BY <2>2, <3>2, <3>3, <3>4 DEF CallsInv
  <2> QED BY <1>3, <2>1, <2>2, <2>4, <2>5 DEF IInv
<1>10. CASE HeapBytes(r)
  <2>1. /\ phase = "shared" /\ UNCHANGED score
        /\ size' = [size EXCEPT ![r] = Len(FlattenSeq(segments)) + Cached + Len(OtherItems)]
        /\ UNCHANGED <<once, filler, list, filled, pc, seen>>
    BY <1>10 DEF HeapBytes, cache
  <2>2. /\ ArenaInv' /\ AllNotes' = AllNotes /\ OtherItems' = OtherItems
        /\ phase' = phase /\ segments' = segments /\ noteCount' = noteCount
    BY <1>1, <2>1, ScoreKept
  <2>3. CacheInv'
    BY <1>1, <2>1, <2>2 DEF CacheInv
  <2>4. CallsInv'
    <3>1. Sizes' = Sizes
      BY <2>1, <2>2 DEF Sizes
    <3>2. Len(FlattenSeq(segments)) + Cached + Len(OtherItems) \in Sizes
      BY <1>1, SizeCounted
    <3>3. size' \in [Readers -> Sizes]
      BY <1>1, <2>1, <3>2 DEF CallsInv
    <3> QED BY <1>1, <2>1, <2>2, <3>1, <3>3 DEF CallsInv
  <2> QED BY <2>1, <2>2, <2>3, <2>4 DEF IInv
<1> QED BY <1>5, <1>6, <1>7, <1>8, <1>9, <1>10 DEF InNotes

--------------------------------------------------------------------------------
(* The theorems. *)

(* The empty score.                                                        *)
LEMMA InitialState ==
    Init => IInv
<1> SUFFICES ASSUME Init PROVE IInv
  OBVIOUS
<1>1. /\ groups \in Seq([ColumnNames \cup {"notes"} -> Nat]) /\ phase = "building"
      /\ segments = <<>> /\ noteCount = 0 /\ columns = [c \in ColumnNames |-> <<>>]
      /\ ranges = <<>> /\ tracks = <<>>
      /\ once = "empty" /\ filler = NoReader /\ list = <<>> /\ filled = 0
      /\ pc = [r \in Readers |-> "idle"] /\ seen = [r \in Readers |-> <<>>]
      /\ size = [r \in Readers |-> 0]
  BY ColumnAssumption DEF Init
<1>2. segments \in Seq(Seq(Item)) /\ AllNotes = <<>> /\ Len(<<>>) = 0
  <2>1. segments \in Seq(Seq(Item)) /\ Len(<<>>) = 0
    BY <1>1, EmptySeq
  <2> QED BY <1>1, <2>1, FlattenProperties DEF AllNotes
<1>3. Placed(groups, Stores, tracks, ranges)
  <2>1. Len(Columns) \in Nat /\ DOMAIN Columns = 1..Len(Columns) /\ Width = Len(Columns) + 1
    BY ColumnAssumption, LenProperties DEF Width
  <2>2. ASSUME NEW k \in 1..Width
        PROVE  Stores[k] = <<>>
    <3>1. CASE k = 1
      BY <1>2, <3>1 DEF Stores
    <3>2. CASE k # 1
      <4>1. k - 1 \in DOMAIN Columns
        BY <2>1, <3>2
      <4>2. Columns[k - 1] \in ColumnNames
        BY <4>1 DEF ColumnNames
      <4> QED BY <1>1, <3>2, <4>2 DEF Stores
    <3> QED BY <3>1, <3>2
  <2>3. Len(groups) \in Nat /\ 1..0 = {}
    BY <1>1, LenProperties
  <2>4. Lengths(groups, tracks, ranges)
    BY <1>1, <1>2, <2>1, <2>3 DEF Lengths
  <2>5. OwnGroups(groups, Stores, tracks, ranges)
    BY <1>1, <1>2, <2>3 DEF OwnGroups
  <2>6. AllUnder(Stores, tracks, ranges)
    BY <1>2, <2>2, <2>3 DEF AllUnder
  <2> QED BY <2>4, <2>5, <2>6 DEF Placed
<1>4. ArenaInv
  <2>1. columns \in [ColumnNames -> Seq(Item)] /\ \A c \in ColumnNames : Len(columns[c]) <= U32Max
    BY <1>1, <1>2, EmptySeq, ArenaAssumption
  <2>2. tracks \in Seq(Seq([start : Nat, len : Nat])) /\ ranges \in Seq([start : Nat, len : Nat])
    BY <1>1, EmptySeq
  <2> QED BY <1>1, <1>2, <1>3, <2>1, <2>2, ArenaAssumption DEF ArenaInv
<1>5. CacheInv
  BY <1>1, <1>2 DEF CacheInv
<1>6. CallsInv
  BY <1>1 DEF CallsInv, Sizes
<1>7. NobodyCalls
  BY <1>1 DEF NobodyCalls
<1> QED BY <1>4, <1>5, <1>6, <1>7 DEF IInv

(* Every step keeps the invariant.                                         *)
LEMMA Inductive ==
    IInv /\ [Next]_vars => IInv'
<1> SUFFICES ASSUME IInv, [Next]_vars PROVE IInv'
  OBVIOUS
<1>1. CASE FinishGroup
  BY <1>1, GroupFinished
<1>2. CASE Share
  BY <1>2, Shared
<1>3. CASE \E r \in Readers : Call(r) \/ InNotes(r) \/ HeapBytes(r)
  BY <1>3, ReaderStep
<1>4. CASE UNCHANGED vars
  <2>1. UNCHANGED score /\ UNCHANGED <<once, filler, list, filled, pc, seen, size>>
    BY <1>4 DEF vars, cache, calls
  <2>2. /\ ArenaInv' /\ AllNotes' = AllNotes /\ OtherItems' = OtherItems
        /\ phase' = phase /\ segments' = segments /\ noteCount' = noteCount
    BY <2>1, ScoreKept DEF IInv
  <2>3. Sizes' = Sizes
    BY <2>1, <2>2 DEF Sizes
  <2> QED BY <2>1, <2>2, <2>3 DEF IInv, CacheInv, CallsInv, NobodyCalls
<1> QED BY <1>1, <1>2, <1>3, <1>4 DEF Next

(* The invariant holds in every state.                                     *)
THEOREM Invariant ==
    Spec => []IInv
<1>1. Spec => Init /\ [][Next]_vars
  BY PTL DEF Spec
<1> QED BY <1>1, InitialState, Inductive, PTL

(* Lengths, counts and states of the score and its cache (TypeOK).         *)
THEOREM TypeCorrect ==
    Spec => []TypeOK
<1>1. IInv => TypeOK
  <2> SUFFICES ASSUME IInv PROVE TypeOK
    OBVIOUS
  <2>1. ArenaInv /\ CacheInv /\ CallsInv
    BY DEF IInv
  <2>2. noteCount \in 0..U32Max
    BY <2>1, SizeCounted, ArenaAssumption DEF ArenaInv
  <2>3. ASSUME NEW c \in ColumnNames
        PROVE  Len(columns[c]) \in 0..U32Max
    BY <2>1, LenProperties, ArenaAssumption DEF ArenaInv
  <2>4. filler \in Readers \cup {NoReader}
    BY <2>1 DEF CacheInv
  <2> QED BY <2>1, <2>2, <2>3, <2>4 DEF TypeOK, ArenaInv, CacheInv, CallsInv
<1> QED BY <1>1, Invariant, PTL

(* What lies under a range is what the range reads.                        *)
LEMMA HeldIsRead ==
    ASSUME NEW s \in Seq(Item), NEW r, NEW g, NEW n \in Nat, Holds(s, r, g, n)
    PROVE  Reads(s, r, Items(g, n))
<1>1. /\ r.start \in Nat /\ r.len = n /\ r.start + n <= Len(s)
      /\ \A j \in 1..n : s[r.start + j] = <<g, j>>
  BY DEF Holds
<1>2. PICK a \in Nat : a = r.start
  BY <1>1
<1>3. Len(s) \in Nat /\ a + n <= Len(s)
  BY <1>1, <1>2, LenProperties
<1>4. /\ SubSeq(s, a + 1, a + n) = [j \in 1..n |-> s[a + j]]
  BY <1>3
<1>5. [j \in 1..n |-> s[a + j]] = [j \in 1..n |-> <<g, j>>]
  BY <1>1, <1>2
<1> QED BY <1>1, <1>2, <1>3, <1>4, <1>5 DEF Reads, Items

(* Each column is one of the stores, and its range at the same place.      *)
LEMMA ColumnOfStore ==
    ASSUME ArenaInv, NEW c \in ColumnNames \cup {"notes"}
    PROVE  \E k \in 1..Width :
              /\ Name[k] = c /\ Stores[k] = Column(c)
              /\ \A t : RangeOf(t, c) = tracks[t][k]
<1>1. /\ Len(Columns) \in Nat /\ DOMAIN Columns = 1..Len(Columns) /\ Width = Len(Columns) + 1
  BY StoreTypes
<1>2. CASE c = "notes"
  <2>1. 1 \in 1..Width
    BY <1>1
  <2> QED BY <1>2, <2>1 DEF Name, Stores, Column, RangeOf
<1>3. CASE c # "notes"
  <2> DEFINE i == CHOOSE i \in DOMAIN Columns : Columns[i] = c
  <2>1. \E j \in DOMAIN Columns : Columns[j] = c
    BY <1>3 DEF ColumnNames
  <2>2. i \in DOMAIN Columns /\ Columns[i] = c
    BY <2>1
  <2>3. \A t : RangeOf(t, c) = tracks[t][1 + i]
    BY <1>3 DEF RangeOf
  <2> HIDE DEF i
  <2>4. 1 + i \in 1..Width /\ 1 + i # 1 /\ (1 + i) - 1 = i
    BY <1>1, <2>2
  <2>5. Name[1 + i] = c /\ Stores[1 + i] = columns[c]
    BY <2>2, <2>4 DEF Name, Stores
  <2>6. Column(c) = columns[c]
    BY <1>3 DEF Column
  <2> QED BY <2>3, <2>4, <2>5, <2>6
<1> QED BY <1>2, <1>3

(* Through its ranges a track reads its own group, and every item of a     *)
(* finished score is some track's (TracksReadOwnGroup).                    *)
THEOREM OwnGroupsRead ==
    Spec => []TracksReadOwnGroup
<1>1. IInv => TracksReadOwnGroup
  <2> SUFFICES ASSUME IInv, NEW c \in ColumnNames \cup {"notes"}
               PROVE  /\ \A t \in DOMAIN tracks : Reads(Column(c), RangeOf(t, c), Items(t, groups[t][c]))
                      /\ phase = "shared" =>
                            \A i \in 1..Len(Column(c)) : \E t \in DOMAIN tracks : Under(i, RangeOf(t, c))
    BY DEF TracksReadOwnGroup
  <2>1. ArenaInv
    BY DEF IInv
  <2>2. PICK k \in 1..Width : /\ Name[k] = c /\ Stores[k] = Column(c)
                              /\ \A t : RangeOf(t, c) = tracks[t][k]
    BY <2>1, ColumnOfStore
  <2>3. /\ Stores \in [1..Width -> Seq(Item)] /\ Len(ranges) \in Nat
        /\ Len(tracks) \in Nat /\ Len(groups) \in Nat
    BY <2>1, StoreTypes
  <2>4. DOMAIN tracks = 1..Len(tracks)
    BY <2>1, LenProperties DEF ArenaInv
  <2>5. ASSUME NEW t \in DOMAIN tracks
        PROVE  Reads(Column(c), RangeOf(t, c), Items(t, groups[t][c]))
    <3>1. Holds(Stores[k], tracks[t][k], t, groups[t][Name[k]])
      BY <2>1, <2>4 DEF ArenaInv, Placed, OwnGroups
    <3>2. groups[t][c] \in Nat
      <4>1. t \in 1..Len(groups)
        BY <2>1, <2>3, <2>4 DEF ArenaInv, Placed, Lengths
      <4>2. groups[t] \in [ColumnNames \cup {"notes"} -> Nat]
        BY <2>1, <4>1, LenProperties DEF ArenaInv
      <4> QED BY <4>2
    <3>3. Stores[k] \in Seq(Item)
      BY <2>3
    <3>4. Reads(Stores[k], tracks[t][k], Items(t, groups[t][c]))
      BY <2>2, <3>1, <3>2, <3>3, HeldIsRead
    <3> QED BY <2>2, <3>4
  <2>6. ASSUME phase = "shared", NEW i \in 1..Len(Column(c))
        PROVE  \E t \in DOMAIN tracks : Under(i, RangeOf(t, c))
    <3>1. Len(ranges) = 0
      BY <2>1, <2>3, <2>6 DEF ArenaInv, Placed, Lengths
    <3>2. \/ \E t \in 1..Len(tracks) : Under(i, tracks[t][k])
          \/ k <= Len(ranges) /\ Under(i, ranges[k])
      BY <2>1, <2>2 DEF ArenaInv, Placed, AllUnder
    <3>3. ~(k <= Len(ranges))
      BY <2>3, <3>1, StoreTypes, <2>1
    <3> QED BY <2>2, <2>4, <3>2, <3>3
  <2> QED BY <2>5, <2>6
<1> QED BY <1>1, Invariant, PTL

(* A cache that is complete holds the notes of all tracks in their order,  *)
(* every call returns it, and one thread at most fills it                  *)
(* (NotesWholeAndOnce).                                                    *)
THEOREM NotesOnce ==
    Spec => []NotesWholeAndOnce
<1>1. IInv => NotesWholeAndOnce
  <2> SUFFICES ASSUME IInv PROVE NotesWholeAndOnce
    OBVIOUS
  <2>1. ArenaInv /\ CacheInv /\ CallsInv
    BY DEF IInv
  <2>2. once = "complete" => list = AllNotes /\ Len(list) = noteCount
    BY <2>1 DEF ArenaInv, CacheInv
  <2>3. Cardinality({r \in Readers : pc[r] = "fill"}) <= 1
    <3> DEFINE F == {r \in Readers : pc[r] = "fill"}
    <3>1. F \subseteq {filler}
      BY <2>1 DEF CallsInv
    <3> HIDE DEF F
    <3>2. IsFiniteSet({filler}) /\ Cardinality({filler}) = 1
      BY FS_Singleton
    <3>3. Cardinality(F) <= Cardinality({filler})
      BY <3>1, <3>2, FS_Subset
    <3> QED BY <3>2, <3>3 DEF F
  <2> QED BY <2>1, <2>2, <2>3 DEF NotesWholeAndOnce, CallsInv
<1> QED BY <1>1, Invariant, PTL

(* heap_bytes counts the cache whole or not at all, and what a thread is   *)
(* told does not shrink (HeapGrowsOnce).                                   *)
THEOREM HeapGrows ==
    Spec => HeapGrowsOnce
<1> DEFINE Grows == \A r \in Readers :
                       size'[r] # size[r] =>
                          /\ size'[r] \in {s + Len(OtherItems) : s \in {noteCount, 2 * noteCount}}
                          /\ size'[r] >= size[r]
<1>1. IInv /\ [Next]_vars => [Grows]_vars
  <2> SUFFICES ASSUME IInv, Next, NEW r \in Readers, size'[r] # size[r]
               PROVE  /\ size'[r] \in {s + Len(OtherItems) : s \in {noteCount, 2 * noteCount}}
                      /\ size'[r] >= size[r]
    OBVIOUS
  <2>1. ArenaInv /\ CacheInv /\ size \in [Readers -> Sizes]
    BY DEF IInv, CallsInv
  <2>2. HeapBytes(r)
    <3>1. ASSUME UNCHANGED calls
          PROVE  FALSE
      BY <3>1 DEF calls
    <3>2. PICK q \in Readers : Call(q) \/ InNotes(q) \/ HeapBytes(q)
      BY <3>1 DEF Next, FinishGroup, Share
    <3>3. HeapBytes(q)
      BY <3>2 DEF Call, InNotes, Get, Initialize, Fill, Publish, Return, calls
    <3> QED BY <2>1, <3>3 DEF HeapBytes
  <2>3. size'[r] = Len(FlattenSeq(segments)) + Cached + Len(OtherItems)
    BY <2>1, <2>2 DEF HeapBytes
  <2>4. /\ noteCount \in Nat /\ Len(OtherItems) \in Nat
        /\ size'[r] = IF once = "complete" THEN 2 * noteCount + Len(OtherItems)
                      ELSE noteCount + Len(OtherItems)
    BY <2>1, <2>3, SizeCounted
  <2>5. \/ size[r] = 0 \/ size[r] = noteCount + Len(OtherItems)
        \/ once = "complete" /\ size[r] = 2 * noteCount + Len(OtherItems)
    BY <2>1 DEF Sizes
  <2>6. size'[r] >= size[r]
    BY <2>4, <2>5
  <2> QED BY <2>4, <2>6
<1>2. Spec => [][Next]_vars
  BY PTL DEF Spec
<1> QED BY <1>1, <1>2, Invariant, PTL DEF HeapGrowsOnce

================================================================================
