--------------------------- MODULE NoteBuilderProofs ---------------------------
(***************************************************************************)
(* For every width and every number of notes: NoteBuilder keeps its types, *)
(* is wide exactly when a note needs it, and implements CompletedNotes.    *)
(*                                                                         *)
(* The inductive invariant adds one fact to the two checked invariants:    *)
(* no row starts after the present time, so that a completed duration is a *)
(* number.  That a narrow column holds nothing beyond u32, on which every  *)
(* promotion rests, is one half of WideExactlyWhenNeeded.                  *)
(*                                                                         *)
(* First, what the operations of a column do to its rows, its width and    *)
(* the set of its dangling rows, for any set D of the data a row carries:  *)
(* ScoreTrackProofs needs it of the columns of a group.                    *)
(***************************************************************************)
EXTENDS NoteBuilder, OrderingProofs

--------------------------------------------------------------------------------
(* A column. *)

(* A narrow column holds no duration beyond u32: a duration that looks     *)
(* like the wide marker would make a completed note dangling.              *)
NarrowFits(col) ==
    ~col.wide => \A i \in DOMAIN col.rows : col.rows[i].duration <= U32Max

InBounds(col) == col.maxDone \subseteq DOMAIN col.rows

ColumnOK(D, col) == col \in Columns(D) /\ NarrowFits(col) /\ InBounds(col)

(* What a row holds.                                                       *)
LEMMA RowType ==
    ASSUME NEW D, NEW col \in Columns(D), NEW i \in DOMAIN col.rows
    PROVE  /\ col.rows[i] \in Row(D)
           /\ col.rows[i].time \in 0..U64Max
           /\ col.rows[i].duration \in 0..U64Max
<1>1. col.rows \in Seq(Row(D))
  BY DEF Columns
<1>2. col.rows[i] \in Row(D)
  BY <1>1
<1> QED BY <1>2 DEF Row

(* Promotion changes no time, no data, no completed duration and no row's  *)
(* being dangling (promote_to_wide).                                       *)
LEMMA PromoteProperties ==
    ASSUME NEW D, NEW col \in Columns(D), NarrowFits(col)
    PROVE  /\ PromoteToWide(col) \in Columns(D)
           /\ PromoteToWide(col).wide
           /\ PromoteToWide(col).maxDone = col.maxDone
           /\ DOMAIN PromoteToWide(col).rows = DOMAIN col.rows
           /\ Len(PromoteToWide(col).rows) = Len(col.rows)
           /\ \A i \in DOMAIN col.rows :
                /\ PromoteToWide(col).rows[i].time = col.rows[i].time
                /\ PromoteToWide(col).rows[i].data = col.rows[i].data
                /\ IsDangling(PromoteToWide(col), i) <=> IsDangling(col, i)
                /\ ~IsDangling(col, i) =>
                     PromoteToWide(col).rows[i].duration = col.rows[i].duration
<1> DEFINE p == PromoteToWide(col)
<1>1. /\ p.wide = TRUE
      /\ p.maxDone = col.maxDone
      /\ p.rows = [i \in DOMAIN col.rows |->
                    IF IsDangling(col, i)
                    THEN WithDuration(col.rows[i], U64Max) ELSE col.rows[i]]
      /\ p = [wide |-> p.wide, rows |-> p.rows, maxDone |-> p.maxDone]
  BY DEF PromoteToWide
<1> HIDE DEF p
<1>2. col.rows \in Seq(Row(D)) /\ col.wide \in BOOLEAN /\ col.maxDone \in SUBSET Nat
  BY DEF Columns
<1>3. ASSUME NEW i \in DOMAIN col.rows
      PROVE  col.rows[i] \in Row(D) /\ p.rows[i] \in Row(D)
  <2>1. col.rows[i] \in Row(D)
    BY <1>2
  <2>2. WithDuration(col.rows[i], U64Max) \in Row(D)
    BY <2>1, WidthAssumption DEF Row, WithDuration
  <2> QED BY <1>1, <2>1, <2>2
<1>4. p.rows \in Seq(Row(D)) /\ Len(p.rows) = Len(col.rows) /\ DOMAIN p.rows = DOMAIN col.rows
  <2>1. DOMAIN p.rows = 1..Len(col.rows) /\ Len(col.rows) \in Nat
    BY <1>1, <1>2
  <2>2. p.rows \in [1..Len(col.rows) -> Row(D)]
    BY <1>1, <1>3, <2>1
  <2> QED BY <1>1, <1>2, <2>1, <2>2
<1>5. p \in Columns(D)
  BY <1>1, <1>2, <1>4 DEF Columns
<1>6. ASSUME NEW i \in DOMAIN col.rows
      PROVE  /\ p.rows[i].time = col.rows[i].time
             /\ p.rows[i].data = col.rows[i].data
             /\ IsDangling(p, i) <=> IsDangling(col, i)
             /\ ~IsDangling(col, i) => p.rows[i].duration = col.rows[i].duration
  <2>1. CASE IsDangling(col, i)
    <3>1. p.rows[i] = WithDuration(col.rows[i], U64Max)
      BY <1>1, <2>1
    <3>2. i \notin p.maxDone
      BY <1>1, <2>1 DEF IsDangling
    <3>3. p.rows[i].duration = U64Max /\ p.rows[i].time = col.rows[i].time /\ p.rows[i].data = col.rows[i].data
      BY <3>1 DEF WithDuration
    <3> QED BY <1>1, <2>1, <3>2, <3>3 DEF IsDangling, AllOnes
  <2>2. CASE ~IsDangling(col, i)
    <3>1. p.rows[i] = col.rows[i]
      BY <1>1, <2>2
    <3>2. col.rows[i].duration \in 0..U64Max
      BY <1>3 DEF Row
    <3>3. CASE col.wide
      BY <1>1, <2>2, <3>1, <3>3 DEF IsDangling, AllOnes
    <3>4. CASE ~col.wide
      <4>1. p.rows[i].duration # U64Max
        BY <3>1, <3>2, <3>4, WidthAssumption DEF NarrowFits
      <4> QED BY <1>1, <2>2, <3>1, <4>1 DEF IsDangling, AllOnes
    <3> QED BY <3>3, <3>4
  <2> QED BY <2>1, <2>2
<1> QED BY <1>1, <1>4, <1>5, <1>6 DEF p

(* A pushed row is dangling, and the others keep their meaning (push).     *)
LEMMA PushProperties ==
    ASSUME NEW D, NEW col \in Columns(D), NarrowFits(col), InBounds(col),
           NEW t \in 0..U64Max, NEW data \in D
    PROVE  LET c == Push(col, t, data)
               n == Len(col.rows)
           IN  /\ c \in Columns(D)
               /\ c.maxDone = col.maxDone
               /\ Len(c.rows) = n + 1
               /\ c.wide <=> col.wide \/ t > U32Max
               /\ c.rows[n + 1].time = t /\ c.rows[n + 1].data = data
               /\ IsDangling(c, n + 1)
               /\ \A i \in 1..n :
                    /\ c.rows[i].time = col.rows[i].time
                    /\ c.rows[i].data = col.rows[i].data
                    /\ IsDangling(c, i) <=> IsDangling(col, i)
                    /\ ~IsDangling(col, i) => c.rows[i].duration = col.rows[i].duration
<1> DEFINE b == IF t > U32Max THEN PromoteToWide(col) ELSE col
           c == Push(col, t, data)
           n == Len(col.rows)
           r == [time |-> t, duration |-> AllOnes(b.wide), data |-> data]
<1>1. col.rows \in Seq(Row(D)) /\ col.wide \in BOOLEAN /\ n \in Nat /\ DOMAIN col.rows = 1..n
  BY DEF Columns
<1>2. /\ b \in Columns(D)
      /\ b.maxDone = col.maxDone
      /\ Len(b.rows) = n
      /\ b.wide <=> col.wide \/ t > U32Max
      /\ \A i \in 1..n : /\ b.rows[i].time = col.rows[i].time
                         /\ b.rows[i].data = col.rows[i].data
                         /\ IsDangling(b, i) <=> IsDangling(col, i)
                         /\ ~IsDangling(col, i) => b.rows[i].duration = col.rows[i].duration
  BY <1>1, PromoteProperties
<1>3. c.wide = b.wide /\ c.maxDone = b.maxDone /\ c.rows = Append(b.rows, r)
      /\ c = [wide |-> c.wide, rows |-> c.rows, maxDone |-> c.maxDone]
  BY DEF Push
<1> HIDE DEF b, c, n
<1>4. b.rows \in Seq(Row(D)) /\ b.wide \in BOOLEAN /\ b.maxDone \in SUBSET Nat
  BY <1>2 DEF Columns
<1>5. r \in Row(D)
  BY <1>4, WidthAssumption DEF Row, AllOnes
<1> HIDE DEF r
<1>6. /\ c.rows \in Seq(Row(D)) /\ Len(c.rows) = n + 1
      /\ c.rows[n + 1] = r
      /\ \A i \in 1..n : c.rows[i] = b.rows[i]
  BY <1>1, <1>2, <1>3, <1>4, <1>5
<1>7. c \in Columns(D)
  BY <1>3, <1>4, <1>6 DEF Columns
<1>8. n + 1 \notin c.maxDone
  BY <1>1, <1>2, <1>3 DEF InBounds
<1>9. c.rows[n + 1].time = t /\ c.rows[n + 1].data = data /\ IsDangling(c, n + 1)
  BY <1>3, <1>6, <1>8 DEF IsDangling, r
<1>10. \A i \in 1..n : IsDangling(c, i) <=> IsDangling(b, i)
  BY <1>3, <1>6 DEF IsDangling
<1> QED BY <1>2, <1>3, <1>6, <1>7, <1>9, <1>10 DEF c, n

(* A completed row holds its duration and is dangling no more, and the     *)
(* others keep their meaning (complete).                                   *)
LEMMA CompleteProperties ==
    ASSUME NEW D, NEW col \in Columns(D), NarrowFits(col), InBounds(col),
           NEW k \in DOMAIN col.rows, IsDangling(col, k), NEW d \in 0..U64Max
    PROVE  LET c == Complete(col, k, d)
           IN  /\ c \in Columns(D)
               /\ InBounds(c)
               /\ DOMAIN c.rows = DOMAIN col.rows
               /\ Len(c.rows) = Len(col.rows)
               /\ c.wide <=> col.wide \/ d > U32Max
               /\ ~IsDangling(c, k) /\ c.rows[k].duration = d
               /\ \A i \in DOMAIN col.rows :
                    /\ c.rows[i].time = col.rows[i].time
                    /\ c.rows[i].data = col.rows[i].data
                    /\ i # k => /\ IsDangling(c, i) <=> IsDangling(col, i)
                                /\ ~IsDangling(col, i) =>
                                     c.rows[i].duration = col.rows[i].duration
<1> DEFINE b == IF d > U32Max THEN PromoteToWide(col) ELSE col
           c == Complete(col, k, d)
<1>1. col.rows \in Seq(Row(D)) /\ col.wide \in BOOLEAN
  BY DEF Columns
<1>2. /\ b \in Columns(D)
      /\ b.maxDone = col.maxDone
      /\ DOMAIN b.rows = DOMAIN col.rows
      /\ Len(b.rows) = Len(col.rows)
      /\ b.wide <=> col.wide \/ d > U32Max
      /\ \A i \in DOMAIN col.rows :
             /\ b.rows[i].time = col.rows[i].time
             /\ b.rows[i].data = col.rows[i].data
             /\ IsDangling(b, i) <=> IsDangling(col, i)
             /\ ~IsDangling(col, i) => b.rows[i].duration = col.rows[i].duration
  BY <1>1, PromoteProperties
<1>3. /\ c.wide = b.wide
      /\ c.maxDone = IF d = AllOnes(b.wide) THEN b.maxDone \cup {k} ELSE b.maxDone
      /\ c.rows = [b.rows EXCEPT ![k] = WithDuration(@, d)]
      /\ c = [wide |-> c.wide, rows |-> c.rows, maxDone |-> c.maxDone]
  BY DEF Complete, SetDuration
<1> HIDE DEF b, c
<1>4. b.rows \in Seq(Row(D)) /\ b.wide \in BOOLEAN /\ b.maxDone \in SUBSET Nat
  BY <1>2 DEF Columns
<1>5. WithDuration(b.rows[k], d) \in Row(D)
  <2>1. b.rows[k] \in Row(D)
    BY <1>2, <1>4
  <2> QED BY <2>1 DEF Row, WithDuration
<1>6. /\ c.rows \in Seq(Row(D)) /\ DOMAIN c.rows = DOMAIN b.rows /\ Len(c.rows) = Len(b.rows)
      /\ c.rows[k] = WithDuration(b.rows[k], d)
      /\ \A i \in DOMAIN b.rows : i # k => c.rows[i] = b.rows[i]
  BY <1>2, <1>3, <1>4, <1>5
<1>7. k \in Nat
  BY <1>1
<1>8. c \in Columns(D)
  BY <1>3, <1>4, <1>6, <1>7 DEF Columns
<1>9. InBounds(c)
  BY <1>2, <1>3, <1>6 DEF InBounds
<1>10. c.rows[k].duration = d /\ c.rows[k].time = b.rows[k].time /\ c.rows[k].data = b.rows[k].data
  BY <1>6 DEF WithDuration
<1>11. ~IsDangling(c, k)
  BY <1>3, <1>10 DEF IsDangling
<1>12. \A i \in DOMAIN b.rows : i # k => (IsDangling(c, i) <=> IsDangling(b, i))
  BY <1>3, <1>6 DEF IsDangling
<1> QED BY <1>2, <1>3, <1>6, <1>8, <1>9, <1>10, <1>11, <1>12 DEF c

--------------------------------------------------------------------------------
(* A column stays what it must be. *)

(* The rows of a column are numbered from 1.                               *)
LEMMA ColumnTypes ==
    ASSUME NEW D, NEW col, ColumnOK(D, col)
    PROVE  /\ col \in Columns(D) /\ NarrowFits(col) /\ InBounds(col)
           /\ Len(col.rows) \in Nat /\ DOMAIN col.rows = 1..Len(col.rows)
           /\ \A i \in DOMAIN col.rows : col.rows[i].time \in 0..U64Max /\ col.rows[i].time \in Nat
<1>1. col \in Columns(D) /\ NarrowFits(col) /\ InBounds(col)
  BY DEF ColumnOK
<1>2. col.rows \in Seq(Row(D))
  BY <1>1 DEF Columns
<1>3. \A i \in DOMAIN col.rows : col.rows[i].time \in 0..U64Max
  BY <1>1, RowType
<1>4. \A t \in 0..U64Max : t \in Nat
  BY WidthAssumption
<1> QED BY <1>1, <1>2, <1>3, <1>4

(* A column begins empty and narrow (NoteColumnsBuilder).                  *)
LEMMA EmptyColumnOK ==
    ASSUME NEW D
    PROVE  ColumnOK(D, EmptyColumns) /\ DOMAIN EmptyColumns.rows = {}
<1>1. /\ EmptyColumns.wide = FALSE /\ EmptyColumns.rows = <<>> /\ EmptyColumns.maxDone = {}
      /\ EmptyColumns = [wide |-> FALSE, rows |-> <<>>, maxDone |-> {}]
  BY DEF EmptyColumns
<1>2. EmptyColumns \in Columns(D)
  BY <1>1 DEF Columns
<1> QED BY <1>1, <1>2 DEF ColumnOK, NarrowFits, InBounds

(* push: with a time beyond u32 the column is wide.                        *)
LEMMA PushKeepsColumn ==
    ASSUME NEW D, NEW col, ColumnOK(D, col), NEW t \in 0..U64Max, NEW data \in D
    PROVE  ColumnOK(D, Push(col, t, data))
<1> DEFINE c == Push(col, t, data)
           n == Len(col.rows)
<1>1. col \in Columns(D) /\ NarrowFits(col) /\ InBounds(col) /\ n \in Nat /\ DOMAIN col.rows = 1..n
  BY ColumnTypes
<1>2. /\ c \in Columns(D)
      /\ c.maxDone = col.maxDone
      /\ Len(c.rows) = n + 1
      /\ c.wide <=> col.wide \/ t > U32Max
      /\ IsDangling(c, n + 1)
      /\ \A i \in 1..n :
           /\ IsDangling(c, i) <=> IsDangling(col, i)
           /\ ~IsDangling(col, i) => c.rows[i].duration = col.rows[i].duration
  BY <1>1, PushProperties
<1> HIDE DEF c, n
<1>3. DOMAIN c.rows = 1..(n + 1)
  BY <1>2 DEF Columns
<1>4. \A i \in 1..(n + 1) : i \in 1..n \/ i = n + 1
  BY <1>1
<1>5. ASSUME NEW i \in DOMAIN c.rows, ~c.wide
      PROVE  c.rows[i].duration <= U32Max
  <2>1. CASE IsDangling(c, i)
    BY <1>5, <2>1, WidthAssumption DEF IsDangling, AllOnes
  <2>2. CASE ~IsDangling(c, i)
    <3>1. i \in 1..n /\ c.rows[i].duration = col.rows[i].duration /\ ~col.wide
      BY <1>2, <1>3, <1>4, <1>5, <2>2
    <3> QED BY <1>1, <3>1 DEF NarrowFits
  <2> QED BY <2>1, <2>2
<1>6. InBounds(c)
  <2>1. 1..n \subseteq 1..(n + 1)
    BY <1>1
  <2> QED BY <1>1, <1>2, <1>3, <2>1 DEF InBounds
<1> QED BY <1>2, <1>5, <1>6 DEF ColumnOK, NarrowFits, c

(* complete: with a duration beyond u32 the column is wide.                *)
LEMMA CompleteKeepsColumn ==
    ASSUME NEW D, NEW col, ColumnOK(D, col), NEW k \in DOMAIN col.rows, IsDangling(col, k),
           NEW d \in 0..U64Max
    PROVE  ColumnOK(D, Complete(col, k, d))
<1> DEFINE c == Complete(col, k, d)
<1>1. col \in Columns(D) /\ NarrowFits(col) /\ InBounds(col)
  BY ColumnTypes
<1>2. /\ c \in Columns(D) /\ InBounds(c)
      /\ DOMAIN c.rows = DOMAIN col.rows
      /\ c.wide <=> col.wide \/ d > U32Max
      /\ c.rows[k].duration = d
      /\ \A i \in DOMAIN col.rows : i # k =>
            /\ IsDangling(c, i) <=> IsDangling(col, i)
            /\ ~IsDangling(col, i) => c.rows[i].duration = col.rows[i].duration
  BY <1>1, CompleteProperties
<1> HIDE DEF c
<1>3. ASSUME NEW i \in DOMAIN c.rows, ~c.wide
      PROVE  c.rows[i].duration <= U32Max
  <2>1. CASE i = k
    BY <1>2, <1>3, <2>1, WidthAssumption
  <2>2. CASE i # k /\ IsDangling(c, i)
    BY <1>3, <2>2, WidthAssumption DEF IsDangling, AllOnes
  <2>3. CASE i # k /\ ~IsDangling(c, i)
    <3>1. i \in DOMAIN col.rows /\ c.rows[i].duration = col.rows[i].duration /\ ~col.wide
      BY <1>2, <1>3, <2>3
    <3> QED BY <1>1, <3>1 DEF NarrowFits
  <2> QED BY <2>1, <2>2, <2>3
<1> QED BY <1>2, <1>3 DEF ColumnOK, NarrowFits, c

--------------------------------------------------------------------------------
(* The life of one. *)

StartedInPast == \A i \in DOMAIN columns.rows : columns.rows[i].time <= now

IInv == TypeOK /\ StartedInPast /\ WideExactlyWhenNeeded

--------------------------------------------------------------------------------
(* The invariant. *)

(* A narrow column holds only what fits it.                                *)
LEMMA InvImpliesFits ==
    IInv => columns \in Columns(Data) /\ NarrowFits(columns) /\ InBounds(columns)
<1> SUFFICES ASSUME IInv PROVE NarrowFits(columns)
  BY DEF IInv, TypeOK, InBounds
<1> SUFFICES ASSUME ~columns.wide, NEW i \in DOMAIN columns.rows
             PROVE  columns.rows[i].duration <= U32Max
  BY DEF NarrowFits
<1>1. columns.rows \in Seq(Row(Data)) /\ columns.wide \in BOOLEAN
  BY DEF IInv, TypeOK, Columns
<1>2. columns.rows[i].duration \in 0..U64Max
  BY RowType DEF IInv, TypeOK
<1>3. CASE IsDangling(columns, i)
  BY <1>3, WidthAssumption DEF IsDangling, AllOnes
<1>4. CASE ~IsDangling(columns, i)
  BY <1>2, <1>4, WidthAssumption DEF IInv, WideExactlyWhenNeeded
<1> QED BY <1>3, <1>4

(* A new builder is an empty narrow column.                                *)
LEMMA InitInv == Init => IInv
<1> SUFFICES ASSUME Init PROVE IInv
  OBVIOUS
<1>1. /\ columns.wide = FALSE /\ columns.rows = << >> /\ columns.maxDone = {}
      /\ columns = [wide |-> FALSE, rows |-> << >>, maxDone |-> {}]
  BY DEF Init, EmptyColumns
<1>2. TypeOK
  BY <1>1, WidthAssumption DEF Init, TypeOK, Columns
<1> QED BY <1>1, <1>2 DEF IInv, StartedInPast, WideExactlyWhenNeeded

(* Time, push, complete and finish keep the invariant.                     *)
LEMMA NextInv == IInv /\ [Next]_vars => IInv'
<1> SUFFICES ASSUME IInv, [Next]_vars PROVE IInv'
  OBVIOUS
<1>1. columns \in Columns(Data) /\ NarrowFits(columns) /\ InBounds(columns)
  BY InvImpliesFits
<1>2. /\ columns.rows \in Seq(Row(Data)) /\ columns.wide \in BOOLEAN
      /\ DOMAIN columns.rows = 1..Len(columns.rows) /\ Len(columns.rows) \in Nat
  BY <1>1 DEF Columns
<1>3. now \in 0..U64Max /\ phase \in {"building", "published", "overflow"} /\ Len(columns.rows) <= U32Max + 1
  BY DEF IInv, TypeOK
<1>4. \A i \in DOMAIN columns.rows : columns.rows[i].time \in 0..U64Max
  BY <1>1, RowType
<1>5. ASSUME NEW t \in 0..U64Max, Advance(t) PROVE IInv'
  <2>1. now' = t /\ now < t /\ columns' = columns /\ phase' = phase
    BY <1>5 DEF Advance
  <2>2. TypeOK'
    BY <2>1 DEF IInv, TypeOK
  <2>3. StartedInPast'
    BY <1>3, <1>4, <2>1 DEF IInv, StartedInPast
  <2>4. WideExactlyWhenNeeded'
    BY <2>1 DEF IInv, WideExactlyWhenNeeded
  <2> QED BY <2>2, <2>3, <2>4 DEF IInv
<1>6. ASSUME NEW data \in Data, NoteOn(data) PROVE IInv'
  <2> DEFINE n == Len(columns.rows)
  <2>1. columns' = Push(columns, now, data) /\ now' = now /\ phase' = phase /\ n <= U32Max
    BY <1>6 DEF NoteOn, CanPush
  <2>2. /\ columns' \in Columns(Data)
        /\ columns'.maxDone = columns.maxDone
        /\ Len(columns'.rows) = n + 1
        /\ columns'.wide <=> columns.wide \/ now > U32Max
        /\ columns'.rows[n + 1].time = now
        /\ IsDangling(columns', n + 1)
        /\ \A i \in 1..n :
              /\ columns'.rows[i].time = columns.rows[i].time
              /\ IsDangling(columns', i) <=> IsDangling(columns, i)
              /\ ~IsDangling(columns, i) => columns'.rows[i].duration = columns.rows[i].duration
    BY <1>1, <1>3, <2>1, PushProperties
  <2>3. DOMAIN columns'.rows = 1..(n + 1) /\ columns'.wide \in BOOLEAN
    BY <2>2 DEF Columns
  <2>4. \A i \in DOMAIN columns'.rows : i \in 1..n \/ i = n + 1
    BY <1>2, <2>3
  <2>5. 1..n \subseteq 1..(n + 1) /\ n + 1 \in 1..(n + 1)
    BY <1>2
  <2>6. TypeOK'
    BY <1>1, <1>2, <1>3, <2>1, <2>2, <2>3, <2>5, WidthAssumption DEF TypeOK, InBounds
  <2>7. StartedInPast'
    <3> SUFFICES ASSUME NEW i \in DOMAIN columns'.rows
                 PROVE  columns'.rows[i].time <= now
      BY <2>1 DEF StartedInPast
    <3>1. CASE i = n + 1
      BY <1>3, <2>2, <3>1
    <3>2. CASE i \in 1..n
      BY <1>2, <2>2, <3>2 DEF IInv, StartedInPast
    <3> QED BY <2>4, <3>1, <3>2
  <2>8. WideExactlyWhenNeeded'
    <3>1. ASSUME columns'.wide
          PROVE  \E i \in DOMAIN columns'.rows :
                    \/ columns'.rows[i].time > U32Max
                    \/ ~IsDangling(columns', i) /\ columns'.rows[i].duration > U32Max
      <4>1. CASE now > U32Max
        BY <2>2, <2>3, <2>5, <4>1
      <4>2. CASE columns.wide
        <5>1. PICK i \in 1..n :
                  \/ columns.rows[i].time > U32Max
                  \/ ~IsDangling(columns, i) /\ columns.rows[i].duration > U32Max
          BY <1>2, <4>2 DEF IInv, WideExactlyWhenNeeded
        <5> QED BY <2>2, <2>3, <2>5, <5>1
      <4> QED BY <2>2, <3>1, <4>1, <4>2
    <3>2. ASSUME NEW i \in DOMAIN columns'.rows,
                 \/ columns'.rows[i].time > U32Max
                 \/ ~IsDangling(columns', i) /\ columns'.rows[i].duration > U32Max
          PROVE  columns'.wide
      <4>1. CASE i = n + 1
        BY <2>2, <3>2, <4>1
      <4>2. CASE i \in 1..n
        BY <1>2, <2>2, <3>2, <4>2 DEF IInv, WideExactlyWhenNeeded
      <4> QED BY <2>4, <4>1, <4>2
    <3> QED BY <2>3, <3>1, <3>2 DEF WideExactlyWhenNeeded
  <2> QED BY <2>6, <2>7, <2>8 DEF IInv
<1>7. ASSUME NEW k \in DOMAIN columns.rows, NoteOff(k) PROVE IInv'
  <2> DEFINE d == now - columns.rows[k].time
  <2>1. columns' = Complete(columns, k, d) /\ IsDangling(columns, k) /\ now' = now /\ phase' = phase
    BY <1>7 DEF NoteOff
  <2>2. d \in 0..U64Max
    BY <1>3, <1>4, WidthAssumption DEF IInv, StartedInPast
  <2> HIDE DEF d
  <2>3. /\ columns' \in Columns(Data)
        /\ InBounds(columns')
        /\ DOMAIN columns'.rows = DOMAIN columns.rows
        /\ Len(columns'.rows) = Len(columns.rows)
        /\ columns'.wide <=> columns.wide \/ d > U32Max
        /\ ~IsDangling(columns', k) /\ columns'.rows[k].duration = d
        /\ \A i \in DOMAIN columns.rows :
              /\ columns'.rows[i].time = columns.rows[i].time
              /\ i # k => /\ IsDangling(columns', i) <=> IsDangling(columns, i)
                          /\ ~IsDangling(columns, i) =>
                               columns'.rows[i].duration = columns.rows[i].duration
    BY <1>1, <2>1, <2>2, CompleteProperties
  <2>4. TypeOK'
    BY <1>3, <2>1, <2>3 DEF TypeOK, InBounds
  <2>5. StartedInPast'
    BY <2>1, <2>3 DEF IInv, StartedInPast
  <2>6. WideExactlyWhenNeeded'
    BY <2>1, <2>3 DEF IInv, WideExactlyWhenNeeded
  <2> QED BY <2>4, <2>5, <2>6 DEF IInv
<1>8. CASE NoteOnOverflow
  BY <1>3, <1>8 DEF NoteOnOverflow, IInv, TypeOK, StartedInPast, WideExactlyWhenNeeded
<1>9. CASE Finish
  BY <1>3, <1>9 DEF Finish, IInv, TypeOK, StartedInPast, WideExactlyWhenNeeded
<1>10. CASE UNCHANGED vars
  BY <1>10 DEF vars, IInv, TypeOK, StartedInPast, WideExactlyWhenNeeded
<1> QED BY <1>5, <1>6, <1>7, <1>8, <1>9, <1>10 DEF Next

(* Every row index fits u32 and every stored time and duration is a u64    *)
(* (NoteColumnsBuilder).                                                   *)
THEOREM TypeCorrect == Spec => []TypeOK
<1>1. IInv => TypeOK
  BY DEF IInv
<1> QED BY InitInv, NextInv, <1>1, PTL DEF Spec

(* The column widens exactly when a start time or a completed duration is  *)
(* beyond u32 (push, complete, promote_to_wide).                           *)
THEOREM WidthCorrect == Spec => []WideExactlyWhenNeeded
<1>1. IInv => WideExactlyWhenNeeded
  BY DEF IInv
<1> QED BY InitInv, NextInv, <1>1, PTL DEF Spec

--------------------------------------------------------------------------------
(* The refinement. *)

(* An empty column is no notes.                                            *)
LEMMA InitRefines == Init => Promise!Init
BY DEF Init, Promise!Init, EmptyColumns, NotesOf

(* A row is an open note exactly when it is dangling. *)
LEMMA OpenIffDangling ==
    ASSUME IInv, NEW i \in DOMAIN columns.rows
    PROVE  NoteAt(columns, i).duration = Open <=> IsDangling(columns, i)
<1>1. columns.rows[i].duration \in 0..U64Max
  BY RowType DEF IInv, TypeOK
<1> QED BY <1>1, OpenAssumption DEF NoteAt

(* The segment lists the ended notes, each of them, in start order         *)
(* (into_segment).                                                         *)
LEMMA SegmentListsEnded ==
    ASSUME IInv
    PROVE  LET ns == NotesOf(columns)
           IN  \E m \in 0..Len(ns) : \E at \in [1..m -> Promise!EndedAt(ns)] :
                  /\ Promise!ListsInOrder(at, Promise!EndedAt(ns))
                  /\ IntoSegment(columns).rows = [k \in 1..m |-> ns[at[k]]]
<1> DEFINE S == {i \in DOMAIN columns.rows : ~IsDangling(columns, i)}
           ns == NotesOf(columns)
           at == InOrder(S)
           m == Cardinality(S)
           n == Len(columns.rows)
<1>1. DOMAIN columns.rows = 1..n /\ n \in Nat
  BY DEF IInv, TypeOK, Columns
<1>2. Len(ns) = n
  BY <1>1 DEF NotesOf
<1>3. IsFiniteSet(1..n) /\ Cardinality(1..n) = n
  BY <1>1, FS_Interval
<1>4. S \in SUBSET (1..n) /\ S \subseteq Int
  BY <1>1
<1>5. IsFiniteSet(S) /\ m \in 0..n
  <2> HIDE DEF S
  <2>1. IsFiniteSet(S) /\ Cardinality(S) <= n
    BY <1>3, <1>4, FS_Subset
  <2> QED BY <2>1, <1>1, FS_CardinalityType
<1>6. /\ at \in [1..m -> S]
      /\ \A i \in S : \E k \in 1..m : at[k] = i
      /\ \A j, k \in 1..m : j < k => at[j] < at[k]
  <2> HIDE DEF S
  <2> QED BY <1>4, <1>5, InOrderProperties
<1>7. Promise!EndedAt(ns) = S
  BY OpenIffDangling DEF NotesOf, Promise!EndedAt
<1>8. \A i \in S : ns[i] = columns.rows[i]
  <2> SUFFICES ASSUME NEW i \in S PROVE NoteAt(columns, i) = columns.rows[i]
    BY DEF NotesOf
  <2>1. columns.rows[i] \in Row(Data)
    BY RowType DEF IInv, TypeOK
  <2>2. NoteAt(columns, i) = [time     |-> columns.rows[i].time,
                              duration |-> columns.rows[i].duration,
                              data     |-> columns.rows[i].data]
    BY DEF NoteAt
  <2> QED BY <2>1, <2>2 DEF Row
<1>9. IntoSegment(columns).rows = [k \in DOMAIN at |-> columns.rows[at[k]]]
  BY DEF IntoSegment, Kept
<1> HIDE DEF at, ns, S, m, n
<1>10. DOMAIN at = 1..m
  BY <1>6
<1>11. \A k \in 1..m : columns.rows[at[k]] = ns[at[k]]
  BY <1>6, <1>8
<1>12. IntoSegment(columns).rows = [k \in 1..m |-> ns[at[k]]]
  BY <1>9, <1>10, <1>11
<1>13. Promise!ListsInOrder(at, S)
  BY <1>6, <1>10 DEF Promise!ListsInOrder
<1> QED BY <1>2, <1>5, <1>6, <1>7, <1>12, <1>13 DEF ns

(* Each operation of the column is one of the list of notes.               *)
LEMMA NextRefines == IInv /\ [Next]_vars => [Promise!Next]_(Promise!vars)
<1> SUFFICES ASSUME IInv, [Next]_vars PROVE [Promise!Next]_(Promise!vars)
  OBVIOUS
<1> DEFINE ns == NotesOf(columns)
           n == Len(columns.rows)
<1>1. columns \in Columns(Data) /\ NarrowFits(columns) /\ InBounds(columns)
  BY InvImpliesFits
<1>2. /\ columns.rows \in Seq(Row(Data))
      /\ DOMAIN columns.rows = 1..n /\ n \in Nat
      /\ now \in 0..U64Max
  BY <1>1 DEF Columns, IInv, TypeOK
<1>3. \A i \in DOMAIN columns.rows : columns.rows[i].time \in 0..U64Max
  BY <1>1, RowType
<1>4. DOMAIN ns = 1..n /\ Len(ns) = n /\ \A i \in 1..n : ns[i] = NoteAt(columns, i)
  BY <1>2 DEF NotesOf
<1>5. ASSUME NEW t \in 0..U64Max, Advance(t) PROVE Promise!Next
  <2>1. Promise!Advance(t)
    BY <1>5 DEF Advance, Promise!Advance
  <2> QED BY <2>1 DEF Promise!Next
<1>6. ASSUME NEW data \in Data, NoteOn(data) PROVE Promise!Next
  <2>1. columns' = Push(columns, now, data) /\ n <= U32Max
    BY <1>6 DEF NoteOn, CanPush
  <2>2. /\ columns' \in Columns(Data)
        /\ Len(columns'.rows) = n + 1
        /\ columns'.rows[n + 1].time = now /\ columns'.rows[n + 1].data = data
        /\ IsDangling(columns', n + 1)
        /\ \A i \in 1..n :
              /\ columns'.rows[i].time = columns.rows[i].time
              /\ columns'.rows[i].data = columns.rows[i].data
              /\ IsDangling(columns', i) <=> IsDangling(columns, i)
              /\ ~IsDangling(columns, i) => columns'.rows[i].duration = columns.rows[i].duration
    BY <1>1, <1>2, <2>1, PushProperties
  <2>3. DOMAIN columns'.rows = 1..(n + 1)
    BY <2>2 DEF Columns
  <2>4. \A i \in 1..n : NoteAt(columns', i) = ns[i]
    BY <1>4, <2>2 DEF NoteAt
  <2>5. NoteAt(columns', n + 1) = [time |-> now, duration |-> Open, data |-> data]
    BY <2>2 DEF NoteAt
  <2> DEFINE new == [time |-> now, duration |-> Open, data |-> data]
             ms == NotesOf(columns)'
  <2>6. DOMAIN ms = 1..(n + 1) /\ \A i \in 1..(n + 1) : ms[i] = NoteAt(columns', i)
    BY <2>3 DEF NotesOf
  <2>7. ms = Append(ns, new)
    <3>1. DOMAIN Append(ns, new) = 1..(n + 1) /\ Append(ns, new) = [i \in 1..(n + 1) |-> IF i = n + 1 THEN new ELSE ns[i]]
      BY <1>2, <1>4
    <3>2. ms = [i \in 1..(n + 1) |-> NoteAt(columns', i)]
      BY <2>3 DEF NotesOf
    <3>3. \A i \in 1..(n + 1) : i = n + 1 \/ i \in 1..n
      BY <1>2
    <3> HIDE DEF ms, ns, new, n
    <3> QED BY <2>4, <2>5, <3>1, <3>2, <3>3 DEF new
  <2>8. Promise!Start(data)
    BY <1>4, <1>6, <2>1, <2>7 DEF NoteOn, Promise!Start
  <2> QED BY <2>8 DEF Promise!Next
<1>7. ASSUME NEW k \in DOMAIN columns.rows, NoteOff(k) PROVE Promise!Next
  <2> DEFINE d == now - columns.rows[k].time
             ms == NotesOf(columns)'
  <2>1. columns' = Complete(columns, k, d) /\ IsDangling(columns, k)
    BY <1>7 DEF NoteOff
  <2>2. d \in 0..U64Max
    BY <1>2, <1>3, WidthAssumption DEF IInv, StartedInPast
  <2> HIDE DEF d
  <2>3. /\ DOMAIN columns'.rows = DOMAIN columns.rows
        /\ ~IsDangling(columns', k) /\ columns'.rows[k].duration = d
        /\ \A i \in DOMAIN columns.rows :
              /\ columns'.rows[i].time = columns.rows[i].time
              /\ columns'.rows[i].data = columns.rows[i].data
              /\ i # k => /\ IsDangling(columns', i) <=> IsDangling(columns, i)
                          /\ ~IsDangling(columns, i) =>
                               columns'.rows[i].duration = columns.rows[i].duration
    BY <1>1, <2>1, <2>2, CompleteProperties
  <2>4. \A i \in DOMAIN columns.rows : i # k => NoteAt(columns', i) = NoteAt(columns, i)
    BY <2>3 DEF NoteAt
  <2>5. NoteAt(columns', k) = [NoteAt(columns, k) EXCEPT !.duration = d]
    BY <2>3 DEF NoteAt
  <2>6. ms = [i \in DOMAIN columns.rows |-> NoteAt(columns', i)]
    BY <2>3 DEF NotesOf
  <2>7. ms = [ns EXCEPT ![k].duration = d]
    BY <2>4, <2>5, <2>6 DEF NotesOf
  <2>8. ns[k].duration = Open /\ ns[k].time = columns.rows[k].time /\ k \in DOMAIN ns
    <3>1. ns[k] = NoteAt(columns, k) /\ k \in DOMAIN ns
      BY DEF NotesOf
    <3> HIDE DEF ns
    <3> QED BY <2>1, <3>1 DEF NoteAt
  <2>9. Promise!End(k)
    <3>1. ms = [ns EXCEPT ![k].duration = now - ns[k].time]
      BY <2>7, <2>8 DEF d
    <3> QED BY <1>7, <2>8, <3>1 DEF NoteOff, Promise!End
  <2> QED BY <2>8, <2>9 DEF Promise!Next
<1>8. CASE NoteOnOverflow
  <2>1. Promise!Overflow
    <3>1. n > U32Max /\ phase = "building" /\ phase' = "overflow"
          /\ now' = now /\ columns' = columns /\ segment' = segment
      BY <1>2, <1>8, WidthAssumption DEF NoteOnOverflow, CanPush
    <3>2. Len(NotesOf(columns)) = n
      BY <1>4
    <3> HIDE DEF n
    <3> QED BY <3>1, <3>2 DEF Promise!Overflow
  <2> QED BY <2>1 DEF Promise!Next
<1>9. CASE Finish
  <2>1. phase = "building" /\ phase' = "published" /\ segment' = IntoSegment(columns)
        /\ columns' = columns /\ now' = now
    BY <1>9 DEF Finish
  <2>2. Promise!Publish
    BY <2>1, SegmentListsEnded DEF Promise!Publish
  <2> QED BY <2>2 DEF Promise!Next
<1>10. CASE UNCHANGED vars
  BY <1>10 DEF vars, Promise!vars
<1> QED BY <1>5, <1>6, <1>7, <1>8, <1>9, <1>10 DEF Next

(* The adaptive column implements the plain list of notes, whatever the    *)
(* widths: marker durations, the exception list, promotion and compaction  *)
(* never lose, invent, retime or reorder a note.                           *)
THEOREM Refinement == Spec => ImplementsCompletedNotes
<1> QED BY InitInv, NextInv, InitRefines, NextRefines, PTL
        DEF Spec, ImplementsCompletedNotes, Promise!Spec

================================================================================
