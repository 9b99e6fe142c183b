--------------------------- MODULE ScoreParserProofs --------------------------
(***************************************************************************)
(* Theorems about ScoreParser, for every set of files that FileAssumption  *)
(* describes and all limits.  The invariant IInv says where a parser can   *)
(* stand (in front of the header, of a chunk, or in one), that it has      *)
(* charged exactly the items behind it, that all of these are sound and    *)
(* within its budgets, and that one that has answered stood at such a      *)
(* place and answered with the first check that fails there.  Every fault  *)
(* of the file is then ahead of the cursor, which gives FirstFaultWins;    *)
(* the comparisons of the parsers follow from it, from the fact that the   *)
(* items charged determine the sequence applied to the score, and from the *)
(* place where a parser stopped.                                           *)
(***************************************************************************)
EXTENDS ScoreParser, OrderingProofs

--------------------------------------------------------------------------------
(* Running sums exist: a function on 0..L that adds up w.                  *)
LEMMA SumExists ==
    ASSUME NEW L \in Nat, NEW w \in [1..L -> Nat]
    PROVE  \E f \in [0..L -> Nat] : f[0] = 0 /\ \A n \in 1..L : f[n] = f[n - 1] + w[n]
<1> DEFINE Sums(k) == {f \in [0..k -> Nat] : f[0] = 0 /\ \A n \in 1..k : n <= L => f[n] = f[n - 1] + w[n]}
           T == {k \in Nat : Sums(k) # {}}
<1>1. 0 \in T
  <2>1. [n \in 0..0 |-> 0] \in Sums(0)
    OBVIOUS
  <2> QED BY <2>1
<1>2. ASSUME NEW k \in Nat, k \in T
      PROVE  k + 1 \in T
  <2>1. PICK f : f \in Sums(k)
    BY <1>2
  <2>2. PICK x \in Nat : k + 1 <= L => x = f[k] + w[k + 1]
    <3>1. CASE k + 1 <= L
      <4>1. f[k] + w[k + 1] \in Nat
        BY <2>1, <3>1
      <4> QED BY <4>1
    <3>2. CASE ~(k + 1 <= L)
      BY <3>2
    <3> QED BY <3>1, <3>2
  <2>3. PICK g : g = [n \in 0..(k + 1) |-> IF n = k + 1 THEN x ELSE f[n]]
    OBVIOUS
  <2>4. g \in [0..(k + 1) -> Nat] /\ g[0] = 0
    BY <2>1, <2>3
  <2>5. ASSUME NEW n \in 1..(k + 1), n <= L
        PROVE  g[n] = g[n - 1] + w[n]
    <3>1. CASE n = k + 1
      BY <2>2, <2>3, <2>5, <3>1
    <3>2. CASE n # k + 1
      <4>1. n \in 1..k /\ n - 1 \in 0..k
        BY <3>2
      <4> QED BY <2>1, <2>3, <2>5, <4>1
    <3> QED BY <3>1, <3>2
  <2>6. g \in Sums(k + 1)
    BY <2>4, <2>5
  <2> HIDE DEF Sums
  <2> QED BY <2>6
<1>3. L \in T
  <2> HIDE DEF T
  <2> QED BY <1>1, <1>2, SetInduction
<1>4. PICK f : f \in Sums(L)
  BY <1>3
<1>5. \A n \in 1..L : n <= L
  OBVIOUS
<1> HIDE DEF T
<1> QED BY <1>4, <1>5

(* Running sums grow. *)
LEMMA SumGrows ==
    ASSUME NEW L \in Nat, NEW a \in Nat, NEW f, \A n \in a..L : f[n] \in Nat,
           \A n \in (a + 1)..L : f[n - 1] <= f[n],
           NEW i \in a..L, NEW j \in a..L, i <= j
    PROVE  f[i] <= f[j]
<1> DEFINE T == {k \in Nat : i + k <= L => f[i] <= f[i + k]}
<1>1. 0 \in T
  <2>1. i + 0 = i /\ f[i] \in Nat
    OBVIOUS
  <2> QED BY <2>1
<1>2. ASSUME NEW k \in Nat, k \in T
      PROVE  k + 1 \in T
  <2> SUFFICES ASSUME i + (k + 1) <= L
               PROVE  f[i] <= f[i + (k + 1)]
    OBVIOUS
  <2>1. i + k \in a..L /\ i + (k + 1) \in (a + 1)..L /\ i + (k + 1) - 1 = i + k
    OBVIOUS
  <2>2. f[i] <= f[i + k]
    BY <1>2, <2>1
  <2>3. f[i + k] <= f[i + (k + 1)]
    BY <2>1
  <2>4. f[i] \in Nat /\ f[i + k] \in Nat /\ f[i + (k + 1)] \in Nat
    BY <2>1
  <2> QED BY <2>2, <2>3, <2>4
<1>3. j - i \in Nat /\ i + (j - i) = j
  OBVIOUS
<1>4. j - i \in T
  <2> HIDE DEF T
  <2> QED BY <1>1, <1>2, <1>3, SetInduction
<1> QED BY <1>3, <1>4

(* An item has bytes, a delta time before its event.                       *)
LEMMA ItemFacts ==
    ASSUME NEW it \in Item
    PROVE  /\ it.delta \in Nat /\ it.delta > 0 /\ it.body \in Nat /\ it.body > 0
           /\ it.text \in Nat /\ TextOf(it) \in Nat /\ NotesOf(it) \in 0..1
           /\ ItemBytes(it) \in Nat /\ ItemBytes(it) = it.delta + it.body
BY DEF Item, TextOf, NotesOf, ItemBytes

(* What the assumption on files says of the parsed one: its tracks are     *)
(* sequences of items, and what is cut or missing is at the end.           *)
LEMMA FileFacts ==
    ASSUME file \in Files
    PROVE  /\ Len(file.tracks) \in Nat /\ DOMAIN file.tracks = 1..Len(file.tracks)
           /\ \A t \in 1..Len(file.tracks) :
                 /\ file.tracks[t].items \in Seq(Item)
                 /\ Len(file.tracks[t].items) \in Nat
                 /\ DOMAIN file.tracks[t].items = 1..Len(file.tracks[t].items)
                 /\ \A i \in 1..Len(file.tracks[t].items) : file.tracks[t].items[i] \in Item
           /\ file.declared \in Nat /\ file.declared >= Len(file.tracks)
           /\ file.trailing \in Nat /\ file.badTag \in Nat /\ file.cut \in Nat
           /\ file.header \in {"ok", "tag", "short", "format", "division"}
<1>1. file.tracks \in Seq([items : Seq(Item)])
  BY FileAssumption
<1>2. Len(file.tracks) \in Nat /\ DOMAIN file.tracks = 1..Len(file.tracks)
  BY <1>1, LenProperties
<1>3. ASSUME NEW t \in 1..Len(file.tracks)
      PROVE  /\ file.tracks[t].items \in Seq(Item)
             /\ Len(file.tracks[t].items) \in Nat
             /\ DOMAIN file.tracks[t].items = 1..Len(file.tracks[t].items)
             /\ \A i \in 1..Len(file.tracks[t].items) : file.tracks[t].items[i] \in Item
  <2>1. file.tracks[t] \in [items : Seq(Item)]
    BY <1>1, <1>3, ElementOfSeq
  <2>2. PICK s : s = file.tracks[t].items /\ s \in Seq(Item)
    BY <2>1
  <2>3. Len(s) \in Nat /\ DOMAIN s = 1..Len(s) /\ \A i \in 1..Len(s) : s[i] \in Item
    BY <2>2, LenProperties, ElementOfSeq
  <2> QED BY <2>2, <2>3
<1>4. file.cut \in Nat
  <2>1. file.cut = 0 \/ file.cut = Len(file.tracks)
    BY FileAssumption
  <2> QED BY <1>2, <2>1
<1>5. /\ file.declared \in Nat /\ file.declared >= Len(file.tracks)
      /\ file.trailing \in Nat /\ file.badTag \in Nat
      /\ file.header \in {"ok", "tag", "short", "format", "division"}
  BY FileAssumption
<1> QED BY <1>2, <1>3, <1>4, <1>5

(* The bytes before an item are those before the last one and its own.     *)
LEMMA BytesStep ==
    ASSUME NEW s \in Seq(Item)
    PROVE  /\ \A n \in 0..Len(s) : BytesBefore(s, n) \in Nat
           /\ BytesBefore(s, 0) = 0
           /\ \A n \in 1..Len(s) : BytesBefore(s, n) = BytesBefore(s, n - 1) + ItemBytes(s[n])
<1> DEFINE L == Len(s)
           w == [k \in 1..L |-> ItemBytes(s[k])]
           Body(f) == [k \in 0..L |-> IF k = 0 THEN 0 ELSE f[k - 1] + ItemBytes(s[k])]
           F == CHOOSE f : f = Body(f)
<1>1. L \in Nat /\ \A k \in 1..L : s[k] \in Item
  BY LenProperties, ElementOfSeq
<1>2. w \in [1..L -> Nat]
  BY <1>1, ItemFacts
<1>3. PICK f \in [0..L -> Nat] : f[0] = 0 /\ \A n \in 1..L : f[n] = f[n - 1] + w[n]
  <2> HIDE DEF L, w
  <2> QED BY <1>1, <1>2, SumExists
<1>4. f = Body(f)
  <2>1. \A k \in 0..L : f[k] = IF k = 0 THEN 0 ELSE f[k - 1] + ItemBytes(s[k])
    BY <1>1, <1>3
  <2> QED BY <1>3, <2>1
<1>5. F = Body(F)
  <2> HIDE DEF Body
  <2> QED BY <1>4
<1>6. \A n \in 0..L : BytesBefore(s, n) = F[n]
  BY DEF BytesBefore
<1>7. F[0] = 0 /\ \A n \in 1..L : F[n] = F[n - 1] + ItemBytes(s[n])
  <2> HIDE DEF F
  <2> QED BY <1>1, <1>5
<1>8. \A n \in 0..L : F[n] \in Nat
  <2> DEFINE T == {n \in Nat : n <= L => F[n] \in Nat}
  <2> HIDE DEF F
  <2>1. 0 \in T
    BY <1>7
  <2>2. ASSUME NEW n \in Nat, n \in T
        PROVE  n + 1 \in T
    <3>1. CASE n + 1 <= L
      <4>1. n + 1 \in 1..L /\ (n + 1) - 1 = n /\ F[n] \in Nat
        BY <1>1, <2>2, <3>1
      <4>2. ItemBytes(s[n + 1]) \in Nat
        BY <1>1, <4>1, ItemFacts
      <4>3. F[n + 1] \in Nat
        BY <1>7, <4>1, <4>2
      <4> QED BY <4>3
    <3>2. CASE ~(n + 1 <= L)
      BY <3>2
    <3> QED BY <3>1, <3>2
  <2>3. Nat \subseteq T
    <3> HIDE DEF T
    <3> QED BY <2>1, <2>2, SetInduction
  <2> QED BY <1>1, <2>3
<1>9. 0 \in 0..L /\ \A n \in 1..L : n \in 0..L /\ n - 1 \in 0..L
  BY <1>1
<1> HIDE DEF F
<1> QED BY <1>6, <1>7, <1>8, <1>9

(* More items of a track have no fewer bytes.                              *)
LEMMA BytesGrow ==
    ASSUME NEW s \in Seq(Item), NEW i \in 0..Len(s), NEW j \in 0..Len(s), i <= j
    PROVE  BytesBefore(s, i) <= BytesBefore(s, j)
<1>1. Len(s) \in Nat /\ \A k \in 1..Len(s) : ItemBytes(s[k]) \in Nat
  BY LenProperties, ElementOfSeq, ItemFacts
<1>2. PICK f : f = [n \in 0..Len(s) |-> BytesBefore(s, n)]
  OBVIOUS
<1>3. \A n \in 0..Len(s) : f[n] \in Nat
  BY <1>2, BytesStep
<1>4. \A n \in (0 + 1)..Len(s) : f[n - 1] <= f[n]
  <2> TAKE n \in (0 + 1)..Len(s)
  <2>1. n \in 1..Len(s) /\ n - 1 \in 0..Len(s) /\ n \in 0..Len(s)
    BY <1>1
  <2>2. f[n] = f[n - 1] + ItemBytes(s[n])
    BY <1>2, <2>1, BytesStep
  <2>3. f[n] \in Nat /\ f[n - 1] \in Nat /\ ItemBytes(s[n]) \in Nat
    BY <1>1, <1>3, <2>1
  <2> QED BY <2>2, <2>3
<1>5. f[i] <= f[j]
  BY <1>1, <1>3, <1>4, SumGrows
<1> QED BY <1>2, <1>5

(* The declared length of a track is a number of bytes.                    *)
LEMMA TrackBytesType ==
    ASSUME file \in Files, NEW t \in 1..Len(file.tracks)
    PROVE  TrackBytes(t) \in Nat
<1>1. PICK s : s = file.tracks[t].items /\ s \in Seq(Item) /\ Len(s) \in Nat
  BY FileFacts
<1>2. Len(s) \in 0..Len(s)
  BY <1>1
<1> QED BY <1>1, <1>2, BytesStep DEF TrackBytes

(* A chunk starts where the one before ends. *)
LEMMA ChunkStep ==
    ASSUME file \in Files
    PROVE  /\ \A t \in 1..(Len(file.tracks) + 1) : ChunkStart(t) \in Nat
           /\ ChunkStart(1) = HeaderBytes
           /\ \A t \in 1..Len(file.tracks) :
                 /\ ChunkStart(t + 1) = ChunkStart(t) + ChunkHead + TrackBytes(t)
                 /\ BodyStart(t) = ChunkStart(t) + ChunkHead
                 /\ BodyStart(t) + TrackBytes(t) = ChunkStart(t + 1)
<1> DEFINE N == Len(file.tracks)
           w == [k \in 1..N |-> ChunkHead + TrackBytes(k)]
           Body(f) == [k \in 1..(N + 1) |->
                         IF k = 1 THEN HeaderBytes ELSE f[k - 1] + ChunkHead + TrackBytes(k - 1)]
           F == CHOOSE f : f = Body(f)
<1>1. N \in Nat /\ ChunkHead = 8 /\ HeaderBytes = 14
  BY FileFacts DEF ChunkHead, HeaderBytes
<1>2. \A k \in 1..N : TrackBytes(k) \in Nat
  BY TrackBytesType
<1>3. w \in [1..N -> Nat]
  BY <1>1, <1>2
<1>4. PICK g \in [0..N -> Nat] : g[0] = 0 /\ \A n \in 1..N : g[n] = g[n - 1] + w[n]
  <2> HIDE DEF N, w
  <2> QED BY <1>1, <1>3, SumExists
<1>5. PICK f : f = [k \in 1..(N + 1) |-> HeaderBytes + g[k - 1]]
  OBVIOUS
<1>6. f = Body(f)
  <2>1. \A k \in 1..(N + 1) :
           f[k] = IF k = 1 THEN HeaderBytes ELSE f[k - 1] + ChunkHead + TrackBytes(k - 1)
    <3> TAKE k \in 1..(N + 1)
    <3>1. CASE k = 1
      BY <1>1, <1>4, <1>5, <3>1
    <3>2. CASE k # 1
      <4>1. k - 1 \in 1..N /\ k - 1 \in 1..(N + 1) /\ (k - 1) - 1 \in 0..N
        BY <1>1, <3>2
      <4>2. g[k - 1] = g[(k - 1) - 1] + (ChunkHead + TrackBytes(k - 1))
        BY <1>4, <4>1
      <4>3. f[k] = HeaderBytes + g[k - 1] /\ f[k - 1] = HeaderBytes + g[(k - 1) - 1]
        BY <1>5, <4>1
      <4>4. g[(k - 1) - 1] \in Nat /\ TrackBytes(k - 1) \in Nat
        BY <1>2, <1>4, <4>1
      <4>5. g[k - 1] \in Nat
        BY <1>4, <4>1
      <4>6. f[k] = f[k - 1] + ChunkHead + TrackBytes(k - 1)
        <5>1. PICK a, b, c : a = g[k - 1] /\ b = g[(k - 1) - 1] /\ c = TrackBytes(k - 1)
          OBVIOUS
        <5>2. a \in Nat /\ b \in Nat /\ c \in Nat
          BY <4>4, <4>5, <5>1
        <5>3. a = b + (8 + c) /\ f[k] = 14 + a /\ f[k - 1] = 14 + b
          BY <1>1, <4>2, <4>3, <5>1
        <5>4. f[k] = f[k - 1] + 8 + c
          BY <5>2, <5>3
        <5> QED BY <1>1, <5>1, <5>4
      <4> QED BY <3>2, <4>6
    <3> QED BY <3>1, <3>2
  <2> HIDE DEF N
  <2> QED BY <1>5, <2>1
<1>7. F = Body(F)
  <2> HIDE DEF Body
  <2> QED BY <1>6
<1>8. \A t \in 1..(N + 1) : ChunkStart(t) = F[t]
  BY DEF ChunkStart
<1>9. F[1] = HeaderBytes /\ \A t \in 1..N : F[t + 1] = F[t] + ChunkHead + TrackBytes(t)
  <2> HIDE DEF F
  <2>1. 1 \in 1..(N + 1)
    BY <1>1
  <2>2. F[1] = HeaderBytes
    BY <1>7, <2>1
  <2>3. ASSUME NEW t \in 1..N
        PROVE  F[t + 1] = F[t] + ChunkHead + TrackBytes(t)
    <3>1. t + 1 \in 1..(N + 1) /\ t + 1 # 1 /\ (t + 1) - 1 = t
      BY <1>1
    <3> QED BY <1>7, <3>1
  <2> QED BY <2>2, <2>3
<1>10. \A t \in 1..(N + 1) : F[t] \in Nat
  <2> DEFINE T == {n \in Nat : n <= N => F[n + 1] \in Nat}
  <2> HIDE DEF F
  <2>1. 0 \in T
    BY <1>1, <1>9
  <2>2. ASSUME NEW n \in Nat, n \in T
        PROVE  n + 1 \in T
    <3>1. CASE n + 1 <= N
      <4>1. n + 1 \in 1..N /\ F[n + 1] \in Nat
        BY <1>1, <2>2, <3>1
      <4>2. F[(n + 1) + 1] \in Nat
        BY <1>1, <1>2, <1>9, <4>1
      <4> QED BY <4>2
    <3>2. CASE ~(n + 1 <= N)
      BY <3>2
    <3> QED BY <3>1, <3>2
  <2>3. Nat \subseteq T
    <3> HIDE DEF T
    <3> QED BY <2>1, <2>2, SetInduction
  <2>4. ASSUME NEW t \in 1..(N + 1)
        PROVE  F[t] \in Nat
    <3>1. t - 1 \in Nat /\ t - 1 <= N /\ (t - 1) + 1 = t
      BY <1>1
    <3>2. t - 1 \in T
      BY <2>3, <3>1
    <3> QED BY <3>1, <3>2
  <2> QED BY <2>4
<1>11. ASSUME NEW t \in 1..N
       PROVE  /\ ChunkStart(t + 1) = ChunkStart(t) + ChunkHead + TrackBytes(t)
              /\ BodyStart(t) = ChunkStart(t) + ChunkHead
              /\ BodyStart(t) + TrackBytes(t) = ChunkStart(t + 1)
  <2> HIDE DEF F
  <2>1. t \in 1..(N + 1) /\ t + 1 \in 1..(N + 1)
    BY <1>1
  <2>2. ChunkStart(t + 1) = F[t + 1] /\ ChunkStart(t) = F[t]
    BY <1>8, <2>1
  <2>3. F[t + 1] = F[t] + ChunkHead + TrackBytes(t)
    BY <1>9
  <2> QED BY <2>2, <2>3 DEF BodyStart
<1>12. 1 \in 1..(N + 1)
  BY <1>1
<1> HIDE DEF F
<1> QED BY <1>8, <1>9, <1>10, <1>11, <1>12

(* The chunk of a later track starts no earlier.                           *)
LEMMA ChunksGrow ==
    ASSUME file \in Files,
           NEW t \in 1..(Len(file.tracks) + 1), NEW u \in 1..(Len(file.tracks) + 1), t <= u
    PROVE  ChunkStart(t) <= ChunkStart(u)
<1> DEFINE N == Len(file.tracks)
<1>1. N \in Nat /\ N + 1 \in Nat /\ 1 \in Nat /\ ChunkHead = 8
  BY FileFacts DEF ChunkHead
<1>2. PICK f : f = [k \in 1..(N + 1) |-> ChunkStart(k)]
  OBVIOUS
<1>3. \A k \in 1..(N + 1) : f[k] \in Nat
  BY <1>2, ChunkStep
<1>4. \A k \in (1 + 1)..(N + 1) : f[k - 1] <= f[k]
  <2> TAKE k \in (1 + 1)..(N + 1)
  <2>1. k - 1 \in 1..N /\ (k - 1) + 1 = k /\ k - 1 \in 1..(N + 1) /\ k \in 1..(N + 1)
    BY <1>1
  <2>2. ChunkStart(k) = ChunkStart(k - 1) + ChunkHead + TrackBytes(k - 1)
    BY <2>1, ChunkStep
  <2>3. TrackBytes(k - 1) \in Nat
    BY <2>1, TrackBytesType
  <2>4. f[k] = f[k - 1] + ChunkHead + TrackBytes(k - 1)
    BY <1>2, <2>1, <2>2
  <2>5. f[k] \in Nat /\ f[k - 1] \in Nat
    BY <1>3, <2>1
  <2> QED BY <1>1, <2>3, <2>4, <2>5
<1>5. f[t] <= f[u]
  <2> HIDE DEF N
  <2>1. t \in 1..(N + 1) /\ u \in 1..(N + 1)
    BY DEF N
  <2> QED BY <1>1, <1>3, <1>4, <2>1, SumGrows
<1> QED BY <1>2, <1>5

Earlier(p, q) == p[1] < q[1] \/ (p[1] = q[1] /\ p[2] < q[2])

(* What a position is: a track of the file and an item of that track.      *)
LEMMA PositionFacts ==
    ASSUME file \in Files, NEW p \in Positions
    PROVE  /\ p[1] \in 1..Len(file.tracks) /\ p[1] \in Nat /\ p[1] + 1 \in 1..(Len(file.tracks) + 1)
           /\ p[2] \in 1..Len(file.tracks[p[1]].items) /\ p[2] \in Nat
           /\ p = <<p[1], p[2]>> /\ p \in Nat \X Nat
           /\ ItemAt(p) = file.tracks[p[1]].items[p[2]] /\ ItemAt(p) \in Item
<1>1. PICK t \in 1..Len(file.tracks) : \E i \in DOMAIN file.tracks[t].items : p = <<t, i>>
  BY FileFacts DEF Positions
<1>2. PICK i \in 1..Len(file.tracks[t].items) : p = <<t, i>>
  BY <1>1, FileFacts
<1>3. t \in Nat /\ i \in Nat /\ t + 1 \in 1..(Len(file.tracks) + 1)
  BY FileFacts
<1>4. p[1] = t /\ p[2] = i
  BY <1>2
<1>5. file.tracks[t].items[i] \in Item
  BY FileFacts
<1> QED BY <1>2, <1>3, <1>4, <1>5 DEF ItemAt

(* Every item of every track has a position.                               *)
LEMMA InPositions ==
    ASSUME file \in Files, NEW t \in 1..Len(file.tracks),
           NEW i \in 1..Len(file.tracks[t].items)
    PROVE  <<t, i>> \in Positions
<1>1. t \in DOMAIN file.tracks /\ i \in DOMAIN file.tracks[t].items
  BY FileFacts
<1> QED BY <1>1 DEF Positions

(* An item lies within the body of its chunk. *)
LEMMA StartInChunk ==
    ASSUME file \in Files, NEW p \in Positions
    PROVE  /\ StartOf(p) \in Nat /\ EventAt(p) = StartOf(p) + ItemAt(p).delta
           /\ ChunkStart(p[1]) + ChunkHead <= StartOf(p)
           /\ StartOf(p) + ItemBytes(ItemAt(p)) <= ChunkStart(p[1] + 1)
<1> DEFINE t == p[1]
           s == file.tracks[t].items
           n == p[2]
<1>1. /\ t \in 1..Len(file.tracks) /\ t \in 1..(Len(file.tracks) + 1) /\ t + 1 \in 1..(Len(file.tracks) + 1)
      /\ s \in Seq(Item) /\ n \in 1..Len(s) /\ Len(s) \in Nat /\ ItemAt(p) = s[n] /\ ItemAt(p) \in Item
  BY PositionFacts, FileFacts
<1>2. /\ ChunkStart(t) \in Nat /\ ChunkStart(t + 1) \in Nat /\ BodyStart(t) = ChunkStart(t) + ChunkHead
      /\ BodyStart(t) + TrackBytes(t) = ChunkStart(t + 1)
  BY <1>1, ChunkStep
<1> HIDE DEF s, n
<1>3. n - 1 \in 0..Len(s) /\ n \in 0..Len(s) /\ Len(s) \in 0..Len(s) /\ n <= Len(s)
  BY <1>1
<1>4. /\ BytesBefore(s, n - 1) \in Nat /\ BytesBefore(s, n) \in Nat /\ BytesBefore(s, Len(s)) \in Nat
      /\ BytesBefore(s, n) = BytesBefore(s, n - 1) + ItemBytes(s[n])
      /\ BytesBefore(s, n) <= BytesBefore(s, Len(s))
  BY <1>1, <1>3, BytesStep, BytesGrow
<1>5. StartOf(p) = BodyStart(t) + BytesBefore(s, n - 1)
  BY DEF StartOf, s, n
<1>6. TrackBytes(t) = BytesBefore(s, Len(s))
  BY DEF TrackBytes, s
<1>7. ItemBytes(ItemAt(p)) \in Nat /\ ChunkHead = 8
  BY <1>1, ItemFacts DEF ChunkHead
<1>8. EventAt(p) = StartOf(p) + ItemAt(p).delta
  BY DEF EventAt
<1>9. PICK a, b, c, d, e : /\ a = ChunkStart(t) /\ b = BytesBefore(s, n - 1)
                           /\ c = BytesBefore(s, n) /\ d = BytesBefore(s, Len(s)) /\ e = ItemBytes(ItemAt(p))
  OBVIOUS
<1>10. /\ a \in Nat /\ b \in Nat /\ c \in Nat /\ d \in Nat /\ e \in Nat
       /\ c = b + e /\ c <= d /\ StartOf(p) = (a + 8) + b /\ ChunkStart(t + 1) = (a + 8) + d
  BY <1>1, <1>2, <1>4, <1>5, <1>6, <1>7, <1>9
<1>11. StartOf(p) \in Nat /\ a + 8 <= StartOf(p) /\ StartOf(p) + e <= ChunkStart(t + 1)
  BY <1>10
<1> QED BY <1>7, <1>8, <1>9, <1>11

(* ... and behind the ones before it. *)
LEMMA StartsInOrder ==
    ASSUME file \in Files, NEW p \in Positions, NEW q \in Positions, Earlier(p, q)
    PROVE  StartOf(p) + ItemBytes(ItemAt(p)) <= StartOf(q)
<1>1. /\ StartOf(p) \in Nat /\ StartOf(q) \in Nat /\ ItemBytes(ItemAt(p)) \in Nat
      /\ StartOf(p) + ItemBytes(ItemAt(p)) <= ChunkStart(p[1] + 1)
      /\ ChunkStart(q[1]) + ChunkHead <= StartOf(q) /\ ChunkHead = 8
  BY StartInChunk, PositionFacts, ItemFacts DEF ChunkHead
<1>2. CASE p[1] < q[1]
  <2>1. /\ p[1] + 1 \in 1..(Len(file.tracks) + 1) /\ q[1] \in 1..(Len(file.tracks) + 1)
        /\ p[1] + 1 <= q[1]
    BY <1>2, PositionFacts, FileFacts
  <2>2. ChunkStart(p[1] + 1) <= ChunkStart(q[1]) /\ ChunkStart(p[1] + 1) \in Nat /\ ChunkStart(q[1]) \in Nat
    BY <2>1, ChunksGrow, ChunkStep
  <2> QED BY <1>1, <2>2
<1>3. CASE p[1] = q[1] /\ p[2] < q[2]
  <2>1. PICK t, s, i, j : t = p[1] /\ s = file.tracks[t].items /\ i = p[2] /\ j = q[2]
    OBVIOUS
  <2>2. /\ t \in 1..Len(file.tracks) /\ s \in Seq(Item) /\ Len(s) \in Nat
        /\ i \in 1..Len(s) /\ j \in 1..Len(s) /\ ItemAt(p) = s[i]
    BY <1>3, <2>1, PositionFacts, FileFacts
  <2>3. i - 1 \in 0..Len(s) /\ i \in 0..Len(s) /\ j - 1 \in 0..Len(s) /\ i <= j - 1
    <3>1. i < j
      BY <1>3, <2>1
    <3> QED BY <2>2, <3>1
  <2>4. /\ BytesBefore(s, i) = BytesBefore(s, i - 1) + ItemBytes(s[i])
        /\ BytesBefore(s, i) <= BytesBefore(s, j - 1)
        /\ BytesBefore(s, i - 1) \in Nat /\ BytesBefore(s, i) \in Nat /\ BytesBefore(s, j - 1) \in Nat
    BY <2>2, <2>3, BytesStep, BytesGrow
  <2>5. StartOf(p) = BodyStart(t) + BytesBefore(s, i - 1) /\ StartOf(q) = BodyStart(t) + BytesBefore(s, j - 1)
    BY <1>3, <2>1 DEF StartOf
  <2>6. BodyStart(t) \in Nat
    <3>1. t \in 1..(Len(file.tracks) + 1)
      BY <2>2, FileFacts
    <3>2. ChunkStart(t) \in Nat /\ BodyStart(t) = ChunkStart(t) + 8
      BY <1>1, <2>2, <3>1, ChunkStep
    <3> QED BY <3>2
  <2>7. ItemBytes(s[i]) = ItemBytes(ItemAt(p))
    BY <2>2
  <2> QED BY <1>1, <2>4, <2>5, <2>6, <2>7
<1> QED BY <1>2, <1>3 DEF Earlier

--------------------------------------------------------------------------------
(* A file has finitely many items.                                         *)
LEMMA PositionsFinite ==
    ASSUME file \in Files
    PROVE  IsFiniteSet(Positions)
<1> DEFINE Of(t) == {<<t, i>> : i \in DOMAIN file.tracks[t].items}
           All == {Of(t) : t \in DOMAIN file.tracks}
<1>1. DOMAIN file.tracks = 1..Len(file.tracks) /\ Len(file.tracks) \in Nat
  BY FileFacts
<1>2. ASSUME NEW t \in DOMAIN file.tracks
      PROVE  IsFiniteSet(Of(t))
  <2>1. /\ DOMAIN file.tracks[t].items = 1..Len(file.tracks[t].items)
        /\ Len(file.tracks[t].items) \in Nat
    BY <1>1, FileFacts
  <2>2. IsFiniteSet(DOMAIN file.tracks[t].items)
    BY <2>1, FS_Interval
  <2>3. PICK f : f = [i \in DOMAIN file.tracks[t].items |-> <<t, i>>]
    OBVIOUS
  <2>4. Of(t) = {f[i] : i \in DOMAIN f} /\ IsFiniteSet(DOMAIN f)
    BY <2>2, <2>3
  <2>5. f \in Surjection(DOMAIN f, Of(t))
    BY <2>3, <2>4 DEF Surjection
  <2> QED BY <2>4, <2>5, FS_Surjection
<1>3. IsFiniteSet(All)
  <2>1. IsFiniteSet(DOMAIN file.tracks)
    BY <1>1, FS_Interval
  <2>2. PICK f : f = [t \in DOMAIN file.tracks |-> Of(t)]
    OBVIOUS
  <2>3. f \in Surjection(DOMAIN file.tracks, All)
    BY <2>2 DEF Surjection
  <2> QED BY <2>1, <2>3, FS_Surjection
<1>4. Positions = UNION All
  BY DEF Positions
<1> HIDE DEF Of
<1>5. \A S \in All : IsFiniteSet(S)
  BY <1>2
<1> HIDE DEF All
<1> QED BY <1>3, <1>4, <1>5, FS_UNION

(* Any items that a parser reads are finitely many, and so are the notes   *)
(* among them.                                                             *)
LEMMA ReadByFinite ==
    ASSUME file \in Files, NEW m, NEW S, S \subseteq ReadBy(m)
    PROVE  /\ S \subseteq Positions /\ IsFiniteSet(S) /\ Cardinality(S) \in Nat
           /\ IsFiniteSet(Notes(S)) /\ Cardinality(Notes(S)) \in Nat
<1>1. S \subseteq Positions
  BY DEF ReadBy
<1>2. IsFiniteSet(S)
  BY <1>1, PositionsFinite, FS_Subset
<1>3. IsFiniteSet(Notes(S))
  BY <1>2, FS_Subset DEF Notes
<1> QED BY <1>1, <1>2, <1>3, FS_CardinalityType

(* There are n numbers from 1 to n.                                        *)
LEMMA CountToN ==
    ASSUME NEW n \in Nat
    PROVE  IsFiniteSet(1..n) /\ Cardinality(1..n) = n
<1>1. 1 \in Int /\ n \in Int
  OBVIOUS
<1>2. IsFiniteSet(1..n) /\ Cardinality(1..n) = IF 1 > n THEN 0 ELSE n - 1 + 1
  BY <1>1, FS_Interval
<1> QED BY <1>2

(* Finitely many items carry finitely many bytes of text.                  *)
LEMMA TextsFinite ==
    ASSUME file \in Files, NEW S, S \subseteq Positions, IsFiniteSet(S)
    PROVE  IsFiniteSet(Texts(S)) /\ Cardinality(Texts(S)) \in Nat
<1> DEFINE Of(p) == {p} \X (1..TextOf(ItemAt(p)))
           All == {Of(p) : p \in S}
<1>1. ASSUME NEW p \in S
      PROVE  IsFiniteSet(Of(p))
  <2>1. TextOf(ItemAt(p)) \in Nat
    BY PositionFacts, ItemFacts
  <2>2. IsFiniteSet(1..TextOf(ItemAt(p))) /\ IsFiniteSet({p})
    BY <2>1, CountToN, FS_Singleton
  <2> QED BY <2>2, FS_Product
<1>2. IsFiniteSet(All)
  <2>1. PICK f : f = [p \in S |-> Of(p)]
    OBVIOUS
  <2>2. f \in Surjection(S, All)
    BY <2>1 DEF Surjection
  <2> QED BY <2>2, FS_Surjection
<1>3. Texts(S) = UNION All
  BY DEF Texts
<1> HIDE DEF Of
<1>4. \A T \in All : IsFiniteSet(T)
  BY <1>1
<1> HIDE DEF All
<1> QED BY <1>2, <1>3, <1>4, FS_UNION, FS_CardinalityType

(* What one more item adds to the counts. *)
LEMMA OneMore ==
    ASSUME file \in Files, NEW S, S \subseteq Positions, NEW p \in Positions \ S
    PROVE  /\ Cardinality(S \cup {p}) = Cardinality(S) + 1
           /\ Cardinality(Notes(S \cup {p})) = Cardinality(Notes(S)) + NotesOf(ItemAt(p))
           /\ Cardinality(Texts(S \cup {p})) = Cardinality(Texts(S)) + TextOf(ItemAt(p))
<1>1. IsFiniteSet(S) /\ IsFiniteSet(Notes(S)) /\ IsFiniteSet(Texts(S))
  <2>1. IsFiniteSet(S)
    BY PositionsFinite, FS_Subset
  <2>2. IsFiniteSet(Notes(S))
    BY <2>1, FS_Subset DEF Notes
  <2> QED BY <2>1, <2>2, TextsFinite
<1>2. Cardinality(S \cup {p}) = Cardinality(S) + 1
  BY <1>1, FS_AddElement
<1>3. Cardinality(Notes(S \cup {p})) = Cardinality(Notes(S)) + NotesOf(ItemAt(p))
  <2>1. CASE ItemAt(p).kind = "note"
    <3>1. Notes(S \cup {p}) = Notes(S) \cup {p} /\ p \notin Notes(S)
      BY <2>1 DEF Notes
    <3>2. NotesOf(ItemAt(p)) = 1
      BY <2>1 DEF NotesOf
    <3> QED BY <1>1, <3>1, <3>2, FS_AddElement
  <2>2. CASE ItemAt(p).kind # "note"
    <3>1. Notes(S \cup {p}) = Notes(S) /\ NotesOf(ItemAt(p)) = 0
      BY <2>2 DEF Notes, NotesOf
    <3>2. Cardinality(Notes(S)) \in Nat
      BY <1>1, FS_CardinalityType
    <3> QED BY <3>1, <3>2
  <2> QED BY <2>1, <2>2
<1>4. Cardinality(Texts(S \cup {p})) = Cardinality(Texts(S)) + TextOf(ItemAt(p))
  <2>1. PICK n, A, B : n = TextOf(ItemAt(p)) /\ A = Texts(S) /\ B = {p} \X (1..n)
    OBVIOUS
  <2>2. n \in Nat
    BY <2>1, PositionFacts, ItemFacts
  <2>3. Texts(S \cup {p}) = A \cup B
    BY <2>1 DEF Texts
  <2>4. A \cap B = {}
    BY <2>1 DEF Texts
  <2>5. IsFiniteSet(B) /\ Cardinality(B) = n
    <3>1. /\ IsFiniteSet({p}) /\ Cardinality({p}) = 1
          /\ IsFiniteSet(1..n) /\ Cardinality(1..n) = n
      BY <2>2, FS_Singleton, CountToN
    <3>2. PICK C, D : C = {p} /\ D = 1..n
      OBVIOUS
    <3>3. IsFiniteSet(C \X D) /\ Cardinality(C \X D) = Cardinality(C) * Cardinality(D)
      BY <3>1, <3>2, FS_Product
    <3>4. B = C \X D /\ Cardinality(C) = 1 /\ Cardinality(D) = n
      BY <2>1, <3>1, <3>2
    <3> QED BY <2>2, <3>3, <3>4
  <2>6. Cardinality(A \cup B) = Cardinality(A) + Cardinality(B) - Cardinality({})
    BY <1>1, <2>1, <2>4, <2>5, FS_Union
  <2>7. Cardinality({}) = 0 /\ Cardinality(A) \in Nat
    BY <1>1, <2>1, FS_EmptySet, FS_CardinalityType
  <2>8. Cardinality(A \cup B) = Cardinality(A) + n
    BY <2>2, <2>5, <2>6, <2>7
  <2> QED BY <2>1, <2>3, <2>8
<1> QED BY <1>2, <1>3, <1>4

(* More items hold no fewer events, notes and text bytes.                  *)
LEMMA CountsGrow ==
    ASSUME file \in Files, NEW S, NEW T, S \subseteq T, T \subseteq Positions
    PROVE  /\ Cardinality(S) <= Cardinality(T) /\ Cardinality(S) \in Nat /\ Cardinality(T) \in Nat
           /\ Cardinality(Notes(S)) <= Cardinality(Notes(T))
           /\ Cardinality(Notes(S)) \in Nat /\ Cardinality(Notes(T)) \in Nat
           /\ Cardinality(Texts(S)) <= Cardinality(Texts(T))
           /\ Cardinality(Texts(S)) \in Nat /\ Cardinality(Texts(T)) \in Nat
<1>1. IsFiniteSet(T) /\ IsFiniteSet(Notes(T)) /\ IsFiniteSet(Texts(T))
  <2>1. IsFiniteSet(T)
    BY PositionsFinite, FS_Subset
  <2>2. IsFiniteSet(Notes(T))
    BY <2>1, FS_Subset DEF Notes
  <2> QED BY <2>1, <2>2, TextsFinite
<1>2. S \in SUBSET T /\ Notes(S) \in SUBSET Notes(T) /\ Texts(S) \in SUBSET Texts(T)
  BY DEF Notes, Texts
<1>3. IsFiniteSet(S) /\ Cardinality(S) <= Cardinality(T)
  BY <1>1, <1>2, FS_Subset
<1>4. IsFiniteSet(Notes(S)) /\ Cardinality(Notes(S)) <= Cardinality(Notes(T))
  BY <1>1, <1>2, FS_Subset
<1>5. IsFiniteSet(Texts(S)) /\ Cardinality(Texts(S)) <= Cardinality(Texts(T))
  BY <1>1, <1>2, FS_Subset
<1> QED BY <1>1, <1>3, <1>4, <1>5, FS_CardinalityType

(* No items hold no events, notes and text bytes.                          *)
LEMMA CountsOfNone ==
    /\ Cardinality({}) = 0 /\ Notes({}) = {} /\ Texts({}) = {}
<1>1. Notes({}) = {} /\ Texts({}) = {}
  BY DEF Notes, Texts
<1> QED BY <1>1, FS_EmptySet

--------------------------------------------------------------------------------
(* A sequence lists a set of places in the order of the file. *)
Lists(s, S) ==
    /\ s \in Seq(S)
    /\ \A p \in S : \E i \in 1..Len(s) : s[i] = p
    /\ \A i, j \in 1..Len(s) : i < j => Earlier(s[i], s[j])

(* The empty sequence lists no place.                                      *)
LEMMA ListsNothing == Lists(<<>>, {})
<1>1. <<>> \in Seq({}) /\ Len(<<>>) = 0
  OBVIOUS
<1> QED BY <1>1 DEF Lists

(* A place behind all listed ones is listed by appending it.               *)
LEMMA ListsOneMore ==
    ASSUME NEW s, NEW S, Lists(s, S), NEW p, \A q \in S : Earlier(q, p)
    PROVE  Lists(Append(s, p), S \cup {p})
<1>1. s \in Seq(S) /\ Len(s) \in Nat /\ \A i \in 1..Len(s) : s[i] \in S
  BY LenProperties, ElementOfSeq DEF Lists
<1>2. PICK r : r = Append(s, p)
  OBVIOUS
<1>3. r \in Seq(S \cup {p}) /\ Len(r) = Len(s) + 1 /\ r[Len(s) + 1] = p
      /\ \A i \in 1..Len(s) : r[i] = s[i]
  <2>1. s \in Seq(S \cup {p}) /\ p \in S \cup {p}
    BY <1>1
  <2> QED BY <1>1, <1>2, <2>1, AppendProperties
<1>4. ASSUME NEW q \in S \cup {p}
      PROVE  \E i \in 1..Len(r) : r[i] = q
  <2>1. CASE q \in S
    <3>1. PICK i \in 1..Len(s) : s[i] = q
      BY <2>1 DEF Lists
    <3>2. i \in 1..Len(r) /\ r[i] = q
      BY <1>1, <1>3, <3>1
    <3> QED BY <3>2
  <2>2. CASE q = p
    <3>1. Len(s) + 1 \in 1..Len(r)
      BY <1>1, <1>3
    <3> QED BY <1>3, <2>2, <3>1
  <2> QED BY <2>1, <2>2
<1>5. ASSUME NEW i \in 1..Len(r), NEW j \in 1..Len(r), i < j
      PROVE  Earlier(r[i], r[j])
  <2>1. i \in 1..Len(s) /\ r[i] = s[i] /\ s[i] \in S
    BY <1>1, <1>3, <1>5
  <2>2. CASE j \in 1..Len(s)
    <3>1. r[j] = s[j] /\ Earlier(s[i], s[j])
      BY <1>3, <1>5, <2>1, <2>2 DEF Lists
    <3> QED BY <2>1, <3>1
  <2>3. CASE j \notin 1..Len(s)
    <3>1. j = Len(s) + 1
      BY <1>1, <1>3, <2>3
    <3> QED BY <1>3, <2>1, <3>1
  <2> QED BY <2>2, <2>3
<1> QED BY <1>2, <1>3, <1>4, <1>5 DEF Lists

(* Places are in a strict order... *)
LEMMA EarlierIsStrict ==
    ASSUME NEW p \in Nat \X Nat, NEW q \in Nat \X Nat, NEW r \in Nat \X Nat
    PROVE  ~Earlier(p, p) /\ (Earlier(p, q) /\ Earlier(q, r) => Earlier(p, r))
<1>1. p[1] \in Nat /\ p[2] \in Nat /\ q[1] \in Nat /\ q[2] \in Nat /\ r[1] \in Nat /\ r[2] \in Nat
  OBVIOUS
<1> QED BY <1>1 DEF Earlier

(* ... so that a set of them is listed in one way. *)
LEMMA ListsUnique ==
    ASSUME NEW S \in SUBSET (Nat \X Nat), NEW s, NEW r, Lists(s, S), Lists(r, S)
    PROVE  s = r
<1> DEFINE Alike(a, b, k) == k \in 1..Len(a) => k \in 1..Len(b) /\ a[k] = b[k]
           T == {k \in Nat : \A n \in 1..k : Alike(s, r, n) /\ Alike(r, s, n)}
<1>1. /\ s \in Seq(S) /\ Len(s) \in Nat /\ \A i \in 1..Len(s) : s[i] \in S /\ s[i] \in Nat \X Nat
      /\ r \in Seq(S) /\ Len(r) \in Nat /\ \A i \in 1..Len(r) : r[i] \in S /\ r[i] \in Nat \X Nat
  BY LenProperties, ElementOfSeq DEF Lists
<1>2. ASSUME NEW a, NEW b, Lists(a, S), Lists(b, S), NEW k \in Nat \ {0},
             \A n \in 1..(k - 1) : Alike(a, b, n) /\ Alike(b, a, n)
      PROVE  Alike(a, b, k)
  <2> SUFFICES ASSUME k \in 1..Len(a)
               PROVE  k \in 1..Len(b) /\ a[k] = b[k]
    OBVIOUS
  <2>1. /\ Len(a) \in Nat /\ \A i \in 1..Len(a) : a[i] \in S /\ a[i] \in Nat \X Nat
        /\ Len(b) \in Nat /\ \A i \in 1..Len(b) : b[i] \in S /\ b[i] \in Nat \X Nat
    BY <1>2, LenProperties, ElementOfSeq DEF Lists
  <2>2. PICK j \in 1..Len(b) : b[j] = a[k]
    BY <1>2, <2>1 DEF Lists
  <2>3. ~(j < k)
    <3> SUFFICES ASSUME j < k
                 PROVE  FALSE
      OBVIOUS
    <3>1. j \in 1..(k - 1) /\ j \in 1..Len(a)
      BY <2>1
    <3>2. b[j] = a[j]
      BY <1>2, <3>1
    <3>3. Earlier(a[j], a[k])
      BY <1>2, <3>1 DEF Lists
    <3> QED BY <2>1, <2>2, <3>2, <3>3, EarlierIsStrict
  <2>4. k \in 1..Len(b)
    BY <2>1, <2>3
  <2>5. PICK i \in 1..Len(a) : a[i] = b[k]
    BY <1>2, <2>1, <2>4 DEF Lists
  <2>6. ~(i < k)
    <3> SUFFICES ASSUME i < k
                 PROVE  FALSE
      OBVIOUS
    <3>1. i \in 1..(k - 1) /\ i \in 1..Len(b)
      BY <2>1, <2>4
    <3>2. b[i] = a[i]
      BY <1>2, <3>1
    <3>3. Earlier(b[i], b[k])
      BY <1>2, <2>4, <3>1 DEF Lists
    <3> QED BY <2>1, <2>4, <2>5, <3>2, <3>3, EarlierIsStrict
  <2>7. CASE j = k
    BY <2>2, <2>4, <2>7
  <2>8. CASE j # k
    <3>1. k < j
      BY <2>1, <2>3, <2>8
    <3>2. Earlier(b[k], b[j])
      BY <1>2, <2>4, <3>1 DEF Lists
    <3>3. Earlier(a[i], a[k])
      BY <2>2, <2>5, <3>2
    <3>4. CASE i = k
      BY <2>1, <3>3, <3>4, EarlierIsStrict
    <3>5. CASE i # k
      <4>1. k < i
        BY <2>1, <2>6, <3>5
      <4>2. Earlier(a[k], a[i])
        BY <1>2, <4>1 DEF Lists
      <4> QED BY <2>1, <3>3, <4>2, EarlierIsStrict
    <3> QED BY <3>4, <3>5
  <2> QED BY <2>7, <2>8
<1>3. \A k \in Nat : k \in T
  <2>1. 0 \in T
    OBVIOUS
  <2>2. ASSUME NEW k \in Nat, k \in T
        PROVE  k + 1 \in T
    <3>1. k + 1 \in Nat \ {0} /\ (k + 1) - 1 = k
      OBVIOUS
    <3>2. \A n \in 1..((k + 1) - 1) : Alike(s, r, n) /\ Alike(r, s, n)
      BY <2>2, <3>1
    <3>3. \A n \in 1..((k + 1) - 1) : Alike(r, s, n) /\ Alike(s, r, n)
      BY <3>2
    <3> HIDE DEF Alike
    <3>4. Alike(s, r, k + 1)
      BY <1>2, <3>1, <3>2
    <3>5. Alike(r, s, k + 1)
      BY <1>2, <3>1, <3>3
    <3>6. \A n \in 1..(k + 1) : n \in 1..k \/ n = k + 1
      OBVIOUS
    <3> QED BY <2>2, <3>4, <3>5, <3>6
  <2>3. Nat \subseteq T
    <3> HIDE DEF T
    <3> QED BY <2>1, <2>2, SetInduction
  <2> QED BY <2>3
<1>4. \A n \in Nat \ {0} : Alike(s, r, n) /\ Alike(r, s, n)
  <2> TAKE n \in Nat \ {0}
  <2>1. n \in Nat /\ n \in 1..n
    OBVIOUS
  <2>2. n \in T
    BY <1>3, <2>1
  <2> HIDE DEF Alike
  <2> QED BY <2>1, <2>2
<1>5. Len(s) = Len(r)
  <2>1. Len(s) # 0 => Len(s) \in 1..Len(r)
    BY <1>1, <1>4
  <2>2. Len(r) # 0 => Len(r) \in 1..Len(s)
    BY <1>1, <1>4
  <2> QED BY <1>1, <2>1, <2>2
<1>6. \A i \in 1..Len(s) : s[i] = r[i]
  BY <1>1, <1>4
<1> QED BY <1>1, <1>5, <1>6, SeqEqual

(* The items a parser reads before item i of track t. *)
Behind(m, t, i) == {p \in ReadBy(m) : p[1] < t \/ (p[1] = t /\ p[2] < i)}

Heard(S) == {p \in S : ItemAt(p).kind # "eot"}

(* A parser has counted and applied just these items. *)
Charged(m, S) ==
    /\ events[m] = Cardinality(S)
    /\ noteStarts[m] = Cardinality(Notes(S))
    /\ textBytes[m] = Cardinality(Texts(S))
    /\ Lists(applied[m], Heard(S))

WithinBudget(m) ==
    /\ ~Exceeds(m, "events", events[m])
    /\ ~Exceeds(m, "noteStarts", noteStarts[m])
    /\ ~Exceeds(m, "textBytes", textBytes[m])

(* What a parser that goes on has found in order. *)
ItemSound(m, p) ==
    /\ ItemAt(p).kind # "fault"
    /\ m = "strict" /\ ItemAt(p).kind = "eot" =>
          ItemAt(p).text = 0 /\ p[2] = Len(file.tracks[p[1]].items)
ChunkSound(m, t) ==
    /\ file.badTag # t /\ file.cut # t
    /\ ~Exceeds(m, "trackBytes", TrackBytes(t))
TrackSound(m, t) ==
    /\ ChunkSound(m, t)
    /\ m = "strict" => \E p \in ReadBy(m) : p[1] = t /\ ItemAt(p).kind = "eot"

Passed(m, t, i) ==
    /\ Charged(m, Behind(m, t, i)) /\ WithinBudget(m)
    /\ \A p \in Behind(m, t, i) : ItemSound(m, p)

EotBefore(t, i) == \E j \in 1..(i - 1) : file.tracks[t].items[j].kind = "eot"

(* A parser in front of the header, of a chunk, or in one. *)
AtInput(m) == offset[m] = 0 /\ track[m] = 1 /\ Passed(m, 1, 1)

AtChunk(m) ==
    /\ Failing(HeaderChecks(m)) = {}
    /\ track[m] \in 1..(Len(file.tracks) + 1)
    /\ \A t \in 1..(track[m] - 1) : TrackSound(m, t)
    /\ offset[m] = ChunkStart(track[m])
    /\ Passed(m, track[m], 1)

BeforeItem(m, t, i) ==
    /\ i \in 1..(Len(file.tracks[t].items) + 1)
    /\ offset[m] = BodyStart(t) + BytesBefore(file.tracks[t].items, i - 1)
    /\ Passed(m, t, i)

BehindEot(m, t, i) ==
    /\ StopAtEndOfTrack(m)
    /\ i \in 1..Len(file.tracks[t].items) /\ file.tracks[t].items[i].kind = "eot"
    /\ offset[m] = ChunkStart(t + 1)
    /\ Passed(m, t, i + 1)

AtEvents(m) ==
    /\ Failing(HeaderChecks(m)) = {}
    /\ track[m] \in 1..Len(file.tracks)
    /\ \A t \in 1..(track[m] - 1) : TrackSound(m, t)
    /\ ChunkSound(m, track[m])
    /\ StopAtEndOfTrack(m) => ~EotBefore(track[m], item[m])
    /\ IF sawEot[m] THEN BehindEot(m, track[m], item[m]) ELSE BeforeItem(m, track[m], item[m])

At(m, s) ==
    \/ s = "input" /\ AtInput(m)
    \/ s = "chunk" /\ AtChunk(m)
    \/ s = "events" /\ AtEvents(m)

(* The checks that decide there whether it goes on. *)
More(m) == ~sawEot[m] /\ item[m] <= Len(Items(m))

CloseChecks(m) ==
    <<Check(RequireEndOfTrack(m) /\ ~sawEot[m], "MissingEndOfTrack", offset[m])>>
FinishChecks(m) ==
    <<Check(RejectTrailingBytes(m) /\ file.trailing # 0, "TrailingBytes", offset[m])>>

ChecksAt(m, s) ==
    IF s = "input" THEN HeaderChecks(m)
    ELSE IF s = "chunk" THEN IF track[m] <= file.declared THEN ChunkChecks(m) ELSE FinishChecks(m)
    ELSE IF ~More(m) THEN CloseChecks(m)
    ELSE IF StopsHere(m) THEN EotChecks(m) ELSE EventChecks(m)

FirstOf(checks) ==
    LET first == checks[Min(Failing(checks))]
    IN  [kind |-> first.kind, offset |-> first.offset]

(* It answered there: with the first check that fails, or at the end. *)
AnsweredAt(m, s) ==
    IF Failing(ChecksAt(m, s)) # {} THEN outcome[m] = FirstOf(ChecksAt(m, s))
    ELSE s = "chunk" /\ track[m] > file.declared /\ outcome[m] = Ok

ParserInv(m) ==
    IF stage[m] = "done" THEN \E s \in {"input", "chunk", "events"} : At(m, s) /\ AnsweredAt(m, s)
    ELSE At(m, stage[m]) /\ outcome[m] = Pending

IsOn(f) == f = [m \in Modes |-> f[m]]

Shape ==
    /\ file \in Files /\ limits \in Limits
    /\ stage \in [Modes -> {"input", "chunk", "events", "done"}]
    /\ IsOn(offset) /\ IsOn(track) /\ IsOn(item) /\ IsOn(sawEot) /\ IsOn(events)
    /\ IsOn(noteStarts) /\ IsOn(textBytes) /\ IsOn(applied) /\ IsOn(outcome)

(* A parser has not begun before the ones in front of it have answered. *)
InTurn ==
    \A i, j \in 1..4 : i < j /\ stage[Parsers[i]] # "done" => stage[Parsers[j]] = "input"

IInv == Shape /\ InTurn /\ \A m \in Modes : ParserInv(m)

--------------------------------------------------------------------------------
(* The file and the limits stay, and all that is said of them alone. *)
Stays == file' = file /\ limits' = limits

(* Steps leave the file and the limits alone, and with them everything     *)
(* that is defined from these two only.                                    *)
LEMMA SameFile ==
    ASSUME Stays
    PROVE  /\ \A m : (ReadBy(m)' = ReadBy(m)) /\ (HeaderChecks(m)' = HeaderChecks(m))
           /\ \A m, t, i : Behind(m, t, i)' = Behind(m, t, i)
           /\ \A S : /\ Notes(S)' = Notes(S) /\ Texts(S)' = Texts(S) /\ Heard(S)' = Heard(S)
           /\ \A m, r, n : Exceeds(m, r, n)' = Exceeds(m, r, n)
           /\ \A m, p : ItemSound(m, p)' = ItemSound(m, p)
           /\ \A m, t : ChunkSound(m, t)' = ChunkSound(m, t) /\ TrackSound(m, t)' = TrackSound(m, t)
           /\ \A t : /\ ChunkStart(t)' = ChunkStart(t) /\ BodyStart(t)' = BodyStart(t)
                     /\ TrackBytes(t)' = TrackBytes(t)
           /\ \A t, i : EotBefore(t, i)' = EotBefore(t, i)
<1>1. \A t : TrackBytes(t)' = TrackBytes(t)
  BY DEF Stays, TrackBytes
<1>2. \A t : ChunkStart(t)' = ChunkStart(t)
  BY DEF Stays, ChunkStart, TrackBytes, BytesBefore
<1>3. \A t : BodyStart(t)' = BodyStart(t)
  BY <1>2 DEF BodyStart
<1>4. \A m : ReadBy(m)' = ReadBy(m)
  BY DEF Stays, ReadBy, Positions, ItemAt
<1>5. \A m, t, i : Behind(m, t, i)' = Behind(m, t, i)
  BY <1>4 DEF Behind
<1>6. \A S : Notes(S)' = Notes(S) /\ Texts(S)' = Texts(S) /\ Heard(S)' = Heard(S)
  BY DEF Stays, Notes, Texts, Heard, ItemAt
<1>7. \A m, r, n : Exceeds(m, r, n)' = Exceeds(m, r, n)
  BY DEF Stays, Exceeds
<1>8. \A m, p : ItemSound(m, p)' = ItemSound(m, p)
  BY DEF Stays, ItemSound, ItemAt
<1>9. \A m, t : ChunkSound(m, t)' = ChunkSound(m, t)
  BY <1>1, <1>7 DEF Stays, ChunkSound
<1>10. \A m, t : TrackSound(m, t)' = TrackSound(m, t)
  BY <1>4, <1>9 DEF Stays, TrackSound, ItemAt
<1>11. \A t, i : EotBefore(t, i)' = EotBefore(t, i)
  BY DEF Stays, EotBefore
<1>12. \A m : HeaderChecks(m)' = HeaderChecks(m)
  <2>1. FileEnd' = FileEnd
    BY <1>2 DEF Stays, FileEnd
  <2>2. InputBytes' = InputBytes
    BY <2>1 DEF Stays, InputBytes
  <2> QED BY <1>7, <2>2 DEF Stays, HeaderChecks
<1> QED BY <1>1, <1>2, <1>3, <1>4, <1>5, <1>6, <1>7, <1>8, <1>9, <1>10, <1>11, <1>12

(* A parser that does not move stays where it is. *)
Rests(m) ==
    /\ Stays
    /\ offset'[m] = offset[m] /\ track'[m] = track[m] /\ item'[m] = item[m] /\ sawEot'[m] = sawEot[m]
    /\ events'[m] = events[m] /\ noteStarts'[m] = noteStarts[m]
    /\ textBytes'[m] = textBytes[m] /\ applied'[m] = applied[m]

(* A parser that rests is where it was, before the same checks.            *)
LEMMA RestKeeps ==
    ASSUME NEW m, Rests(m)
    PROVE  /\ \A s : (At(m, s)' <=> At(m, s)) /\ ChecksAt(m, s)' = ChecksAt(m, s)
<1>1. \A t, i : Passed(m, t, i)' <=> Passed(m, t, i)
  <2>1. \A S : Charged(m, S)' <=> Charged(m, S)
    BY SameFile DEF Rests, Charged, Lists, Earlier
  <2>2. WithinBudget(m)' <=> WithinBudget(m)
    BY SameFile DEF Rests, WithinBudget
  <2> QED BY <2>1, <2>2, SameFile DEF Rests, Passed
<1>2. AtInput(m)' <=> AtInput(m)
  BY <1>1 DEF Rests, AtInput
<1>3. Failing(HeaderChecks(m))' = Failing(HeaderChecks(m))
  BY SameFile DEF Rests, Failing
<1>4. AtChunk(m)' <=> AtChunk(m)
  BY <1>1, <1>3, SameFile DEF Rests, Stays, AtChunk
<1>5. AtEvents(m)' <=> AtEvents(m)
  <2>1. /\ track'[m] = track[m] /\ item'[m] = item[m] /\ sawEot'[m] = sawEot[m]
        /\ offset'[m] = offset[m] /\ file' = file
    BY DEF Rests, Stays
  <2>2. \A t, i : BeforeItem(m, t, i)' <=> BeforeItem(m, t, i)
    BY <1>1, <2>1, SameFile DEF Rests, BeforeItem, BytesBefore
  <2>3. \A t, i : BehindEot(m, t, i)' <=> BehindEot(m, t, i)
    BY <1>1, <2>1, SameFile DEF Rests, BehindEot
  <2>4. /\ \A t : ChunkSound(m, t)' = ChunkSound(m, t) /\ TrackSound(m, t)' = TrackSound(m, t)
        /\ \A t, i : EotBefore(t, i)' = EotBefore(t, i)
    BY SameFile DEF Rests
  <2> QED BY <1>3, <2>1, <2>2, <2>3, <2>4 DEF AtEvents
<1>6. More(m)' <=> More(m)
  BY DEF Rests, Stays, More, Items
<1>7. StopsHere(m)' <=> StopsHere(m)
  BY DEF Rests, Stays, StopsHere, Current, Items
<1>8. Current(m)' = Current(m) /\ Len(Items(m))' = Len(Items(m)) /\ EventOffset(m)' = EventOffset(m)
  BY DEF Rests, Stays, Current, Items, EventOffset
<1>9. /\ HeaderChecks(m)' = HeaderChecks(m) /\ ChunkChecks(m)' = ChunkChecks(m)
      /\ FinishChecks(m)' = FinishChecks(m) /\ CloseChecks(m)' = CloseChecks(m)
      /\ EotChecks(m)' = EotChecks(m) /\ EventChecks(m)' = EventChecks(m)
  <2>1. HeaderChecks(m)' = HeaderChecks(m)
    BY SameFile DEF Rests
  <2>2. ChunkChecks(m)' = ChunkChecks(m)
    BY SameFile DEF Rests, Stays, ChunkChecks
  <2>3. FinishChecks(m)' = FinishChecks(m)
    BY DEF Rests, Stays, FinishChecks
  <2>4. CloseChecks(m)' = CloseChecks(m)
    BY DEF Rests, Stays, CloseChecks
  <2>5. EotChecks(m)' = EotChecks(m)
    BY <1>8, SameFile DEF Rests, Stays, EotChecks
  <2>6. EventChecks(m)' = EventChecks(m)
    BY <1>8, SameFile DEF Rests, Stays, EventChecks
  <2> QED BY <2>1, <2>2, <2>3, <2>4, <2>5, <2>6
<1> QED BY <1>2, <1>4, <1>5, <1>6, <1>7, <1>9 DEF Rests, Stays, At, ChecksAt

(* The four parsers by name.                                               *)
LEMMA ModesAre == Modes = {"trusted", "bounded", "compatible", "strict"}
<1>1. DOMAIN Parsers = 1..4
  BY DEF Parsers
<1>2. Modes = {Parsers[i] : i \in 1..4}
  BY <1>1 DEF Modes
<1>3. /\ Parsers[1] = "trusted" /\ Parsers[2] = "bounded"
      /\ Parsers[3] = "compatible" /\ Parsers[4] = "strict"
  BY DEF Parsers
<1> QED BY <1>2, <1>3

(* The flags of the grammars, parser by parser.                            *)
LEMMA Grammars ==
    /\ \A m \in Modes : StopAtEndOfTrack(m) <=> m \in {"compatible", "strict"}
    /\ \A m \in Modes : RequireEndOfTrack(m) <=> m = "strict"
    /\ \A m \in Modes : RejectTrailingBytes(m) <=> m = "strict"
    /\ \A m \in Modes : ValidateDivision(m) <=> m = "strict"
BY DEF StopAtEndOfTrack, RequireEndOfTrack, RejectTrailingBytes, ValidateDivision

(* The first of some checks that fail. *)
LEMMA FirstFails ==
    ASSUME NEW checks, NEW n \in Nat, DOMAIN checks = 1..n, Failing(checks) # {}
    PROVE  /\ Min(Failing(checks)) \in Failing(checks)
           /\ \A k \in Failing(checks) : Min(Failing(checks)) <= k
<1>1. Failing(checks) \subseteq Nat
  BY DEF Failing
<1>2. \E k \in Failing(checks) : \A j \in Failing(checks) : k <= j
  BY <1>1, LeastNumber
<1> QED BY <1>2 DEF Min

(* The step of a parser concerns no other. *)
Answers(m) ==
    /\ Rests(m)
    /\ \E s \in {"input", "chunk", "events"} :
          /\ stage[m] = s /\ stage'[m] = "done"
          /\ outcome'[m] = IF Failing(ChecksAt(m, s)) # {} THEN FirstOf(ChecksAt(m, s)) ELSE Ok
          /\ Failing(ChecksAt(m, s)) = {} => s = "chunk" /\ track[m] > file.declared

(* A parser that answers keeps its invariant: it answers with the first    *)
(* check that fails, or with Ok at the end of the file.                    *)
LEMMA AnswerKeeps ==
    ASSUME NEW m \in Modes, ParserInv(m), Answers(m)
    PROVE  ParserInv(m)'
<1>1. PICK s \in {"input", "chunk", "events"} :
          /\ stage[m] = s /\ stage'[m] = "done"
          /\ outcome'[m] = IF Failing(ChecksAt(m, s)) # {} THEN FirstOf(ChecksAt(m, s)) ELSE Ok
          /\ Failing(ChecksAt(m, s)) = {} => s = "chunk" /\ track[m] > file.declared
  BY DEF Answers
<1>2. At(m, s)
  BY <1>1 DEF ParserInv
<1>3. Rests(m)
  BY DEF Answers
<1>4. At(m, s)' /\ ChecksAt(m, s)' = ChecksAt(m, s)
  BY <1>2, <1>3, RestKeeps
<1>5. Failing(ChecksAt(m, s))' = Failing(ChecksAt(m, s)) /\ FirstOf(ChecksAt(m, s))' = FirstOf(ChecksAt(m, s))
  BY <1>4 DEF Failing, FirstOf
<1>6. file' = file /\ track'[m] = track[m]
  BY <1>3 DEF Rests, Stays
<1>7. AnsweredAt(m, s)'
  BY <1>1, <1>5, <1>6 DEF AnsweredAt, Ok
<1> QED BY <1>1, <1>4, <1>7 DEF ParserInv

(* A parser that another one leaves alone keeps its invariant.             *)
LEMMA RestKeepsInv ==
    ASSUME NEW m \in Modes, ParserInv(m), Rests(m), stage'[m] = stage[m], outcome'[m] = outcome[m]
    PROVE  ParserInv(m)'
<1>1. \A s : (At(m, s)' <=> At(m, s)) /\ ChecksAt(m, s)' = ChecksAt(m, s)
  BY RestKeeps
<1>2. ASSUME NEW s
      PROVE  AnsweredAt(m, s)' <=> AnsweredAt(m, s)
  <2>1. ChecksAt(m, s)' = ChecksAt(m, s)
    BY <1>1
  <2>2. /\ Failing(ChecksAt(m, s))' = Failing(ChecksAt(m, s))
        /\ FirstOf(ChecksAt(m, s))' = FirstOf(ChecksAt(m, s))
    BY <2>1 DEF Failing, FirstOf
  <2>3. file' = file /\ track'[m] = track[m]
    BY DEF Rests, Stays
  <2> QED BY <2>2, <2>3 DEF AnsweredAt, Ok
<1> QED BY <1>1, <1>2 DEF ParserInv, Pending

--------------------------------------------------------------------------------
(* The places of a parser that follow each other. *)
LEMMA NothingBehind ==
    ASSUME file \in Files, NEW m
    PROVE  Behind(m, 1, 1) = {}
<1> SUFFICES ASSUME NEW p \in Behind(m, 1, 1)
             PROVE  FALSE
  OBVIOUS
<1>1. p \in Positions /\ (p[1] < 1 \/ (p[1] = 1 /\ p[2] < 1))
  BY DEF Behind, ReadBy
<1>2. p[1] \in 1..Len(file.tracks) /\ p[2] \in 1..Len(file.tracks[p[1]].items) /\ p[1] \in Nat /\ p[2] \in Nat
  BY <1>1, PositionFacts
<1> QED BY <1>1, <1>2

(* Reading the item at <<t, i>> puts just this item behind the parser,     *)
(* after all the others.                                                   *)
LEMMA BehindNext ==
    ASSUME file \in Files, NEW m \in Modes, NEW t \in 1..Len(file.tracks),
           NEW i \in 1..Len(file.tracks[t].items), StopAtEndOfTrack(m) => ~EotBefore(t, i)
    PROVE  /\ <<t, i>> \in ReadBy(m) /\ <<t, i>> \notin Behind(m, t, i)
           /\ Behind(m, t, i + 1) = Behind(m, t, i) \cup {<<t, i>>}
           /\ \A q \in Behind(m, t, i) : Earlier(q, <<t, i>>)
<1>1. <<t, i>> \in Positions /\ t \in Nat /\ i \in Nat
  BY InPositions, FileFacts
<1>2. <<t, i>>[1] = t /\ <<t, i>>[2] = i
  OBVIOUS
<1>3. <<t, i>> \in ReadBy(m)
  <2>1. m \in {"compatible", "strict"} => \A j \in 1..(i - 1) : ItemAt(<<t, j>>).kind # "eot"
    BY Grammars DEF EotBefore, ItemAt
  <2> QED BY <1>1, <1>2, <2>1 DEF ReadBy
<1>4. <<t, i>> \notin Behind(m, t, i)
  BY <1>1, <1>2 DEF Behind
<1>5. ASSUME NEW q \in ReadBy(m)
      PROVE  q \in Behind(m, t, i + 1) <=> q \in Behind(m, t, i) \/ q = <<t, i>>
  <2>1. q \in Positions
    BY DEF ReadBy
  <2>2. q = <<q[1], q[2]>> /\ q[1] \in Nat /\ q[2] \in Nat
    BY <2>1, PositionFacts
  <2>3. q[2] < i + 1 <=> q[2] < i \/ q[2] = i
    BY <1>1, <2>2
  <2> QED BY <1>1, <2>2, <2>3 DEF Behind
<1>6. Behind(m, t, i + 1) = Behind(m, t, i) \cup {<<t, i>>}
  <2>1. Behind(m, t, i + 1) \subseteq ReadBy(m) /\ Behind(m, t, i) \subseteq ReadBy(m)
    BY DEF Behind
  <2> QED BY <1>3, <1>5, <2>1
<1>7. \A q \in Behind(m, t, i) : Earlier(q, <<t, i>>)
  BY <1>2 DEF Behind, Earlier
<1> QED BY <1>3, <1>4, <1>6, <1>7

(* A track is behind once it is read up to its end, or its End-of-Track. *)
LEMMA BehindTrack ==
    ASSUME file \in Files, NEW m \in Modes, NEW t \in 1..Len(file.tracks), NEW i \in Nat,
           \/ i > Len(file.tracks[t].items)
           \/ StopAtEndOfTrack(m) /\ i > 1 /\ i - 1 \in 1..Len(file.tracks[t].items)
              /\ file.tracks[t].items[i - 1].kind = "eot"
    PROVE  Behind(m, t + 1, 1) = Behind(m, t, i)
<1>1. t \in Nat /\ Len(file.tracks[t].items) \in Nat
  BY FileFacts
<1>2. ASSUME NEW q \in ReadBy(m)
      PROVE  q \in Behind(m, t + 1, 1) <=> q \in Behind(m, t, i)
  <2>1. q \in Positions
    BY DEF ReadBy
  <2>2. q = <<q[1], q[2]>> /\ q[1] \in Nat /\ q[2] \in 1..Len(file.tracks[q[1]].items) /\ q[2] \in Nat
    BY <2>1, PositionFacts
  <2>3. q[1] = t => q[2] < i
    <3>1. CASE i > Len(file.tracks[t].items)
      BY <1>1, <2>2, <3>1
    <3>2. CASE StopAtEndOfTrack(m) /\ i > 1 /\ i - 1 \in 1..Len(file.tracks[t].items)
               /\ file.tracks[t].items[i - 1].kind = "eot"
      <4> SUFFICES ASSUME q[1] = t, ~(q[2] < i)
                   PROVE  FALSE
        OBVIOUS
      <4>1. i - 1 \in 1..(q[2] - 1)
        BY <1>1, <2>2, <3>2
      <4>2. ItemAt(<<q[1], i - 1>>).kind # "eot"
        BY <3>2, <4>1, Grammars DEF ReadBy
      <4> QED BY <3>2, <4>2 DEF ItemAt
    <3> QED BY <3>1, <3>2
  <2>4. (q[1] < t + 1 \/ (q[1] = t + 1 /\ q[2] < 1)) <=> q[1] <= t
    BY <1>1, <2>2
  <2>5. q[1] <= t <=> q[1] < t \/ q[1] = t
    BY <1>1, <2>2
  <2> QED BY <2>3, <2>4, <2>5 DEF Behind
<1> QED BY <1>2 DEF Behind

(* A step of one parser, and of no other. *)
Only(m) ==
    /\ Shape'
    /\ Stays
    /\ \A n \in Modes \ {m} : Rests(n) /\ stage'[n] = stage[n] /\ outcome'[n] = outcome[n]

Places == {"input", "chunk", "events", "done"}

(* End ends one parser and leaves every other alone.                       *)
LEMMA EndIsOwn ==
    ASSUME Shape, NEW m \in Modes, NEW answer, End(m, answer)
    PROVE  Only(m) /\ Rests(m) /\ stage'[m] = "done" /\ outcome'[m] = answer
<1>1. /\ UNCHANGED <<file, limits, offset, track, item, sawEot, events, noteStarts, textBytes, applied>>
      /\ stage' = [stage EXCEPT ![m] = "done"] /\ outcome' = [outcome EXCEPT ![m] = answer]
  BY DEF End, cursors, budget
<1>2. stage' \in [Modes -> Places] /\ stage'[m] = "done" /\ \A n \in Modes \ {m} : stage'[n] = stage[n]
  BY <1>1 DEF Shape, Places
<1>3. IsOn(outcome') /\ outcome'[m] = answer /\ \A n \in Modes \ {m} : outcome'[n] = outcome[n]
  BY <1>1 DEF Shape, IsOn
<1>4. Shape'
  BY <1>1, <1>2, <1>3 DEF Shape, Places, IsOn
<1>5. \A n : Rests(n)
  BY <1>1 DEF Rests, Stays
<1> QED BY <1>1, <1>2, <1>3, <1>4, <1>5 DEF Only, Stays

(* End is an answer when it carries the first failing check of the place,  *)
(* or Ok where no check is left to fail.                                   *)
LEMMA EndAnswers ==
    ASSUME Shape, NEW m \in Modes, NEW s \in {"input", "chunk", "events"}, stage[m] = s, NEW answer,
           End(m, answer),
           answer = IF Failing(ChecksAt(m, s)) # {} THEN FirstOf(ChecksAt(m, s)) ELSE Ok,
           Failing(ChecksAt(m, s)) = {} => s = "chunk" /\ track[m] > file.declared
    PROVE  Only(m) /\ Answers(m)
BY EndIsOwn DEF Answers

(* A parser that goes on changes its own state alone. *)
Touches(m, f, g) == g = [f EXCEPT ![m] = g[m]]

(* A function that one parser touches is the same at every other.          *)
LEMMA Touched ==
    ASSUME NEW m \in Modes, NEW f, NEW g, IsOn(f), Touches(m, f, g)
    PROVE  IsOn(g) /\ \A o \in Modes \ {m} : g[o] = f[o]
BY DEF Touches, IsOn

(* Goto, with the updates beside it, moves one parser and leaves every     *)
(* other alone.                                                            *)
LEMMA GotoIsOwn ==
    ASSUME Shape, NEW m \in Modes, NEW s \in Places, NEW at, Goto(m, s, at),
           Touches(m, track, track'), Touches(m, item, item'), Touches(m, sawEot, sawEot'),
           Touches(m, events, events'), Touches(m, noteStarts, noteStarts'),
           Touches(m, textBytes, textBytes'), Touches(m, applied, applied')
    PROVE  Only(m) /\ stage'[m] = s /\ offset'[m] = at /\ outcome'[m] = outcome[m]
<1>1. /\ file' = file /\ limits' = limits /\ outcome' = outcome
      /\ stage' = [stage EXCEPT ![m] = s] /\ offset' = [offset EXCEPT ![m] = at]
  BY DEF Goto
<1>2. stage' \in [Modes -> Places] /\ stage'[m] = s /\ \A o \in Modes \ {m} : stage'[o] = stage[o]
  BY <1>1 DEF Shape, Places
<1>3. IsOn(offset') /\ offset'[m] = at /\ \A o \in Modes \ {m} : offset'[o] = offset[o]
  BY <1>1 DEF Shape, IsOn
<1>4. IsOn(track') /\ \A o \in Modes \ {m} : track'[o] = track[o]
  BY Touched DEF Shape
<1>5. IsOn(item') /\ \A o \in Modes \ {m} : item'[o] = item[o]
  BY Touched DEF Shape
<1>6. IsOn(sawEot') /\ \A o \in Modes \ {m} : sawEot'[o] = sawEot[o]
  BY Touched DEF Shape
<1>7. IsOn(events') /\ \A o \in Modes \ {m} : events'[o] = events[o]
  BY Touched DEF Shape
<1>8. IsOn(noteStarts') /\ \A o \in Modes \ {m} : noteStarts'[o] = noteStarts[o]
  BY Touched DEF Shape
<1>9. IsOn(textBytes') /\ \A o \in Modes \ {m} : textBytes'[o] = textBytes[o]
  BY Touched DEF Shape
<1>10. IsOn(applied') /\ \A o \in Modes \ {m} : applied'[o] = applied[o]
  BY Touched DEF Shape
<1>11. Shape'
  BY <1>1, <1>2, <1>3, <1>4, <1>5, <1>6, <1>7, <1>8, <1>9, <1>10 DEF Shape, Places, IsOn
<1>12. \A o \in Modes \ {m} : Rests(o)
  BY <1>1, <1>3, <1>4, <1>5, <1>6, <1>7, <1>8, <1>9, <1>10 DEF Rests, Stays
<1> QED BY <1>1, <1>2, <1>3, <1>11, <1>12 DEF Only, Stays

(* What is charged stays charged if the counters and the list do. *)
LEMMA PassedStays ==
    ASSUME NEW m, Stays, events'[m] = events[m], noteStarts'[m] = noteStarts[m],
           textBytes'[m] = textBytes[m], applied'[m] = applied[m]
    PROVE  \A t, i : Passed(m, t, i)' <=> Passed(m, t, i)
<1>1. \A S : Charged(m, S)' <=> Charged(m, S)
  BY SameFile DEF Charged, Lists, Earlier
<1>2. WithinBudget(m)' <=> WithinBudget(m)
  BY SameFile DEF WithinBudget
<1> QED BY <1>1, <1>2, SameFile DEF Passed

(* The header step keeps the invariant of its parser: it refuses with the  *)
(* first failing check, or goes to the first chunk with nothing read.      *)
LEMMA HeaderStep ==
    ASSUME Shape, NEW m \in Modes, ParserInv(m), Header(m)
    PROVE  Only(m) /\ ParserInv(m)'
<1>1. stage[m] = "input" /\ At(m, "input") /\ AtInput(m) /\ outcome[m] = Pending
  BY DEF Header, ParserInv, At
<1>2. CASE Failing(HeaderChecks(m)) # {}
  <2>1. ChecksAt(m, "input") = HeaderChecks(m)
    BY DEF ChecksAt
  <2>2. End(m, FirstOf(ChecksAt(m, "input")))
    BY <1>2, <2>1 DEF Header, Refuse, FirstOf
  <2>3. Only(m) /\ Answers(m)
    BY <1>1, <1>2, <2>1, <2>2, EndAnswers
  <2> QED BY <2>3, AnswerKeeps
<1>3. CASE Failing(HeaderChecks(m)) = {}
  <2>1. /\ Goto(m, "chunk", HeaderBytes)
        /\ UNCHANGED <<track, item, sawEot, events, noteStarts, textBytes, applied>>
    BY <1>3 DEF Header, budget
  <2>2. /\ Touches(m, track, track') /\ Touches(m, item, item') /\ Touches(m, sawEot, sawEot')
        /\ Touches(m, events, events') /\ Touches(m, noteStarts, noteStarts')
        /\ Touches(m, textBytes, textBytes') /\ Touches(m, applied, applied')
    BY <2>1 DEF Shape, Touches, IsOn
  <2>3. "chunk" \in Places
    BY DEF Places
  <2>4. /\ Only(m) /\ stage'[m] = "chunk" /\ offset'[m] = HeaderBytes /\ track'[m] = track[m]
        /\ events'[m] = events[m] /\ noteStarts'[m] = noteStarts[m]
        /\ textBytes'[m] = textBytes[m] /\ applied'[m] = applied[m]
        /\ outcome'[m] = outcome[m]
    BY <2>1, <2>2, <2>3, GotoIsOwn
  <2>5. Stays /\ file \in Files /\ file' = file
    BY <2>4 DEF Only, Stays, Shape
  <2>6. Failing(HeaderChecks(m))' = {}
    BY <1>3, <2>5, SameFile DEF Failing
  <2>7. track'[m] = 1 /\ Passed(m, 1, 1)'
    BY <1>1, <2>4, <2>5, PassedStays DEF AtInput
  <2>8. offset'[m] = ChunkStart(1)'
    BY <2>4, <2>5, SameFile, ChunkStep
  <2>9. 1 \in 1..(Len(file'.tracks) + 1)
    BY <2>5, FileFacts
  <2>10. AtChunk(m)'
    BY <2>6, <2>7, <2>8, <2>9 DEF AtChunk
  <2> QED BY <1>1, <2>4, <2>10 DEF ParserInv, At, Pending
<1> QED BY <1>2, <1>3

(* The heads of the chunks: what is not missing and passes is a sound chunk. *)
LEMMA ChunkPasses ==
    ASSUME file \in Files, limits \in Limits, NEW m \in Modes, track[m] \in Nat \ {0}, Failing(ChunkChecks(m)) = {}
    PROVE  track[m] \in 1..Len(file.tracks) /\ ChunkSound(m, track[m])
<1> DEFINE c == ChunkChecks(m)
<1>1. DOMAIN c = 1..4
  BY DEF ChunkChecks
<1>2. ~c[1].fails /\ ~c[2].fails /\ ~c[3].fails /\ ~c[4].fails
  BY <1>1 DEF Failing
<1>3. ~(track[m] > Len(file.tracks))
  BY <1>2 DEF ChunkChecks, Check
<1>4. file.badTag # track[m] /\ ~Exceeds(m, "trackBytes", TrackBytes(track[m])) /\ file.cut # track[m]
  BY <1>2, <1>3 DEF ChunkChecks, Check
<1>5. track[m] \in 1..Len(file.tracks)
  BY <1>3, FileFacts
<1> QED BY <1>4, <1>5 DEF ChunkSound

(* The chunk head: the chunk it enters is sound, and its first item is     *)
(* next.                                                                   *)
LEMMA ChunkHeaderStep ==
    ASSUME Shape, NEW m \in Modes, ParserInv(m), ChunkHeader(m)
    PROVE  Only(m) /\ ParserInv(m)'
<1>1. stage[m] = "chunk" /\ At(m, "chunk") /\ AtChunk(m) /\ outcome[m] = Pending /\ track[m] <= file.declared
  BY DEF ChunkHeader, ParserInv, At
<1>2. CASE Failing(ChunkChecks(m)) # {}
  <2>1. ChecksAt(m, "chunk") = ChunkChecks(m)
    BY <1>1 DEF ChecksAt
  <2>2. End(m, FirstOf(ChecksAt(m, "chunk")))
    BY <1>2, <2>1 DEF ChunkHeader, Refuse, FirstOf
  <2>3. Only(m) /\ Answers(m)
    BY <1>1, <1>2, <2>1, <2>2, EndAnswers
  <2> QED BY <2>3, AnswerKeeps
<1>3. CASE Failing(ChunkChecks(m)) = {}
  <2>1. /\ Goto(m, "events", offset[m] + ChunkHead)
        /\ item' = [item EXCEPT ![m] = 1] /\ sawEot' = [sawEot EXCEPT ![m] = FALSE]
        /\ UNCHANGED <<track, events, noteStarts, textBytes, applied>>
    BY <1>3 DEF ChunkHeader, budget
  <2>2. /\ Touches(m, track, track') /\ Touches(m, item, item') /\ Touches(m, sawEot, sawEot')
        /\ Touches(m, events, events') /\ Touches(m, noteStarts, noteStarts')
        /\ Touches(m, textBytes, textBytes') /\ Touches(m, applied, applied')
        /\ item'[m] = 1 /\ sawEot'[m] = FALSE
    BY <2>1 DEF Shape, Touches, IsOn
  <2>3. "events" \in Places
    BY DEF Places
  <2>4. /\ Only(m) /\ stage'[m] = "events" /\ offset'[m] = offset[m] + ChunkHead
        /\ track'[m] = track[m] /\ item'[m] = 1 /\ sawEot'[m] = FALSE
        /\ events'[m] = events[m] /\ noteStarts'[m] = noteStarts[m]
        /\ textBytes'[m] = textBytes[m] /\ applied'[m] = applied[m]
        /\ outcome'[m] = outcome[m]
    BY <2>1, <2>2, <2>3, GotoIsOwn
  <2>5. Stays /\ file \in Files /\ limits \in Limits /\ file' = file
    BY <2>4 DEF Only, Stays, Shape
  <2>6. Failing(HeaderChecks(m))' = {}
    BY <1>1, <2>5, SameFile DEF Failing, AtChunk
  <2>7. PICK t : t = track[m]
    OBVIOUS
  <2>8. /\ t \in 1..Len(file.tracks) /\ ChunkSound(m, t) /\ t \in 1..(Len(file.tracks) + 1)
        /\ \A u \in 1..(t - 1) : TrackSound(m, u)
        /\ offset[m] = ChunkStart(t) /\ Passed(m, t, 1)
    <3>1. t \in Nat \ {0} /\ t \in 1..(Len(file.tracks) + 1)
      BY <1>1, <2>5, <2>7, FileFacts DEF AtChunk
    <3> QED BY <1>1, <1>3, <2>5, <2>7, <3>1, ChunkPasses DEF AtChunk
  <2>9. Passed(m, t, 1)' /\ ChunkSound(m, t)' /\ \A u \in 1..(t - 1) : TrackSound(m, u)'
    BY <2>4, <2>5, <2>8, PassedStays, SameFile
  <2>10. offset'[m] = BodyStart(t)' + BytesBefore(file'.tracks[t].items, 1 - 1)
    <3>1. file.tracks[t].items \in Seq(Item) /\ BodyStart(t) = ChunkStart(t) + ChunkHead
      BY <2>5, <2>8, FileFacts, ChunkStep
    <3>2. BytesBefore(file.tracks[t].items, 0) = 0
      BY <3>1, BytesStep
    <3>3. ChunkStart(t) \in Nat /\ ChunkHead = 8
      BY <2>5, <2>8, ChunkStep DEF ChunkHead
    <3>4. BodyStart(t)' = BodyStart(t)
      BY <2>5, SameFile
    <3> QED BY <2>4, <2>5, <2>8, <3>1, <3>2, <3>3, <3>4
  <2>11. 1 \in 1..(Len(file'.tracks[t].items) + 1)
    BY <2>5, <2>8, FileFacts
  <2>12. BeforeItem(m, t, 1)'
    BY <2>9, <2>10, <2>11 DEF BeforeItem
  <2>13. ~EotBefore(t, 1)'
    BY DEF EotBefore
  <2>14. AtEvents(m)'
    BY <2>4, <2>5, <2>6, <2>7, <2>8, <2>9, <2>12, <2>13 DEF AtEvents
  <2> QED BY <1>1, <2>4, <2>14 DEF ParserInv, At, Pending
<1> QED BY <1>2, <1>3

(* One more item is charged, and goes to the score unless it is an End-of-Track. *)
LEMMA ChargeOne ==
    ASSUME file \in Files, NEW m \in Modes, Stays, NEW t \in 1..Len(file.tracks),
           NEW i \in 1..Len(file.tracks[t].items), StopAtEndOfTrack(m) => ~EotBefore(t, i),
           Passed(m, t, i), ItemSound(m, <<t, i>>), NEW it, it = ItemAt(<<t, i>>),
           ~Exceeds(m, "events", events[m] + 1),
           it.kind = "note" => ~Exceeds(m, "noteStarts", noteStarts[m] + 1),
           it.kind = "text" => ~Exceeds(m, "textBytes", textBytes[m] + it.text),
           events'[m] = events[m] + 1,
           noteStarts'[m] = noteStarts[m] + NotesOf(it),
           textBytes'[m] = textBytes[m] + TextOf(it),
           applied'[m] = IF it.kind = "eot" THEN applied[m] ELSE Append(applied[m], <<t, i>>)
    PROVE  Passed(m, t, i + 1)'
<1> DEFINE p == <<t, i>>
           S == Behind(m, t, i)
<1>1. /\ p \in ReadBy(m) /\ p \notin S /\ Behind(m, t, i + 1) = S \cup {p}
      /\ \A q \in S : Earlier(q, p)
  BY BehindNext
<1>2. S \subseteq Positions /\ p \in Positions \ S /\ it \in Item
  <2>1. S \subseteq Positions /\ p \in Positions
    BY <1>1 DEF Behind, ReadBy
  <2> QED BY <1>1, <2>1, PositionFacts
<1>3. Charged(m, S) /\ WithinBudget(m) /\ \A q \in S : ItemSound(m, q)
  BY DEF Passed
<1>4. /\ Cardinality(S \cup {p}) = Cardinality(S) + 1
      /\ Cardinality(Notes(S \cup {p})) = Cardinality(Notes(S)) + NotesOf(it)
      /\ Cardinality(Texts(S \cup {p})) = Cardinality(Texts(S)) + TextOf(it)
  BY <1>2, OneMore
<1>5. /\ Cardinality(S) \in Nat /\ Cardinality(Notes(S)) \in Nat /\ Cardinality(Texts(S)) \in Nat
  BY <1>2, CountsGrow
<1>6. Lists(applied'[m], Heard(S \cup {p}))
  <2>1. Lists(applied[m], Heard(S)) /\ \A q \in Heard(S) : Earlier(q, p)
    BY <1>1, <1>3 DEF Charged, Heard
  <2>2. CASE it.kind = "eot"
    <3>1. Heard(S \cup {p}) = Heard(S)
      BY <2>2 DEF Heard
    <3> QED BY <2>1, <2>2, <3>1
  <2>3. CASE it.kind # "eot"
    <3>1. Heard(S \cup {p}) = Heard(S) \cup {p}
      BY <2>3 DEF Heard
    <3>2. Lists(Append(applied[m], p), Heard(S) \cup {p})
      BY <2>1, ListsOneMore
    <3> QED BY <2>3, <3>1, <3>2
  <2> QED BY <2>2, <2>3
<1>7. PICK Z : Z = S \cup {p} /\ Z = Behind(m, t, i + 1)
  BY <1>1
<1>8. Behind(m, t, i + 1)' = Z
  BY <1>7, SameFile
<1>9. Charged(m, Z)'
  <2>1. Notes(Z)' = Notes(Z) /\ Texts(Z)' = Texts(Z) /\ Heard(Z)' = Heard(Z)
    BY SameFile
  <2>2. /\ events'[m] = Cardinality(Z) /\ noteStarts'[m] = Cardinality(Notes(Z))
        /\ textBytes'[m] = Cardinality(Texts(Z)) /\ Lists(applied'[m], Heard(Z))
    BY <1>3, <1>4, <1>6, <1>7 DEF Charged
  <2> QED BY <2>1, <2>2 DEF Charged, Lists, Earlier
<1>10. WithinBudget(m)'
  <2>1. ~Exceeds(m, "events", events'[m])
    OBVIOUS
  <2>2. ~Exceeds(m, "noteStarts", noteStarts'[m])
    <3>1. CASE it.kind = "note"
      BY <3>1 DEF NotesOf
    <3>2. CASE it.kind # "note"
      <4>1. noteStarts'[m] = noteStarts[m]
        BY <1>3, <1>5, <3>2 DEF NotesOf, Charged
      <4> QED BY <1>3, <4>1 DEF WithinBudget
    <3> QED BY <3>1, <3>2
  <2>3. ~Exceeds(m, "textBytes", textBytes'[m])
    <3>1. CASE it.kind = "text"
      BY <3>1 DEF TextOf
    <3>2. CASE it.kind # "text"
      <4>1. textBytes'[m] = textBytes[m]
        BY <1>3, <1>5, <3>2 DEF TextOf, Charged
      <4> QED BY <1>3, <4>1 DEF WithinBudget
    <3> QED BY <3>1, <3>2
  <2> QED BY <2>1, <2>2, <2>3, SameFile DEF WithinBudget
<1>11. \A q \in Z : ItemSound(m, q)'
  BY <1>3, <1>7, SameFile
<1> QED BY <1>8, <1>9, <1>10, <1>11 DEF Passed

(* A parser in front of an item. *)
LEMMA InTrackFacts ==
    ASSUME file \in Files, NEW m \in Modes, AtEvents(m), InTrack(m)
    PROVE  /\ track[m] \in 1..Len(file.tracks) /\ item[m] \in 1..Len(file.tracks[track[m]].items)
           /\ Len(Items(m)) = Len(file.tracks[track[m]].items)
           /\ Current(m) = ItemAt(<<track[m], item[m]>>) /\ Current(m) \in Item
           /\ More(m) /\ BeforeItem(m, track[m], item[m]) /\ Passed(m, track[m], item[m])
<1>1. track[m] \in 1..Len(file.tracks) /\ BeforeItem(m, track[m], item[m])
  BY DEF AtEvents, InTrack
<1>2. item[m] \in 1..Len(file.tracks[track[m]].items)
  <2>1. Len(file.tracks[track[m]].items) \in Nat
    BY <1>1, FileFacts
  <2> QED BY <1>1, <2>1 DEF BeforeItem, InTrack, Items
<1>3. Current(m) = file.tracks[track[m]].items[item[m]]
  BY DEF Current, Items
<1> QED BY <1>1, <1>2, <1>3, FileFacts DEF ItemAt, More, InTrack, BeforeItem, Items

(* An event is charged, within the budgets, before the cursor goes to the  *)
(* next item.                                                              *)
LEMMA EventStep ==
    ASSUME Shape, NEW m \in Modes, ParserInv(m), Event(m)
    PROVE  Only(m) /\ ParserInv(m)'
<1>1. /\ stage[m] = "events" /\ At(m, "events") /\ AtEvents(m) /\ outcome[m] = Pending
      /\ InTrack(m) /\ ~StopsHere(m) /\ file \in Files
  BY DEF Event, InTrack, ParserInv, At, Shape
<1>2. PICK t, i, it : t = track[m] /\ i = item[m] /\ it = Current(m)
  OBVIOUS
<1>3. /\ t \in 1..Len(file.tracks) /\ i \in 1..Len(file.tracks[t].items)
      /\ it = ItemAt(<<t, i>>) /\ it \in Item /\ it = file.tracks[t].items[i]
      /\ More(m) /\ BeforeItem(m, t, i) /\ Passed(m, t, i)
  BY <1>1, <1>2, InTrackFacts DEF ItemAt
<1>4. CASE Failing(EventChecks(m)) # {}
  <2>1. ChecksAt(m, "events") = EventChecks(m)
    BY <1>1, <1>3 DEF ChecksAt
  <2>2. End(m, FirstOf(ChecksAt(m, "events")))
    BY <1>4, <2>1 DEF Event, Refuse, FirstOf
  <2>3. Only(m) /\ Answers(m)
    BY <1>1, <1>4, <2>1, <2>2, EndAnswers
  <2> QED BY <2>3, AnswerKeeps
<1>5. CASE Failing(EventChecks(m)) = {}
  <2>1. /\ Goto(m, "events", offset[m] + ItemBytes(it))
        /\ item' = [item EXCEPT ![m] = @ + 1]
        /\ events' = [events EXCEPT ![m] = @ + 1]
        /\ noteStarts' = [noteStarts EXCEPT ![m] = @ + NotesOf(it)]
        /\ textBytes' = [textBytes EXCEPT ![m] = @ + TextOf(it)]
        /\ applied' = [applied EXCEPT ![m] = IF it.kind = "eot" THEN @ ELSE Append(@, <<t, i>>)]
        /\ UNCHANGED <<track, sawEot>>
    BY <1>2, <1>5 DEF Event
  <2>2. /\ Touches(m, track, track') /\ Touches(m, item, item') /\ Touches(m, sawEot, sawEot')
        /\ Touches(m, events, events') /\ Touches(m, noteStarts, noteStarts')
        /\ Touches(m, textBytes, textBytes') /\ Touches(m, applied, applied')
    BY <2>1 DEF Shape, Touches, IsOn
  <2>3. /\ item'[m] = i + 1 /\ events'[m] = events[m] + 1
        /\ noteStarts'[m] = noteStarts[m] + NotesOf(it) /\ textBytes'[m] = textBytes[m] + TextOf(it)
        /\ applied'[m] = IF it.kind = "eot" THEN applied[m] ELSE Append(applied[m], <<t, i>>)
        /\ track'[m] = t /\ ~sawEot[m] /\ sawEot'[m] = sawEot[m]
    BY <1>1, <1>2, <2>1 DEF Shape, IsOn, InTrack
  <2>4. "events" \in Places
    BY DEF Places
  <2>5. /\ Only(m) /\ stage'[m] = "events" /\ offset'[m] = offset[m] + ItemBytes(it)
        /\ outcome'[m] = outcome[m]
    BY <2>1, <2>2, <2>4, GotoIsOwn
  <2>6. Stays /\ file' = file
    BY <2>5 DEF Only, Stays
  <2>7. /\ it.kind # "fault" /\ ~Exceeds(m, "events", events[m] + 1)
        /\ it.kind = "note" => ~Exceeds(m, "noteStarts", noteStarts[m] + 1)
        /\ it.kind = "text" => ~Exceeds(m, "textBytes", textBytes[m] + it.text)
    <3> DEFINE c == EventChecks(m)
    <3>1. DOMAIN c = 1..4
      BY DEF EventChecks
    <3>2. ~c[1].fails /\ ~c[2].fails /\ ~c[3].fails /\ ~c[4].fails
      BY <1>5, <3>1 DEF Failing
    <3> QED BY <1>2, <3>2 DEF EventChecks, Check
  <2>8. StopAtEndOfTrack(m) => it.kind # "eot"
    BY <1>1, <1>2 DEF StopsHere
  <2>9. StopAtEndOfTrack(m) => ~EotBefore(t, i)
    BY <1>1, <1>2 DEF AtEvents
  <2>10. ItemSound(m, <<t, i>>)
    BY <1>3, <2>7, <2>8, Grammars DEF ItemSound
  <2>11. Passed(m, t, i + 1)'
    BY <1>1, <1>3, <2>3, <2>6, <2>7, <2>9, <2>10, ChargeOne
  <2>12. offset'[m] = BodyStart(t)' + BytesBefore(file'.tracks[t].items, (i + 1) - 1)
    <3>1. /\ file.tracks[t].items \in Seq(Item) /\ Len(file.tracks[t].items) \in Nat
          /\ i - 1 \in 0..Len(file.tracks[t].items)
      BY <1>1, <1>3, FileFacts
    <3>2. /\ BytesBefore(file.tracks[t].items, i) = BytesBefore(file.tracks[t].items, i - 1) + ItemBytes(it)
          /\ BytesBefore(file.tracks[t].items, i - 1) \in Nat
      BY <1>3, <3>1, BytesStep
    <3>3. BodyStart(t) \in Nat /\ BodyStart(t)' = BodyStart(t) /\ ItemBytes(it) \in Nat
      <4>1. t \in 1..(Len(file.tracks) + 1)
        BY <1>1, <1>3, FileFacts
      <4> QED BY <1>1, <1>3, <2>6, <4>1, SameFile, ChunkStep, ItemFacts DEF ChunkHead, BodyStart
    <3>4. offset[m] = BodyStart(t) + BytesBefore(file.tracks[t].items, i - 1)
      BY <1>3 DEF BeforeItem
    <3>5. (i + 1) - 1 = i
      BY <1>3, <3>1
    <3>6. PICK a, b, c, d : /\ a = BodyStart(t) /\ b = BytesBefore(file.tracks[t].items, i - 1)
                            /\ c = BytesBefore(file.tracks[t].items, i) /\ d = ItemBytes(it)
      OBVIOUS
    <3>7. (a + b) + d = a + (b + d)
      BY <3>2, <3>3, <3>6
    <3> QED BY <2>5, <2>6, <3>2, <3>3, <3>4, <3>5, <3>6, <3>7
  <2>13. i + 1 \in 1..(Len(file'.tracks[t].items) + 1)
    BY <1>1, <1>3, <2>6, FileFacts
  <2>14. BeforeItem(m, t, i + 1)'
    BY <2>11, <2>12, <2>13 DEF BeforeItem
  <2>15. StopAtEndOfTrack(m) => ~EotBefore(t, i + 1)'
    <3>1. \A j \in 1..((i + 1) - 1) : j \in 1..(i - 1) \/ j = i
      BY <1>1, <1>3, FileFacts
    <3> QED BY <1>3, <2>6, <2>8, <2>9, <3>1 DEF EotBefore
  <2>16. /\ Failing(HeaderChecks(m))' = {} /\ ChunkSound(m, t)'
         /\ \A u \in 1..(t - 1) : TrackSound(m, u)'
    BY <1>1, <1>2, <2>6, SameFile DEF Failing, AtEvents
  <2>17. StopAtEndOfTrack(m)' <=> StopAtEndOfTrack(m)
    BY DEF StopAtEndOfTrack
  <2>18. AtEvents(m)'
    BY <1>3, <2>3, <2>6, <2>14, <2>15, <2>16, <2>17 DEF AtEvents
  <2> QED BY <1>1, <2>5, <2>18 DEF ParserInv, At, Pending
<1> QED BY <1>4, <1>5

(* End-of-Track: the parser stands at the end of the declared chunk, and   *)
(* what it has read of the track is all it reads of it.                    *)
LEMMA EndOfTrackStep ==
    ASSUME Shape, NEW m \in Modes, ParserInv(m), EndOfTrack(m)
    PROVE  Only(m) /\ ParserInv(m)'
<1>1. /\ stage[m] = "events" /\ At(m, "events") /\ AtEvents(m) /\ outcome[m] = Pending
      /\ InTrack(m) /\ StopsHere(m) /\ file \in Files
  BY DEF EndOfTrack, InTrack, ParserInv, At, Shape
<1>2. PICK t, i, it : t = track[m] /\ i = item[m] /\ it = Current(m)
  OBVIOUS
<1>3. /\ t \in 1..Len(file.tracks) /\ i \in 1..Len(file.tracks[t].items)
      /\ it = ItemAt(<<t, i>>) /\ it \in Item /\ it = file.tracks[t].items[i]
      /\ Len(Items(m)) = Len(file.tracks[t].items)
      /\ More(m) /\ BeforeItem(m, t, i) /\ Passed(m, t, i)
  BY <1>1, <1>2, InTrackFacts DEF ItemAt
<1>4. CASE Failing(EotChecks(m)) # {}
  <2>1. ChecksAt(m, "events") = EotChecks(m)
    BY <1>1, <1>3 DEF ChecksAt
  <2>2. End(m, FirstOf(ChecksAt(m, "events")))
    BY <1>4, <2>1 DEF EndOfTrack, Refuse, FirstOf
  <2>3. Only(m) /\ Answers(m)
    BY <1>1, <1>4, <2>1, <2>2, EndAnswers
  <2> QED BY <2>3, AnswerKeeps
<1>5. CASE Failing(EotChecks(m)) = {}
  <2>1. /\ Goto(m, "events", ChunkEnd(m))
        /\ sawEot' = [sawEot EXCEPT ![m] = TRUE]
        /\ events' = [events EXCEPT ![m] = @ + 1]
        /\ UNCHANGED <<track, item, noteStarts, textBytes, applied>>
    BY <1>5 DEF EndOfTrack
  <2>2. /\ Touches(m, track, track') /\ Touches(m, item, item') /\ Touches(m, sawEot, sawEot')
        /\ Touches(m, events, events') /\ Touches(m, noteStarts, noteStarts')
        /\ Touches(m, textBytes, textBytes') /\ Touches(m, applied, applied')
    BY <2>1 DEF Shape, Touches, IsOn
  <2>3. StopAtEndOfTrack(m) /\ it.kind = "eot"
    BY <1>1, <1>2 DEF StopsHere
  <2>4. noteStarts[m] \in Nat /\ textBytes[m] \in Nat
    <3>1. Behind(m, t, i) \subseteq Positions
      BY DEF Behind, ReadBy
    <3>2. /\ noteStarts[m] = Cardinality(Notes(Behind(m, t, i)))
          /\ textBytes[m] = Cardinality(Texts(Behind(m, t, i)))
      BY <1>3 DEF Passed, Charged
    <3> QED BY <1>1, <3>1, <3>2, CountsGrow
  <2>5. /\ item'[m] = i /\ track'[m] = t /\ sawEot'[m] = TRUE
        /\ events'[m] = events[m] + 1
        /\ noteStarts'[m] = noteStarts[m] + NotesOf(it) /\ textBytes'[m] = textBytes[m] + TextOf(it)
        /\ applied'[m] = IF it.kind = "eot" THEN applied[m] ELSE Append(applied[m], <<t, i>>)
    BY <1>2, <2>1, <2>3, <2>4 DEF Shape, IsOn, NotesOf, TextOf
  <2>6. "events" \in Places
    BY DEF Places
  <2>7. Only(m) /\ stage'[m] = "events" /\ offset'[m] = ChunkEnd(m) /\ outcome'[m] = outcome[m]
    BY <2>1, <2>2, <2>6, GotoIsOwn
  <2>8. Stays /\ file' = file
    BY <2>7 DEF Only, Stays
  <2>9. /\ ~(m = "strict" /\ it.text # 0) /\ ~Exceeds(m, "events", events[m] + 1)
        /\ ~(m = "strict" /\ i < Len(file.tracks[t].items))
    <3> DEFINE c == EotChecks(m)
    <3>1. DOMAIN c = 1..3
      BY DEF EotChecks
    <3>2. ~c[1].fails /\ ~c[2].fails /\ ~c[3].fails
      BY <1>5, <3>1 DEF Failing
    <3> QED BY <1>2, <1>3, <3>2, Grammars DEF EotChecks, Check
  <2>10. ItemSound(m, <<t, i>>)
    <3>1. Len(file.tracks[t].items) \in Nat
      BY <1>1, <1>3, FileFacts
    <3>2. m = "strict" => it.text = 0 /\ i = Len(file.tracks[t].items)
      BY <1>3, <2>9, <3>1
    <3> QED BY <1>3, <2>3, <3>2 DEF ItemSound
  <2>11. ~EotBefore(t, i)
    BY <1>1, <1>2, <2>3 DEF AtEvents
  <2>12. Passed(m, t, i + 1)'
    BY <1>1, <1>3, <2>3, <2>5, <2>8, <2>9, <2>10, <2>11, ChargeOne
  <2>13. offset'[m] = ChunkStart(t + 1)'
    BY <1>1, <1>2, <1>3, <2>7, <2>8, SameFile, ChunkStep DEF ChunkEnd
  <2>14. BehindEot(m, t, i)'
    BY <1>3, <2>3, <2>8, <2>12, <2>13 DEF BehindEot, StopAtEndOfTrack
  <2>15. ~EotBefore(t, i)'
    BY <2>8, <2>11, SameFile
  <2>16. /\ Failing(HeaderChecks(m))' = {} /\ ChunkSound(m, t)'
         /\ \A u \in 1..(t - 1) : TrackSound(m, u)'
    BY <1>1, <1>2, <2>8, SameFile DEF Failing, AtEvents
  <2>17. AtEvents(m)'
    BY <1>3, <2>5, <2>8, <2>14, <2>15, <2>16 DEF AtEvents
  <2> QED BY <1>1, <2>7, <2>17 DEF ParserInv, At, Pending
<1> QED BY <1>4, <1>5

(* A stage with one check.                                                 *)
LEMMA OneCheck ==
    ASSUME NEW c
    PROVE  /\ Failing(<<c>>) = IF c.fails THEN {1} ELSE {}
           /\ c.fails => FirstOf(<<c>>) = [kind |-> c.kind, offset |-> c.offset]
<1>1. Failing(<<c>>) = IF c.fails THEN {1} ELSE {}
  BY DEF Failing
<1>2. Min({1}) = 1
  BY DEF Min
<1> QED BY <1>1, <1>2 DEF FirstOf

(* Closing a track: all of it that the parser reads is charged, and for    *)
(* the strict grammar it has an End-of-Track.                              *)
LEMMA CloseTrackStep ==
    ASSUME Shape, NEW m \in Modes, ParserInv(m), CloseTrack(m)
    PROVE  Only(m) /\ ParserInv(m)'
<1>1. /\ stage[m] = "events" /\ At(m, "events") /\ AtEvents(m) /\ outcome[m] = Pending
      /\ file \in Files /\ (sawEot[m] \/ item[m] > Len(Items(m)))
  BY DEF CloseTrack, ParserInv, At, Shape
<1>2. PICK t, i : t = track[m] /\ i = item[m]
  OBVIOUS
<1>3. /\ t \in 1..Len(file.tracks) /\ t \in Nat /\ Len(file.tracks[t].items) \in Nat
      /\ Len(file.tracks) \in Nat /\ ChunkSound(m, t)
      /\ Failing(HeaderChecks(m)) = {} /\ \A u \in 1..(t - 1) : TrackSound(m, u)
      /\ IF sawEot[m] THEN BehindEot(m, t, i) ELSE BeforeItem(m, t, i)
  BY <1>1, <1>2, FileFacts DEF AtEvents
<1>4. ~More(m)
  <2>1. Len(Items(m)) = Len(file.tracks[t].items)
    BY <1>2 DEF Items
  <2>2. i \in Nat
    BY <1>3 DEF BehindEot, BeforeItem
  <2> QED BY <1>1, <1>2, <1>3, <2>1, <2>2 DEF More
<1>5. /\ ChecksAt(m, "events") = CloseChecks(m)
      /\ Failing(CloseChecks(m)) = IF RequireEndOfTrack(m) /\ ~sawEot[m] THEN {1} ELSE {}
      /\ RequireEndOfTrack(m) /\ ~sawEot[m] =>
            FirstOf(CloseChecks(m)) = [kind |-> "MissingEndOfTrack", offset |-> offset[m]]
  <2>1. ChecksAt(m, "events") = CloseChecks(m)
    BY <1>4 DEF ChecksAt
  <2>2. PICK c : c = Check(RequireEndOfTrack(m) /\ ~sawEot[m], "MissingEndOfTrack", offset[m])
    OBVIOUS
  <2>3. /\ c.fails = (RequireEndOfTrack(m) /\ ~sawEot[m])
        /\ c.kind = "MissingEndOfTrack" /\ c.offset = offset[m]
    BY <2>2 DEF Check
  <2>4. CloseChecks(m) = <<c>>
    BY <2>2 DEF CloseChecks
  <2> QED BY <2>1, <2>3, <2>4, OneCheck
<1>6. CASE RequireEndOfTrack(m) /\ ~sawEot[m]
  <2>1. End(m, FirstOf(ChecksAt(m, "events")))
    BY <1>5, <1>6 DEF CloseTrack, Fail
  <2>2. Only(m) /\ Answers(m)
    BY <1>1, <1>5, <1>6, <2>1, EndAnswers
  <2> QED BY <2>2, AnswerKeeps
<1>7. CASE ~(RequireEndOfTrack(m) /\ ~sawEot[m])
  <2>1. /\ Goto(m, "chunk", offset[m]) /\ track' = [track EXCEPT ![m] = @ + 1]
        /\ UNCHANGED <<item, sawEot, events, noteStarts, textBytes, applied>>
    BY <1>7 DEF CloseTrack, budget
  <2>2. /\ Touches(m, track, track') /\ Touches(m, item, item') /\ Touches(m, sawEot, sawEot')
        /\ Touches(m, events, events') /\ Touches(m, noteStarts, noteStarts')
        /\ Touches(m, textBytes, textBytes') /\ Touches(m, applied, applied')
        /\ track'[m] = t + 1
    BY <1>2, <2>1 DEF Shape, Touches, IsOn
  <2>3. "chunk" \in Places
    BY DEF Places
  <2>4. Only(m) /\ stage'[m] = "chunk" /\ offset'[m] = offset[m] /\ outcome'[m] = outcome[m]
    BY <2>1, <2>2, <2>3, GotoIsOwn
  <2>5. Stays /\ file' = file
    BY <2>4 DEF Only, Stays
  <2>6. offset[m] = ChunkStart(t + 1) /\ Passed(m, t + 1, 1) /\ TrackSound(m, t)
    <3>1. CASE sawEot[m]
      <4>1. BehindEot(m, t, i)
        BY <1>3, <3>1
      <4>2. /\ StopAtEndOfTrack(m) /\ i \in 1..Len(file.tracks[t].items) /\ i \in Nat
            /\ file.tracks[t].items[i].kind = "eot"
            /\ offset[m] = ChunkStart(t + 1) /\ Passed(m, t, i + 1)
        BY <1>3, <4>1 DEF BehindEot
      <4>3. i + 1 \in Nat /\ i + 1 > 1 /\ (i + 1) - 1 = i
        BY <1>3, <4>2
      <4>4. Behind(m, t + 1, 1) = Behind(m, t, i + 1)
        <5>1. PICK n \in Nat : n = i + 1 /\ n - 1 = i /\ n > 1
          BY <4>3
        <5>2. /\ file \in Files /\ t \in 1..Len(file.tracks)
              /\ StopAtEndOfTrack(m) /\ n > 1 /\ n - 1 \in 1..Len(file.tracks[t].items)
              /\ file.tracks[t].items[n - 1].kind = "eot"
          BY <1>1, <1>3, <4>2, <5>1
        <5>3. Behind(m, t + 1, 1) = Behind(m, t, n)
          BY <5>2, BehindTrack
        <5> QED BY <5>1, <5>3
      <4>5. Passed(m, t + 1, 1)
        BY <4>2, <4>4 DEF Passed
      <4>6. <<t, i>> \in ReadBy(m) /\ ItemAt(<<t, i>>).kind = "eot" /\ <<t, i>>[1] = t
        <5>1. ~EotBefore(t, i)
          BY <1>1, <1>2, <4>2 DEF AtEvents
        <5>2. <<t, i>> \in ReadBy(m)
          BY <1>1, <1>3, <4>2, <5>1, BehindNext
        <5> QED BY <4>2, <5>2 DEF ItemAt
      <4> QED BY <1>3, <4>2, <4>5, <4>6 DEF TrackSound
    <3>2. CASE ~sawEot[m]
      <4>1. BeforeItem(m, t, i)
        BY <1>3, <3>2
      <4>2. i \in Nat /\ i > Len(file.tracks[t].items) /\ i - 1 = Len(file.tracks[t].items)
        <5>1. i \in 1..(Len(file.tracks[t].items) + 1)
          BY <4>1 DEF BeforeItem
        <5>2. i > Len(file.tracks[t].items)
          BY <1>1, <1>2, <3>2 DEF Items
        <5> QED BY <1>3, <5>1, <5>2
      <4>3. Behind(m, t + 1, 1) = Behind(m, t, i)
        BY <1>1, <1>3, <4>2, BehindTrack
      <4>4. Passed(m, t + 1, 1)
        BY <4>1, <4>3 DEF Passed, BeforeItem
      <4>5. offset[m] = BodyStart(t) + TrackBytes(t)
        BY <4>1, <4>2 DEF BeforeItem, TrackBytes
      <4>6. offset[m] = ChunkStart(t + 1)
        BY <1>1, <1>3, <4>5, ChunkStep
      <4>7. TrackSound(m, t)
        BY <1>3, <1>7, <3>2, Grammars DEF TrackSound
      <4> QED BY <4>4, <4>6, <4>7
    <3> QED BY <3>1, <3>2
  <2>7. Passed(m, t + 1, 1)' /\ \A u \in 1..((t + 1) - 1) : TrackSound(m, u)'
    <3>1. \A u \in 1..((t + 1) - 1) : u \in 1..(t - 1) \/ u = t
      BY <1>3
    <3>2. \A u \in 1..((t + 1) - 1) : TrackSound(m, u)
      BY <1>3, <2>6, <3>1
    <3>3. /\ events'[m] = events[m] /\ noteStarts'[m] = noteStarts[m]
          /\ textBytes'[m] = textBytes[m] /\ applied'[m] = applied[m]
      BY <2>1
    <3> QED BY <2>5, <2>6, <3>2, <3>3, PassedStays, SameFile
  <2>8. Failing(HeaderChecks(m))' = {}
    BY <1>3, <2>5, SameFile DEF Failing
  <2>9. t + 1 \in 1..(Len(file'.tracks) + 1)
    BY <1>3, <2>5
  <2>10. offset'[m] = ChunkStart(t + 1)'
    BY <2>4, <2>5, <2>6, SameFile
  <2>11. AtChunk(m)'
    BY <2>2, <2>7, <2>8, <2>9, <2>10 DEF AtChunk
  <2> QED BY <1>1, <2>4, <2>11 DEF ParserInv, At, Pending
<1> QED BY <1>6, <1>7

(* Behind the declared tracks a parser answers.                            *)
LEMMA FinishStep ==
    ASSUME Shape, NEW m \in Modes, ParserInv(m), Finish(m)
    PROVE  Only(m) /\ ParserInv(m)'
<1>1. /\ stage[m] = "chunk" /\ AtChunk(m) /\ file \in Files /\ track[m] > file.declared
  BY DEF Finish, ParserInv, At, Shape
<1>2. ~(track[m] <= file.declared)
  BY <1>1, FileFacts DEF AtChunk
<1>3. /\ ChecksAt(m, "chunk") = FinishChecks(m)
      /\ Failing(FinishChecks(m)) = IF RejectTrailingBytes(m) /\ file.trailing # 0 THEN {1} ELSE {}
      /\ RejectTrailingBytes(m) /\ file.trailing # 0 =>
            FirstOf(FinishChecks(m)) = [kind |-> "TrailingBytes", offset |-> offset[m]]
  <2>1. ChecksAt(m, "chunk") = FinishChecks(m)
    BY <1>2 DEF ChecksAt
  <2>2. PICK c : c = Check(RejectTrailingBytes(m) /\ file.trailing # 0, "TrailingBytes", offset[m])
    OBVIOUS
  <2>3. /\ c.fails = (RejectTrailingBytes(m) /\ file.trailing # 0)
        /\ c.kind = "TrailingBytes" /\ c.offset = offset[m]
    BY <2>2 DEF Check
  <2>4. FinishChecks(m) = <<c>>
    BY <2>2 DEF FinishChecks
  <2> QED BY <2>1, <2>3, <2>4, OneCheck
<1>4. End(m, IF Failing(ChecksAt(m, "chunk")) # {} THEN FirstOf(ChecksAt(m, "chunk")) ELSE Ok)
  BY <1>3 DEF Finish, Fail
<1>5. Only(m) /\ Answers(m)
  BY <1>1, <1>4, EndAnswers
<1> QED BY <1>5, AnswerKeeps

(* Every step of a parser keeps its invariant.                             *)
LEMMA StepKeeps ==
    ASSUME Shape, NEW m \in Modes, ParserInv(m), Step(m)
    PROVE  Only(m) /\ ParserInv(m)'
BY HeaderStep, ChunkHeaderStep, EventStep, EndOfTrackStep, CloseTrackStep, FinishStep DEF Step

--------------------------------------------------------------------------------
(* Before the header no parser has read or charged anything.               *)
LEMMA InitParser ==
    ASSUME Init, NEW m \in Modes
    PROVE  ParserInv(m)
<1>1. /\ file \in Files /\ limits \in Limits /\ stage[m] = "input" /\ offset[m] = 0 /\ track[m] = 1
      /\ events[m] = 0 /\ noteStarts[m] = 0 /\ textBytes[m] = 0 /\ applied[m] = <<>>
      /\ outcome[m] = Pending
  BY DEF Init
<1>2. Behind(m, 1, 1) = {} /\ Heard({}) = {}
  BY <1>1, NothingBehind DEF Heard
<1>3. Charged(m, {})
  BY <1>1, <1>2, CountsOfNone, ListsNothing DEF Charged
<1>4. WithinBudget(m)
  <2>1. limits["events"] \in Nat /\ limits["noteStarts"] \in Nat /\ limits["textBytes"] \in Nat
    BY <1>1, LimitAssumption DEF Resources
  <2> QED BY <1>1, <2>1 DEF WithinBudget, Exceeds
<1>5. Passed(m, 1, 1)
  BY <1>2, <1>3, <1>4 DEF Passed
<1> QED BY <1>1, <1>5 DEF ParserInv, At, AtInput

(* The invariant holds at the start ...                                    *)
LEMMA InitHolds == Init => IInv
<1> SUFFICES ASSUME Init
             PROVE  IInv
  OBVIOUS
<1>1. Shape
  BY DEF Init, Shape, IsOn
<1>2. InTurn
  <2>1. \A j \in 1..4 : Parsers[j] \in Modes
    BY DEF Modes, Parsers
  <2> QED BY <2>1 DEF Init, InTurn
<1> QED BY <1>1, <1>2, InitParser DEF IInv

(* ... and is kept by every step: the parser that moves by its own steps,  *)
(* the others because they rest; and none starts before its turn.          *)
LEMMA NextHolds == IInv /\ [Next]_vars => IInv'
<1> SUFFICES ASSUME IInv, [Next]_vars
             PROVE  IInv'
  OBVIOUS
<1>1. Shape /\ InTurn /\ \A m \in Modes : ParserInv(m)
  BY DEF IInv
<1>2. CASE UNCHANGED vars
  <2>1. /\ UNCHANGED <<file, limits, stage, offset, track, item, sawEot, events, noteStarts>>
        /\ UNCHANGED <<textBytes, applied, outcome>>
    BY <1>2 DEF vars, cursors, budget
  <2>2. \A m \in Modes : Rests(m) /\ stage'[m] = stage[m] /\ outcome'[m] = outcome[m]
    BY <2>1 DEF Rests, Stays
  <2>3. \A m \in Modes : ParserInv(m)'
    BY <1>1, <2>2, RestKeepsInv
  <2>4. Shape' /\ InTurn'
    BY <1>1, <2>1 DEF Shape, IsOn, InTurn, Parsers
  <2> QED BY <2>3, <2>4 DEF IInv
<1>3. ASSUME NEW m \in Modes, Turn(m), Step(m)
      PROVE  IInv'
  <2>1. Only(m) /\ ParserInv(m)'
    BY <1>1, <1>3, StepKeeps
  <2>2. \A n \in Modes \ {m} : ParserInv(n)'
    BY <1>1, <2>1, RestKeepsInv DEF Only
  <2>3. InTurn'
    <3> SUFFICES ASSUME NEW i \in 1..4, NEW j \in 1..4, i < j, stage'[Parsers[i]] # "done"
                 PROVE  stage'[Parsers[j]] = "input"
      BY DEF InTurn, Parsers
    <3>1. \A k \in 1..4 : Parsers[k] \in Modes
      BY DEF Modes, Parsers
    <3>2. \A k, l \in 1..4 : k # l => Parsers[k] # Parsers[l]
      BY DEF Parsers
    <3>3. \A n \in Modes \ {m} : stage'[n] = stage[n]
      BY <2>1 DEF Only
    <3>4. PICK k \in 1..4 : Parsers[k] = m /\ stage[m] # "done" /\ \A l \in 1..(k - 1) : stage[Parsers[l]] = "done"
      BY <1>3 DEF Turn, Parsers
    <3>5. CASE j = k
      <4>1. i \in 1..(k - 1) /\ Parsers[i] \in Modes \ {m}
        BY <3>1, <3>2, <3>4, <3>5
      <4> QED BY <3>3, <3>4, <4>1
    <3>6. CASE j # k
      <4>1. Parsers[j] \in Modes \ {m}
        BY <3>1, <3>2, <3>4, <3>6
      <4>2. stage[Parsers[i]] # "done"
        <5>1. CASE i = k
          BY <3>4, <5>1
        <5>2. CASE i # k
          BY <3>1, <3>2, <3>3, <3>4, <5>2
        <5> QED BY <5>1, <5>2
      <4> QED BY <1>1, <3>3, <4>1, <4>2 DEF InTurn
    <3> QED BY <3>5, <3>6
  <2> QED BY <2>1, <2>2, <2>3 DEF IInv, Only
<1> QED BY <1>2, <1>3 DEF Next

(* The parsers keep their places: what is read is sound and charged. *)
LEMMA AlwaysIInv == Spec => []IInv
BY InitHolds, NextHolds, PTL DEF Spec

(* The checks of a place are one to six, each with a kind of its own. *)
LEMMA ChecksAre ==
    ASSUME NEW m, NEW s
    PROVE  \E n \in Nat : /\ DOMAIN ChecksAt(m, s) = 1..n
                          /\ \A k \in 1..n : ChecksAt(m, s)[k].kind \notin {"pending", "ok"}
<1>1. DOMAIN HeaderChecks(m) = 1..6 /\ \A k \in 1..6 : HeaderChecks(m)[k].kind \notin {"pending", "ok"}
  BY DEF HeaderChecks, Check
<1>2. DOMAIN ChunkChecks(m) = 1..4 /\ \A k \in 1..4 : ChunkChecks(m)[k].kind \notin {"pending", "ok"}
  BY DEF ChunkChecks, Check
<1>3. DOMAIN FinishChecks(m) = 1..1 /\ \A k \in 1..1 : FinishChecks(m)[k].kind \notin {"pending", "ok"}
  BY DEF FinishChecks, Check
<1>4. DOMAIN CloseChecks(m) = 1..1 /\ \A k \in 1..1 : CloseChecks(m)[k].kind \notin {"pending", "ok"}
  BY DEF CloseChecks, Check
<1>5. DOMAIN EotChecks(m) = 1..3 /\ \A k \in 1..3 : EotChecks(m)[k].kind \notin {"pending", "ok"}
  BY DEF EotChecks, Check
<1>6. DOMAIN EventChecks(m) = 1..4 /\ \A k \in 1..4 : EventChecks(m)[k].kind \notin {"pending", "ok"}
  BY DEF EventChecks, Check
<1>7. 1 \in Nat /\ 3 \in Nat /\ 4 \in Nat /\ 6 \in Nat
  OBVIOUS
<1>8. ChecksAt(m, s) \in {HeaderChecks(m), ChunkChecks(m), FinishChecks(m), CloseChecks(m),
                          EotChecks(m), EventChecks(m)}
  BY DEF ChecksAt
<1> QED BY <1>1, <1>2, <1>3, <1>4, <1>5, <1>6, <1>7, <1>8

(* The first check that fails is one that fails, and the first. *)
LEMMA FirstOfChecks ==
    ASSUME NEW m, NEW s, Failing(ChecksAt(m, s)) # {}
    PROVE  \E k \in Failing(ChecksAt(m, s)) :
              /\ \A j \in Failing(ChecksAt(m, s)) : k <= j
              /\ k = Min(Failing(ChecksAt(m, s)))
              /\ k \in DOMAIN ChecksAt(m, s) /\ ChecksAt(m, s)[k].fails
              /\ FirstOf(ChecksAt(m, s)).kind = ChecksAt(m, s)[k].kind
              /\ FirstOf(ChecksAt(m, s)).offset = ChecksAt(m, s)[k].offset
              /\ FirstOf(ChecksAt(m, s)).kind \notin {"pending", "ok"}
<1>1. PICK c : c = ChecksAt(m, s)
  OBVIOUS
<1>2. PICK n \in Nat : DOMAIN c = 1..n /\ \A k \in 1..n : c[k].kind \notin {"pending", "ok"}
  BY <1>1, ChecksAre
<1>3. Min(Failing(c)) \in Failing(c) /\ \A k \in Failing(c) : Min(Failing(c)) <= k
  BY <1>1, <1>2, FirstFails
<1>4. PICK k : k = Min(Failing(c))
  OBVIOUS
<1>5. k \in 1..n /\ c[k].fails
  BY <1>2, <1>3, <1>4 DEF Failing
<1>6. FirstOf(c) = [kind |-> c[k].kind, offset |-> c[k].offset]
  BY <1>4 DEF FirstOf
<1> QED BY <1>1, <1>2, <1>3, <1>4, <1>5, <1>6

(* A parser has an answer when it is done, and the answer is Ok just when  *)
(* no check failed where it stood.                                         *)
LEMMA AnswerKind ==
    ASSUME NEW m \in Modes, ParserInv(m)
    PROVE  /\ outcome[m].kind = "pending" <=> stage[m] # "done"
           /\ stage[m] = "done" => \E s \in {"input", "chunk", "events"} :
                 /\ At(m, s) /\ AnsweredAt(m, s)
                 /\ Failing(ChecksAt(m, s)) = {} <=> outcome[m] = Ok
<1>1. CASE stage[m] # "done"
  BY <1>1 DEF ParserInv, Pending
<1>2. CASE stage[m] = "done"
  <2>1. PICK s \in {"input", "chunk", "events"} : At(m, s) /\ AnsweredAt(m, s)
    BY <1>2 DEF ParserInv
  <2>2. CASE Failing(ChecksAt(m, s)) = {}
    BY <1>2, <2>1, <2>2 DEF AnsweredAt, Ok
  <2>3. CASE Failing(ChecksAt(m, s)) # {}
    <3>1. outcome[m].kind \notin {"pending", "ok"}
      BY <2>1, <2>3, FirstOfChecks DEF AnsweredAt
    <3> QED BY <1>2, <2>1, <2>3, <3>1 DEF Ok
  <2> QED BY <2>2, <2>3
<1> QED BY <1>1, <1>2

--------------------------------------------------------------------------------
(* The end of the file is behind every chunk. *)
LEMMA FileEndFacts ==
    ASSUME file \in Files
    PROVE  /\ FileEnd \in Nat /\ InputBytes \in Nat
           /\ \A t \in 1..(Len(file.tracks) + 1) : ChunkStart(t) <= FileEnd /\ ChunkStart(t) >= HeaderBytes
           /\ file.cut = 0 => FileEnd <= InputBytes
           /\ file.cut # 0 => /\ file.cut = Len(file.tracks)
                              /\ \A t \in 1..Len(file.tracks) : ChunkStart(t) <= InputBytes
<1>1. /\ Len(file.tracks) \in Nat /\ Len(file.tracks) + 1 \in 1..(Len(file.tracks) + 1)
      /\ 1 \in 1..(Len(file.tracks) + 1) /\ HeaderBytes = 14 /\ ChunkHead = 8 /\ file.trailing \in Nat
  BY FileFacts DEF HeaderBytes, ChunkHead
<1>2. \A t \in 1..(Len(file.tracks) + 1) : ChunkStart(t) <= FileEnd /\ ChunkStart(t) >= HeaderBytes
  <2> SUFFICES ASSUME NEW t \in 1..(Len(file.tracks) + 1)
               PROVE  ChunkStart(t) <= FileEnd /\ ChunkStart(t) >= HeaderBytes
    OBVIOUS
  <2>1. t <= Len(file.tracks) + 1 /\ 1 <= t
    BY <1>1
  <2>2. ChunkStart(t) <= ChunkStart(Len(file.tracks) + 1) /\ ChunkStart(1) <= ChunkStart(t)
    BY <1>1, <2>1, ChunksGrow
  <2> QED BY <1>1, <2>2, ChunkStep DEF FileEnd
<1>3. FileEnd \in Nat
  BY <1>1, ChunkStep DEF FileEnd
<1>4. CASE file.cut = 0
  BY <1>1, <1>2, <1>3, <1>4 DEF InputBytes
<1>5. CASE file.cut # 0
  <2>1. file.cut = Len(file.tracks) /\ file.trailing = 0 /\ Len(file.tracks) \in 1..Len(file.tracks)
    BY <1>1, <1>5, FileAssumption
  <2>2. PICK t : t = Len(file.tracks)
    OBVIOUS
  <2>3. /\ FileEnd = ChunkStart(t) + ChunkHead + TrackBytes(t) /\ TrackBytes(t) \in Nat
        /\ ChunkStart(t) \in Nat /\ t \in 1..(Len(file.tracks) + 1)
    BY <1>1, <2>1, <2>2, ChunkStep, TrackBytesType DEF FileEnd
  <2>4. InputBytes = FileEnd - 1
    BY <1>3, <1>5, <2>1 DEF InputBytes
  <2>5. ASSUME NEW u \in 1..Len(file.tracks)
        PROVE  ChunkStart(u) <= InputBytes
    <3>1. u \in 1..(Len(file.tracks) + 1) /\ u <= t
      BY <1>1, <2>2
    <3>2. ChunkStart(u) <= ChunkStart(t) /\ ChunkStart(u) \in Nat
      BY <2>3, <3>1, ChunksGrow, ChunkStep
    <3> QED BY <1>1, <2>3, <2>4, <3>2
  <2>6. InputBytes \in Nat
    BY <1>1, <2>3, <2>4
  <2> QED BY <1>2, <1>3, <1>5, <2>1, <2>5, <2>6
<1> QED BY <1>4, <1>5

(* The place of a parser lies in the input. *)
LEMMA InInput ==
    ASSUME file \in Files, NEW m \in Modes, NEW s \in {"input", "chunk", "events"}, At(m, s)
    PROVE  offset[m] \in 0..InputBytes /\ track[m] \in 1..(file.declared + 1)
<1>1. /\ Len(file.tracks) \in Nat /\ file.declared \in Nat /\ file.declared >= Len(file.tracks)
      /\ InputBytes \in Nat /\ ChunkHead = 8
  BY FileFacts, FileEndFacts DEF ChunkHead
<1>2. ASSUME NEW t \in 1..(Len(file.tracks) + 1), \A u \in 1..(t - 1) : file.cut # u
      PROVE  ChunkStart(t) \in 0..InputBytes
  <2>1. ChunkStart(t) \in Nat
    BY ChunkStep
  <2>2. CASE file.cut = 0
    BY <1>1, <2>1, <2>2, FileEndFacts
  <2>3. CASE file.cut # 0
    <3>1. file.cut = Len(file.tracks)
      BY <2>3, FileEndFacts
    <3>2. file.cut \in Nat /\ t \in Nat
      BY FileFacts
    <3>3. t \in 1..Len(file.tracks)
      BY <1>1, <1>2, <2>3, <3>1, <3>2
    <3> QED BY <1>1, <2>1, <2>3, <3>3, FileEndFacts
  <2> QED BY <2>2, <2>3
<1>3. CASE AtInput(m)
  BY <1>1, <1>3 DEF AtInput
<1>4. CASE AtChunk(m)
  <2>1. \A u \in 1..(track[m] - 1) : file.cut # u
    BY <1>4 DEF AtChunk, TrackSound, ChunkSound
  <2> QED BY <1>1, <1>2, <1>4, <2>1 DEF AtChunk
<1>5. CASE AtEvents(m)
  <2>1. PICK t, i : t = track[m] /\ i = item[m]
    OBVIOUS
  <2>2. /\ t \in 1..Len(file.tracks) /\ t \in Nat
        /\ \A u \in 1..(t - 1) : TrackSound(m, u)
        /\ ChunkSound(m, t)
        /\ IF sawEot[m] THEN BehindEot(m, t, i) ELSE BeforeItem(m, t, i)
    BY <1>1, <1>5, <2>1 DEF AtEvents
  <2>3. \A u \in 1..((t + 1) - 1) : file.cut # u
    <3>1. \A u \in 1..((t + 1) - 1) : u \in 1..(t - 1) \/ u = t
      BY <2>2
    <3> QED BY <2>2, <3>1 DEF TrackSound, ChunkSound
  <2>4. t + 1 \in 1..(Len(file.tracks) + 1) /\ t \in 1..(Len(file.tracks) + 1)
    BY <1>1, <2>2
  <2>5. ChunkStart(t + 1) \in 0..InputBytes
    BY <1>2, <2>3, <2>4
  <2>6. offset[m] \in Nat /\ offset[m] <= ChunkStart(t + 1)
    <3>1. CASE sawEot[m]
      BY <1>1, <2>2, <2>5, <3>1 DEF BehindEot
    <3>2. CASE ~sawEot[m]
      <4>1. PICK b : b = file.tracks[t].items
        OBVIOUS
      <4>2. /\ i \in 1..(Len(b) + 1)
            /\ offset[m] = BodyStart(t) + BytesBefore(b, i - 1)
            /\ b \in Seq(Item) /\ Len(b) \in Nat
        BY <2>2, <3>2, <4>1, FileFacts DEF BeforeItem
      <4>3. i - 1 \in 0..Len(b) /\ Len(b) \in 0..Len(b) /\ i - 1 <= Len(b)
        BY <4>2
      <4>4. BytesBefore(b, i - 1) <= TrackBytes(t) /\ BytesBefore(b, i - 1) \in Nat /\ TrackBytes(t) \in Nat
        BY <4>1, <4>2, <4>3, BytesStep, BytesGrow DEF TrackBytes
      <4>5. BodyStart(t) + TrackBytes(t) = ChunkStart(t + 1) /\ BodyStart(t) \in Nat
        BY <1>1, <2>2, <2>4, ChunkStep DEF BodyStart
      <4> QED BY <4>2, <4>4, <4>5
    <3> QED BY <3>1, <3>2
  <2>7. t \in 1..(file.declared + 1)
    BY <1>1, <2>2
  <2> QED BY <1>1, <2>1, <2>5, <2>6, <2>7
<1> QED BY <1>3, <1>4, <1>5 DEF At

(* The counters of a parser count items of the file, so there are no more  *)
(* notes than events.                                                      *)
LEMMA CountersCount ==
    ASSUME file \in Files, NEW m \in Modes, NEW s, At(m, s)
    PROVE  events[m] \in Nat /\ noteStarts[m] \in 0..events[m] /\ textBytes[m] \in Nat
<1>1. \E S : S \subseteq ReadBy(m) /\ Charged(m, S)
  <2>1. \E t, i : Passed(m, t, i)
    BY DEF At, AtInput, AtChunk, AtEvents, BeforeItem, BehindEot
  <2> QED BY <2>1 DEF Passed, Behind
<1>2. PICK S : S \subseteq ReadBy(m) /\ Charged(m, S)
  BY <1>1
<1>3. S \subseteq Positions /\ Notes(S) \subseteq S /\ IsFiniteSet(S)
  BY <1>2, ReadByFinite DEF Notes
<1>4. Cardinality(Notes(S)) <= Cardinality(S)
  BY <1>3, FS_Subset
<1>5. Cardinality(S) \in Nat /\ Cardinality(Notes(S)) \in Nat /\ Cardinality(Texts(S)) \in Nat
  BY <1>3, CountsGrow
<1> QED BY <1>2, <1>4, <1>5 DEF Charged

--------------------------------------------------------------------------------
(* The next item and the flag have their types by themselves. *)
ItemTyped == item \in [Modes -> Nat \ {0}] /\ sawEot \in [Modes -> BOOLEAN]

(* Every step keeps the types of the next item and of the flag.            *)
LEMMA ItemTypedStep ==
    ASSUME ItemTyped, [Next]_vars
    PROVE  ItemTyped'
<1>1. CASE UNCHANGED vars
  BY <1>1 DEF vars, cursors, ItemTyped
<1>2. ASSUME NEW m \in Modes, Step(m)
      PROVE  ItemTyped'
  <2>1. ASSUME NEW answer, End(m, answer)
        PROVE  ItemTyped'
    BY <2>1 DEF End, cursors, ItemTyped
  <2>2. CASE Header(m)
    BY <2>1, <2>2 DEF Header, Refuse, ItemTyped
  <2>3. CASE ChunkHeader(m)
    <3>1. CASE Failing(ChunkChecks(m)) # {}
      BY <2>1, <2>3, <3>1 DEF ChunkHeader, Refuse
    <3>2. CASE Failing(ChunkChecks(m)) = {}
      <4>1. item' = [item EXCEPT ![m] = 1] /\ sawEot' = [sawEot EXCEPT ![m] = FALSE]
        BY <2>3, <3>2 DEF ChunkHeader
      <4> QED BY <4>1 DEF ItemTyped
    <3> QED BY <3>1, <3>2
  <2>4. CASE Event(m)
    BY <2>1, <2>4 DEF Event, Refuse, ItemTyped
  <2>5. CASE EndOfTrack(m)
    BY <2>1, <2>5 DEF EndOfTrack, Refuse, ItemTyped
  <2>6. CASE CloseTrack(m)
    BY <2>1, <2>6 DEF CloseTrack, Fail, ItemTyped
  <2>7. CASE Finish(m)
    BY <2>1, <2>7 DEF Finish, Fail
  <2> QED BY <1>2, <2>2, <2>3, <2>4, <2>5, <2>6, <2>7 DEF Step
<1> QED BY <1>1, <1>2 DEF Next

(* The types of the next item and of the flag are an invariant.            *)
LEMMA AlwaysItemTyped == Spec => []ItemTyped
<1>1. Init => ItemTyped
  BY DEF Init, ItemTyped
<1> QED BY <1>1, ItemTypedStep, PTL DEF Spec

(* TypeOK holds in every reachable state: the cursor of every parser       *)
(* stays inside the input, its track within the declared ones, the note    *)
(* counter never passes the event counter, and a parser has an outcome     *)
(* just when it has answered (Cursor, the policies' counters and the       *)
(* returns of parse_score_smf_impl).                                       *)
THEOREM TypeCorrect == Spec => []TypeOK
<1>1. IInv /\ ItemTyped => TypeOK
  <2> SUFFICES ASSUME IInv, ItemTyped
               PROVE  TypeOK
    OBVIOUS
  <2>1. Shape /\ file \in Files
    BY DEF IInv, Shape
  <2>2. stage \in [Modes -> {"input", "chunk", "events", "done"}]
    BY <2>1 DEF Shape
  <2>3. ASSUME NEW m \in Modes
        PROVE  /\ offset[m] \in 0..InputBytes
               /\ track[m] \in 1..(file.declared + 1)
               /\ item[m] \in Nat \ {0} /\ sawEot[m] \in BOOLEAN
               /\ events[m] \in Nat /\ noteStarts[m] \in 0..events[m] /\ textBytes[m] \in Nat
               /\ outcome[m].kind = "pending" <=> stage[m] # "done"
    <3>1. ParserInv(m)
      BY DEF IInv
    <3>2. \E s \in {"input", "chunk", "events"} : At(m, s)
      BY <2>2, <3>1 DEF ParserInv
    <3>3. item[m] \in Nat \ {0} /\ sawEot[m] \in BOOLEAN
      BY DEF ItemTyped
    <3>4. outcome[m].kind = "pending" <=> stage[m] # "done"
      BY <3>1, AnswerKind
    <3>5. /\ offset[m] \in 0..InputBytes /\ track[m] \in 1..(file.declared + 1)
          /\ events[m] \in Nat /\ noteStarts[m] \in 0..events[m] /\ textBytes[m] \in Nat
      BY <2>1, <3>2, InInput, CountersCount
    <3> QED BY <3>3, <3>4, <3>5
  <2> QED BY <2>2, <2>3 DEF TypeOK
<1> QED BY <1>1, AlwaysIInv, AlwaysItemTyped, PTL

(* The faults of a file, by where they are. *)
UpTo(m, p) == {q \in ReadBy(m) : Before(q, p)}
OverBudget(m, p) ==
    \/ Exceeds(m, "events", Cardinality(UpTo(m, p)))
    \/ Exceeds(m, "noteStarts", Cardinality(Notes(UpTo(m, p))))
    \/ Exceeds(m, "textBytes", Cardinality(Texts(UpTo(m, p))))
FaultAt(p) == EventAt(p) + (IF ItemAt(p).kind = "fault" THEN ItemAt(p).text ELSE 0)

HeadFault(m, t, x) ==
    \/ Exceeds(m, "trackBytes", TrackBytes(t)) /\ x = ChunkStart(t) + 4
    \/ file.badTag = t /\ x = ChunkStart(t)
    \/ file.cut = t /\ x = BodyStart(t)
ItemFault(m, p, x) ==
    \/ (ItemAt(p).kind = "fault" \/ OverBudget(m, p)) /\ x = FaultAt(p)
    \/ /\ m = "strict" /\ ItemAt(p).kind = "eot"
       /\ \/ ItemAt(p).text # 0 /\ x = EventAt(p)
          \/ p[2] < Len(file.tracks[p[1]].items) /\ x = EventAt(p) + ItemAt(p).body
HasEot(m, t) == \E p \in ReadBy(m) : p[1] = t /\ ItemAt(p).kind = "eot"
EndFault(m, t, x) == m = "strict" /\ ~HasEot(m, t) /\ x = ChunkStart(t + 1)
LastFault(m, x) ==
    x = FileEnd /\ (file.declared > Len(file.tracks) \/ (m = "strict" /\ file.trailing # 0))

(* The faults of a file, taken apart: in its header, at the head or the    *)
(* end of a track, at an item, or behind the last track.                   *)
LEMMA FaultsAre ==
    ASSUME file \in Files, NEW m \in Modes, NEW x
    PROVE  x \in Faults(m) <=>
             \/ \E k \in Failing(HeaderChecks(m)) : x = HeaderChecks(m)[k].offset
             \/ \E t \in 1..Len(file.tracks) : HeadFault(m, t, x) \/ EndFault(m, t, x)
             \/ \E p \in ReadBy(m) : ItemFault(m, p, x)
             \/ LastFault(m, x)
<1> DEFINE F1 == \E k \in Failing(HeaderChecks(m)) : x = HeaderChecks(m)[k].offset
           F2 == \E t \in 1..Len(file.tracks) : HeadFault(m, t, x)
           F3 == \E p \in ReadBy(m) : (ItemAt(p).kind = "fault" \/ OverBudget(m, p)) /\ x = FaultAt(p)
           F4 == \E p \in ReadBy(m) : /\ m = "strict" /\ ItemAt(p).kind = "eot"
                    /\ \/ ItemAt(p).text # 0 /\ x = EventAt(p)
                       \/ p[2] < Len(file.tracks[p[1]].items) /\ x = EventAt(p) + ItemAt(p).body
           F5 == \E t \in 1..Len(file.tracks) : EndFault(m, t, x)
           F6 == x = FileEnd /\ file.declared > Len(file.tracks)
           F7 == x = FileEnd /\ m = "strict" /\ file.trailing # 0
<1>1. DOMAIN file.tracks = 1..Len(file.tracks)
  BY FileFacts
<1>2. x \in HeaderFaults(m) <=> F1
  BY DEF HeaderFaults
<1>3. x \in ChunkFaults(m) <=> F2 \/ F6
  <2>1. x \in {ChunkStart(t) + 4 : t \in {u \in DOMAIN file.tracks : Exceeds(m, "trackBytes", TrackBytes(u))}}
        <=> \E t \in 1..Len(file.tracks) : Exceeds(m, "trackBytes", TrackBytes(t)) /\ x = ChunkStart(t) + 4
    BY <1>1
  <2>2. x \in {ChunkStart(t) : t \in {u \in DOMAIN file.tracks : file.badTag = u}}
        <=> \E t \in 1..Len(file.tracks) : file.badTag = t /\ x = ChunkStart(t)
    BY <1>1
  <2>3. x \in {BodyStart(t) : t \in {u \in DOMAIN file.tracks : file.cut = u}}
        <=> \E t \in 1..Len(file.tracks) : file.cut = t /\ x = BodyStart(t)
    BY <1>1
  <2>4. x \in (IF file.declared > Len(file.tracks) THEN {FileEnd} ELSE {}) <=> F6
    OBVIOUS
  <2>5. x \in ChunkFaults(m) <=>
          \/ x \in {ChunkStart(t) + 4 : t \in {u \in DOMAIN file.tracks : Exceeds(m, "trackBytes", TrackBytes(u))}}
          \/ x \in {ChunkStart(t) : t \in {u \in DOMAIN file.tracks : file.badTag = u}}
          \/ x \in {BodyStart(t) : t \in {u \in DOMAIN file.tracks : file.cut = u}}
          \/ x \in (IF file.declared > Len(file.tracks) THEN {FileEnd} ELSE {})
    BY DEF ChunkFaults
  <2> HIDE DEF F6
  <2> QED BY <2>1, <2>2, <2>3, <2>4, <2>5 DEF HeadFault
<1>4. x \in EventFaults(m) <=> F3
  BY DEF EventFaults, OverBudget, UpTo, FaultAt
<1>5. x \in GrammarFaults(m) <=> F4 \/ F5 \/ F7
  <2>1. CASE m # "strict"
    BY <2>1 DEF GrammarFaults, EndFault
  <2>2. CASE m = "strict"
    <3> DEFINE eots == {p \in ReadBy(m) : ItemAt(p).kind = "eot"}
    <3>1. x \in GrammarFaults(m) <=>
            \/ x \in {EventAt(p) : p \in {q \in eots : ItemAt(q).text # 0}}
            \/ x \in {EventAt(p) + ItemAt(p).body : p \in {q \in eots : q[2] < Len(file.tracks[q[1]].items)}}
            \/ x \in {BodyStart(t) + TrackBytes(t) : t \in {u \in DOMAIN file.tracks : \A p \in eots : p[1] # u}}
            \/ x \in (IF file.trailing # 0 THEN {FileEnd} ELSE {})
      BY <2>2 DEF GrammarFaults
    <3>2. x \in {EventAt(p) : p \in {q \in eots : ItemAt(q).text # 0}}
          \/ x \in {EventAt(p) + ItemAt(p).body : p \in {q \in eots : q[2] < Len(file.tracks[q[1]].items)}}
          <=> F4
      BY <2>2
    <3>3. x \in {BodyStart(t) + TrackBytes(t) : t \in {u \in DOMAIN file.tracks : \A p \in eots : p[1] # u}}
          <=> F5
      <4>1. \A u : (\A p \in eots : p[1] # u) <=> ~HasEot(m, u)
        BY DEF HasEot
      <4>2. \A t \in 1..Len(file.tracks) : BodyStart(t) + TrackBytes(t) = ChunkStart(t + 1)
        BY ChunkStep
      <4> HIDE DEF eots
      <4> QED BY <1>1, <2>2, <4>1, <4>2 DEF EndFault
    <3>4. x \in (IF file.trailing # 0 THEN {FileEnd} ELSE {}) <=> F7
      BY <2>2
    <3> HIDE DEF eots, F4, F5, F7
    <3> QED BY <3>1, <3>2, <3>3, <3>4
  <2> QED BY <2>1, <2>2
<1>6. LastFault(m, x) <=> F6 \/ F7
  BY DEF LastFault
<1>7. (\E t \in 1..Len(file.tracks) : HeadFault(m, t, x) \/ EndFault(m, t, x)) <=> F2 \/ F5
  OBVIOUS
<1>8. (\E p \in ReadBy(m) : ItemFault(m, p, x)) <=> F3 \/ F4
  BY DEF ItemFault
<1>9. x \in Faults(m) <=> x \in HeaderFaults(m) \/ x \in ChunkFaults(m) \/ x \in EventFaults(m) \/ x \in GrammarFaults(m)
  BY DEF Faults
<1> HIDE DEF F1, F2, F3, F4, F5, F6, F7
<1> QED BY <1>2, <1>3, <1>4, <1>5, <1>6, <1>7, <1>8, <1>9 DEF F1

(* Every limit is a number.                                                *)
LEMMA LimitsAreNat ==
    ASSUME limits \in Limits, NEW r \in Resources
    PROVE  limits[r] \in Nat
BY LimitAssumption

(* What a parser has passed holds no fault. *)
LEMMA BehindIsSound ==
    ASSUME file \in Files, limits \in Limits, NEW m \in Modes, NEW t \in Nat, NEW i \in Nat,
           Passed(m, t, i), NEW p \in Behind(m, t, i)
    PROVE  \A x : ~ItemFault(m, p, x)
<1> DEFINE S == Behind(m, t, i)
           U == UpTo(m, p)
<1>1. p \in ReadBy(m) /\ p \in Positions /\ (p[1] < t \/ (p[1] = t /\ p[2] < i)) /\ p[1] \in Nat /\ p[2] \in Nat
  BY PositionFacts DEF Behind, ReadBy
<1>2. U \subseteq S
  <2> SUFFICES ASSUME NEW q \in U
               PROVE  q \in S
    OBVIOUS
  <2>1. q \in ReadBy(m) /\ Before(q, p)
    BY DEF UpTo
  <2>2. q \in Positions
    BY <2>1 DEF ReadBy
  <2>3. q[1] \in Nat /\ q[2] \in Nat
    BY <2>2, PositionFacts
  <2>4. q[1] < t \/ (q[1] = t /\ q[2] < i)
    BY <1>1, <2>1, <2>3 DEF Before
  <2> QED BY <2>1, <2>4 DEF Behind
<1>3. S \subseteq Positions
  BY DEF Behind, ReadBy
<1>4. /\ Cardinality(U) <= Cardinality(S) /\ Cardinality(U) \in Nat /\ Cardinality(S) \in Nat
      /\ Cardinality(Notes(U)) <= Cardinality(Notes(S))
      /\ Cardinality(Notes(U)) \in Nat /\ Cardinality(Notes(S)) \in Nat
      /\ Cardinality(Texts(U)) <= Cardinality(Texts(S))
      /\ Cardinality(Texts(U)) \in Nat /\ Cardinality(Texts(S)) \in Nat
  BY <1>2, <1>3, CountsGrow
<1>5. /\ ~Exceeds(m, "events", Cardinality(S)) /\ ~Exceeds(m, "noteStarts", Cardinality(Notes(S)))
      /\ ~Exceeds(m, "textBytes", Cardinality(Texts(S)))
  BY DEF Passed, Charged, WithinBudget
<1>6. limits["events"] \in Nat /\ limits["noteStarts"] \in Nat /\ limits["textBytes"] \in Nat
  BY LimitsAreNat DEF Resources
<1> HIDE DEF S, U
<1>7. ~(\/ Exceeds(m, "events", Cardinality(U)) \/ Exceeds(m, "noteStarts", Cardinality(Notes(U)))
        \/ Exceeds(m, "textBytes", Cardinality(Texts(U))))
  BY <1>4, <1>5, <1>6 DEF Exceeds
<1>8. ~OverBudget(m, p)
  BY <1>7 DEF OverBudget, U
<1>9. ItemSound(m, p)
  BY DEF Passed
<1>10. Len(file.tracks[p[1]].items) \in Nat
  BY <1>1, PositionFacts, FileFacts
<1> QED BY <1>1, <1>8, <1>9, <1>10 DEF ItemSound, ItemFault

(* The faults of an item lie behind its delta, those of a chunk in it. *)
LEMMA ItemFaultAt ==
    ASSUME file \in Files, NEW m \in Modes, NEW p \in Positions, NEW x, ItemFault(m, p, x)
    PROVE  x \in Nat /\ EventAt(p) <= x /\ EventAt(p) \in Nat /\ StartOf(p) <= x
<1>1. /\ StartOf(p) \in Nat /\ EventAt(p) = StartOf(p) + ItemAt(p).delta
      /\ ItemAt(p).delta \in Nat /\ ItemAt(p).body \in Nat /\ ItemAt(p).text \in Nat
  BY StartInChunk, PositionFacts, ItemFacts
<1>2. PICK a, d, b, c : a = StartOf(p) /\ d = ItemAt(p).delta /\ b = ItemAt(p).body /\ c = ItemAt(p).text
  OBVIOUS
<1>3. EventAt(p) = a + d /\ a \in Nat /\ d \in Nat /\ b \in Nat /\ c \in Nat
  BY <1>1, <1>2
<1>4. x \in {a + d, (a + d) + 0, (a + d) + c, (a + d) + b}
  BY <1>2, <1>3 DEF ItemFault, FaultAt
<1> QED BY <1>2, <1>3, <1>4

(* A fault at the head of a chunk lies in that chunk, one at its end at    *)
(* the start of the next.                                                  *)
LEMMA HeadFaultAt ==
    ASSUME file \in Files, NEW m \in Modes, NEW t \in 1..Len(file.tracks), NEW x
    PROVE  /\ HeadFault(m, t, x) => x \in Nat /\ ChunkStart(t) <= x
           /\ EndFault(m, t, x) => x \in Nat /\ ChunkStart(t) + ChunkHead <= x /\ x = ChunkStart(t + 1)
<1>1. /\ ChunkStart(t) \in Nat /\ ChunkStart(t + 1) = ChunkStart(t) + ChunkHead + TrackBytes(t)
      /\ BodyStart(t) = ChunkStart(t) + ChunkHead /\ TrackBytes(t) \in Nat /\ ChunkHead = 8
  <2>1. t \in 1..(Len(file.tracks) + 1)
    BY FileFacts
  <2> QED BY <2>1, ChunkStep, TrackBytesType DEF ChunkHead
<1> QED BY <1>1 DEF HeadFault, EndFault

(* The faults that a parser which has come this far still may meet. *)
LEMMA FaultsAhead ==
    ASSUME file \in Files, limits \in Limits, NEW m \in Modes, Failing(HeaderChecks(m)) = {},
           NEW t \in 1..(Len(file.tracks) + 1), NEW i \in Nat \ {0},
           \A u \in 1..(t - 1) : TrackSound(m, u), Passed(m, t, i), NEW x \in Faults(m)
    PROVE  \/ \E u \in 1..Len(file.tracks) : u >= t /\ (HeadFault(m, u, x) \/ EndFault(m, u, x))
           \/ \E p \in ReadBy(m) : (p[1] > t \/ (p[1] = t /\ p[2] >= i)) /\ ItemFault(m, p, x)
           \/ LastFault(m, x)
<1>1. t \in Nat
  BY FileFacts
<1>2. CASE \E u \in 1..Len(file.tracks) : HeadFault(m, u, x) \/ EndFault(m, u, x)
  <2>1. PICK u \in 1..Len(file.tracks) : HeadFault(m, u, x) \/ EndFault(m, u, x)
    BY <1>2
  <2>2. CASE u < t
    <3>1. u \in 1..(t - 1)
      BY <1>1, <2>2, FileFacts
    <3>2. TrackSound(m, u)
      BY <3>1
    <3> QED BY <2>1, <3>2 DEF TrackSound, ChunkSound, HeadFault, EndFault, HasEot
  <2>3. u < t \/ u >= t
    BY <1>1, FileFacts
  <2> QED BY <2>1, <2>2, <2>3
<1>3. CASE \E p \in ReadBy(m) : ItemFault(m, p, x)
  <2>1. PICK p \in ReadBy(m) : ItemFault(m, p, x)
    BY <1>3
  <2>2. p \notin Behind(m, t, i)
    BY <1>1, <2>1, BehindIsSound
  <2>3. p \in Positions
    BY DEF ReadBy
  <2>4. p[1] \in Nat /\ p[2] \in Nat
    BY <2>3, PositionFacts
  <2>5. ~(p[1] < t \/ (p[1] = t /\ p[2] < i))
    BY <2>2 DEF Behind
  <2>6. p[1] > t \/ (p[1] = t /\ p[2] >= i)
    BY <1>1, <2>4, <2>5
  <2> QED BY <2>1, <2>6
<1> QED BY <1>2, <1>3, FaultsAre

(* What is ahead of the place lies behind its offset. *)
LEMMA LaterTracks ==
    ASSUME file \in Files, NEW m \in Modes, NEW t \in 1..(Len(file.tracks) + 1), NEW x,
           \/ \E u \in 1..Len(file.tracks) : u >= t /\ (HeadFault(m, u, x) \/ EndFault(m, u, x))
           \/ \E p \in ReadBy(m) : p[1] >= t /\ ItemFault(m, p, x)
           \/ LastFault(m, x)
    PROVE  x \in Nat /\ ChunkStart(t) <= x
<1>1. /\ ChunkStart(t) \in Nat /\ Len(file.tracks) \in Nat /\ t \in Nat /\ ChunkHead = 8
      /\ ChunkStart(t) <= FileEnd /\ FileEnd \in Nat
  BY FileFacts, FileEndFacts, ChunkStep DEF ChunkHead
<1>2. ASSUME NEW u \in 1..Len(file.tracks), u >= t
      PROVE  ChunkStart(t) <= ChunkStart(u) /\ ChunkStart(u) \in Nat
  <2>1. u \in 1..(Len(file.tracks) + 1) /\ t <= u
    BY <1>1, <1>2
  <2> QED BY <2>1, ChunksGrow, ChunkStep
<1>3. CASE \E u \in 1..Len(file.tracks) : u >= t /\ (HeadFault(m, u, x) \/ EndFault(m, u, x))
  <2>1. PICK u \in 1..Len(file.tracks) : u >= t /\ (HeadFault(m, u, x) \/ EndFault(m, u, x))
    BY <1>3
  <2>2. x \in Nat /\ ChunkStart(u) <= x
    BY <1>1, <1>2, <2>1, HeadFaultAt
  <2>3. ChunkStart(t) <= ChunkStart(u) /\ ChunkStart(u) \in Nat
    BY <1>2, <2>1
  <2> QED BY <1>1, <2>2, <2>3
<1>4. CASE \E p \in ReadBy(m) : p[1] >= t /\ ItemFault(m, p, x)
  <2>1. PICK p \in ReadBy(m) : p[1] >= t /\ ItemFault(m, p, x)
    BY <1>4
  <2>2. p \in Positions
    BY DEF ReadBy
  <2>3. p[1] \in 1..Len(file.tracks)
    BY <2>2, PositionFacts
  <2>4. /\ ChunkStart(p[1]) + ChunkHead <= StartOf(p) /\ StartOf(p) \in Nat
        /\ x \in Nat /\ StartOf(p) <= x
    BY <2>1, <2>2, StartInChunk, ItemFaultAt
  <2>5. ChunkStart(t) <= ChunkStart(p[1]) /\ ChunkStart(p[1]) \in Nat
    BY <1>2, <2>1, <2>3
  <2>6. PICK a, b, c : a = ChunkStart(t) /\ b = ChunkStart(p[1]) /\ c = StartOf(p)
    OBVIOUS
  <2> QED BY <1>1, <2>4, <2>5, <2>6
<1>5. CASE LastFault(m, x)
  BY <1>1, <1>5 DEF LastFault
<1> QED BY <1>3, <1>4, <1>5

(* The items up to one. *)
LEMMA UpToNext ==
    ASSUME file \in Files, NEW m \in Modes, NEW t \in 1..Len(file.tracks),
           NEW i \in 1..Len(file.tracks[t].items)
    PROVE  UpTo(m, <<t, i>>) = Behind(m, t, i + 1)
<1>1. t \in Nat /\ i \in Nat
  BY FileFacts
<1>2. <<t, i>>[1] = t /\ <<t, i>>[2] = i
  OBVIOUS
<1>3. ASSUME NEW q \in ReadBy(m)
      PROVE  Before(q, <<t, i>>) <=> (q[1] < t \/ (q[1] = t /\ q[2] < i + 1))
  <2>1. q \in Positions
    BY DEF ReadBy
  <2>2. q[1] \in Nat /\ q[2] \in Nat
    BY <2>1, PositionFacts
  <2>3. q[2] <= i <=> q[2] < i + 1
    BY <1>1, <2>2
  <2> QED BY <1>2, <2>3 DEF Before
<1> QED BY <1>3 DEF UpTo, Behind

(* The item at which a parser stands: its budgets and what lies behind it. *)
LEMMA ItemHere ==
    ASSUME file \in Files, NEW m \in Modes, NEW t \in 1..Len(file.tracks),
           NEW i \in 1..Len(file.tracks[t].items), StopAtEndOfTrack(m) => ~EotBefore(t, i),
           Passed(m, t, i)
    PROVE  /\ <<t, i>> \in ReadBy(m)
           /\ OverBudget(m, <<t, i>>) <=>
                \/ Exceeds(m, "events", events[m] + 1)
                \/ Exceeds(m, "noteStarts", noteStarts[m] + NotesOf(ItemAt(<<t, i>>)))
                \/ Exceeds(m, "textBytes", textBytes[m] + TextOf(ItemAt(<<t, i>>)))
           /\ Cardinality(UpTo(m, <<t, i>>)) = events[m] + 1
           /\ Cardinality(Notes(UpTo(m, <<t, i>>))) = noteStarts[m] + NotesOf(ItemAt(<<t, i>>))
           /\ Cardinality(Texts(UpTo(m, <<t, i>>))) = textBytes[m] + TextOf(ItemAt(<<t, i>>))
<1> DEFINE p == <<t, i>>
           S == Behind(m, t, i)
<1>1. p \in ReadBy(m) /\ p \notin S /\ UpTo(m, p) = S \cup {p}
  <2>1. UpTo(m, p) = Behind(m, t, i + 1)
    BY UpToNext
  <2>2. p \in ReadBy(m) /\ p \notin S /\ Behind(m, t, i + 1) = S \cup {p}
    BY BehindNext
  <2> QED BY <2>1, <2>2
<1>2. S \subseteq Positions /\ p \in Positions \ S
  BY <1>1 DEF Behind, ReadBy
<1>3. /\ Cardinality(S \cup {p}) = Cardinality(S) + 1
      /\ Cardinality(Notes(S \cup {p})) = Cardinality(Notes(S)) + NotesOf(ItemAt(p))
      /\ Cardinality(Texts(S \cup {p})) = Cardinality(Texts(S)) + TextOf(ItemAt(p))
  BY <1>2, OneMore
<1>4. Charged(m, S)
  BY DEF Passed
<1> QED BY <1>1, <1>3, <1>4 DEF OverBudget, Charged

(* The first check that fails is at the first fault of the file. *)
Wins(m, checks) ==
    /\ FirstOf(checks).offset \in Faults(m)
    /\ \A x \in Faults(m) : x \in Nat /\ FirstOf(checks).offset <= x

(* FirstOf is the failing check with the least index.                      *)
LEMMA FirstIs ==
    ASSUME NEW checks, NEW n \in Nat, DOMAIN checks = 1..n, Failing(checks) # {}
    PROVE  \E k \in 1..n : /\ checks[k].fails /\ FirstOf(checks).offset = checks[k].offset
                           /\ FirstOf(checks).kind = checks[k].kind
                           /\ \A j \in 1..n : checks[j].fails => k <= j
<1>1. PICK k : k = Min(Failing(checks))
  OBVIOUS
<1>2. k \in Failing(checks) /\ \A j \in Failing(checks) : k <= j
  BY <1>1, FirstFails
<1>3. FirstOf(checks) = [kind |-> checks[k].kind, offset |-> checks[k].offset]
  BY <1>1 DEF FirstOf
<1> QED BY <1>2, <1>3 DEF Failing

(* A header check that fails first is at the first fault of the file.      *)
LEMMA HeaderWins ==
    ASSUME file \in Files, NEW m \in Modes, Failing(HeaderChecks(m)) # {}
    PROVE  Wins(m, HeaderChecks(m))
<1> DEFINE c == HeaderChecks(m)
<1>1. /\ DOMAIN c = 1..6
      /\ c[1].offset = 0 /\ c[2].offset = 0 /\ c[3].offset = 4 /\ c[4].offset = 8
      /\ c[5].offset = 10 /\ c[6].offset = 12
  BY DEF HeaderChecks, Check
<1>2. \A j \in 1..6 : j = 1 \/ j = 2 \/ j = 3 \/ j = 4 \/ j = 5 \/ j = 6
  OBVIOUS
<1>3. /\ \A j \in 1..6 : c[j].offset \in Nat /\ c[j].offset <= 12
      /\ \A j, k \in 1..6 : j <= k => c[j].offset <= c[k].offset
  BY <1>1, <1>2
<1>4. 6 \in Nat /\ Failing(c) # {}
  OBVIOUS
<1> HIDE DEF c
<1>5. PICK k \in 1..6 : /\ c[k].fails /\ FirstOf(c).offset = c[k].offset
                        /\ \A j \in 1..6 : c[j].fails => k <= j
  <2>1. DOMAIN c = 1..6
    BY <1>1
  <2> QED BY <1>4, <2>1, FirstIs
<1>6. c[k].offset \in Faults(m)
  BY <1>1, <1>5, FaultsAre DEF Failing, c
<1>7. ASSUME NEW x \in Faults(m)
      PROVE  x \in Nat /\ c[k].offset <= x
  <2>1. CASE \E j \in Failing(c) : x = c[j].offset
    <3>1. PICK j \in 1..6 : c[j].fails /\ x = c[j].offset
      BY <1>1, <2>1 DEF Failing
    <3> QED BY <1>3, <1>5, <3>1
  <2>2. CASE ~\E j \in Failing(c) : x = c[j].offset
    <3>1. /\ 1 \in 1..(Len(file.tracks) + 1) /\ ChunkStart(1) = 14
          /\ \A u \in 1..Len(file.tracks) : u >= 1
      BY FileFacts, ChunkStep DEF HeaderBytes
    <3>2. \A p \in ReadBy(m) : p[1] >= 1
      <4> SUFFICES ASSUME NEW p \in ReadBy(m)
                   PROVE  p[1] >= 1
        OBVIOUS
      <4>1. p \in Positions
        BY DEF ReadBy
      <4> QED BY <3>1, <4>1, PositionFacts
    <3>3. \/ \E u \in 1..Len(file.tracks) : u >= 1 /\ (HeadFault(m, u, x) \/ EndFault(m, u, x))
          \/ \E p \in ReadBy(m) : p[1] >= 1 /\ ItemFault(m, p, x)
          \/ LastFault(m, x)
      <4>1. \/ \E u \in 1..Len(file.tracks) : HeadFault(m, u, x) \/ EndFault(m, u, x)
            \/ \E p \in ReadBy(m) : ItemFault(m, p, x)
            \/ LastFault(m, x)
        BY <2>2, FaultsAre DEF c
      <4> QED BY <3>1, <3>2, <4>1
    <3>4. x \in Nat /\ ChunkStart(1) <= x
      <4>1. PICK t \in 1..(Len(file.tracks) + 1) : t = 1
        BY <3>1
      <4>2. \/ \E u \in 1..Len(file.tracks) : u >= t /\ (HeadFault(m, u, x) \/ EndFault(m, u, x))
            \/ \E p \in ReadBy(m) : p[1] >= t /\ ItemFault(m, p, x)
            \/ LastFault(m, x)
        BY <3>3, <4>1
      <4>3. x \in Nat /\ ChunkStart(t) <= x
        BY <4>2, LaterTracks
      <4> QED BY <4>1, <4>3
    <3>5. c[k].offset \in Nat /\ c[k].offset <= 12
      BY <1>3
    <3>6. 14 <= x
      BY <3>1, <3>4
    <3> QED BY ONLY <3>4, <3>5, <3>6
  <2> QED BY <2>1, <2>2
<1> QED BY <1>5, <1>6, <1>7 DEF Wins, c

(* In front of a chunk only faults from there on are left. *)
LEMMA AheadOfChunk ==
    ASSUME file \in Files, limits \in Limits, NEW m \in Modes, AtChunk(m), NEW x \in Faults(m)
    PROVE  /\ \/ \E u \in 1..Len(file.tracks) : u >= track[m] /\ (HeadFault(m, u, x) \/ EndFault(m, u, x))
              \/ \E p \in ReadBy(m) : p[1] >= track[m] /\ ItemFault(m, p, x)
              \/ LastFault(m, x)
           /\ x \in Nat /\ ChunkStart(track[m]) <= x
<1>1. PICK t : t = track[m]
  OBVIOUS
<1>2. /\ Failing(HeaderChecks(m)) = {} /\ t \in 1..(Len(file.tracks) + 1) /\ t \in Nat
      /\ \A u \in 1..(t - 1) : TrackSound(m, u)
      /\ Passed(m, t, 1) /\ 1 \in Nat \ {0}
  BY <1>1, FileFacts DEF AtChunk
<1>3. \/ \E u \in 1..Len(file.tracks) : u >= t /\ (HeadFault(m, u, x) \/ EndFault(m, u, x))
      \/ \E p \in ReadBy(m) : (p[1] > t \/ (p[1] = t /\ p[2] >= 1)) /\ ItemFault(m, p, x)
      \/ LastFault(m, x)
  BY <1>2, FaultsAhead
<1>4. \A p \in ReadBy(m) : (p[1] > t \/ (p[1] = t /\ p[2] >= 1)) => p[1] >= t
  <2> SUFFICES ASSUME NEW p \in ReadBy(m)
               PROVE  (p[1] > t \/ (p[1] = t /\ p[2] >= 1)) => p[1] >= t
    OBVIOUS
  <2>1. p \in Positions
    BY DEF ReadBy
  <2>2. p[1] \in Nat
    BY <2>1, PositionFacts
  <2> QED BY <1>2, <2>2
<1>5. \/ \E u \in 1..Len(file.tracks) : u >= t /\ (HeadFault(m, u, x) \/ EndFault(m, u, x))
      \/ \E p \in ReadBy(m) : p[1] >= t /\ ItemFault(m, p, x)
      \/ LastFault(m, x)
  BY <1>3, <1>4
<1> QED BY <1>1, <1>2, <1>5, LaterTracks

(* Behind the last chunk only the end of the file is left. *)
LEMMA AheadOfEnd ==
    ASSUME file \in Files, limits \in Limits, NEW m \in Modes, AtChunk(m),
           track[m] = Len(file.tracks) + 1, NEW x \in Faults(m)
    PROVE  LastFault(m, x) /\ ChunkStart(track[m]) = FileEnd /\ x \in Nat
<1>1. Len(file.tracks) \in Nat /\ ~\E u \in 1..Len(file.tracks) : u >= track[m]
  BY FileFacts
<1>2. ~\E p \in ReadBy(m) : p[1] >= track[m]
  <2> SUFFICES ASSUME NEW p \in ReadBy(m), p[1] >= track[m]
               PROVE  FALSE
    OBVIOUS
  <2>1. p \in Positions
    BY DEF ReadBy
  <2> QED BY <1>1, <2>1, PositionFacts
<1> QED BY <1>1, <1>2, AheadOfChunk DEF FileEnd

(* A check of a chunk head that fails first is at the first fault: every   *)
(* fault behind the cursor has been ruled out.                             *)
LEMMA ChunkWins ==
    ASSUME file \in Files, limits \in Limits, NEW m \in Modes, AtChunk(m), track[m] <= file.declared,
           Failing(ChunkChecks(m)) # {}
    PROVE  Wins(m, ChunkChecks(m))
<1> DEFINE c == ChunkChecks(m)
<1>1. PICK t, o : t = track[m] /\ o = ChunkStart(t)
  OBVIOUS
<1>2. /\ t \in 1..(Len(file.tracks) + 1) /\ t \in Nat /\ Len(file.tracks) \in Nat
      /\ o \in Nat /\ offset[m] = o /\ file.declared \in Nat
  BY <1>1, FileFacts, ChunkStep DEF AtChunk
<1>3. /\ DOMAIN c = 1..4 /\ ChunkHead = 8
      /\ c[1].offset = o /\ c[2].offset = o /\ c[3].offset = o + 4 /\ c[4].offset = o + 8
      /\ c[1].fails <=> t > Len(file.tracks)
      /\ c[2].fails <=> ~(t > Len(file.tracks)) /\ file.badTag = t
      /\ c[3].fails <=> ~(t > Len(file.tracks)) /\ Exceeds(m, "trackBytes", TrackBytes(t))
      /\ c[4].fails <=> ~(t > Len(file.tracks)) /\ file.cut = t
  <2>1. c = <<Check(t > Len(file.tracks), "UnexpectedEnd", o),
              Check(~(t > Len(file.tracks)) /\ file.badTag = t, "ExpectedChunk", o),
              Check(~(t > Len(file.tracks)) /\ Exceeds(m, "trackBytes", TrackBytes(t)), "TrackBytes", o + 4),
              Check(~(t > Len(file.tracks)) /\ file.cut = t, "UnexpectedEnd", o + ChunkHead)>>
    BY <1>1, <1>2 DEF ChunkChecks
  <2>2. ChunkHead = 8
    BY DEF ChunkHead
  <2>3. \A b, k, x : Check(b, k, x).fails = b /\ Check(b, k, x).offset = x
    BY DEF Check
  <2> HIDE DEF c
  <2>4. DOMAIN c = 1..4
    BY <2>1
  <2>5. /\ c[1].offset = o /\ c[2].offset = o /\ c[3].offset = o + 4 /\ c[4].offset = o + 8
    BY <2>1, <2>2, <2>3
  <2>6. c[1].fails = (t > Len(file.tracks))
    BY <2>1, <2>3
  <2>7. c[2].fails = (~(t > Len(file.tracks)) /\ file.badTag = t)
    BY <2>1, <2>3
  <2>8. c[3].fails = (~(t > Len(file.tracks)) /\ Exceeds(m, "trackBytes", TrackBytes(t)))
    BY <2>1, <2>3
  <2>9. c[4].fails = (~(t > Len(file.tracks)) /\ file.cut = t)
    BY <2>1, <2>3
  <2> QED BY <2>2, <2>4, <2>5, <2>6, <2>7, <2>8, <2>9
<1>4. 4 \in Nat /\ Failing(c) # {}
  OBVIOUS
<1> HIDE DEF c
<1>5. PICK k \in 1..4 : /\ c[k].fails /\ FirstOf(c).offset = c[k].offset
                        /\ \A j \in 1..4 : c[j].fails => k <= j
  BY <1>3, <1>4, FirstIs
<1>6. k = 1 \/ k = 2 \/ k = 3 \/ k = 4
  OBVIOUS
<1>7. CASE t > Len(file.tracks)
  <2>1. t = Len(file.tracks) + 1 /\ c[1].fails
    BY <1>2, <1>3, <1>7
  <2>2. FirstOf(c).offset = o /\ o = FileEnd
    <3>1. 1 \in 1..4 /\ k <= 1
      BY <1>5, <2>1
    <3> QED BY <1>1, <1>3, <1>5, <1>6, <2>1, <3>1 DEF FileEnd
  <2>3. o \in Faults(m)
    <3>1. LastFault(m, o)
      BY <1>1, <1>2, <1>7, <2>2 DEF LastFault
    <3> QED BY <3>1, FaultsAre
  <2>4. \A x \in Faults(m) : x \in Nat /\ o <= x
    BY <1>1, AheadOfChunk
  <2> QED BY <2>2, <2>3, <2>4 DEF Wins, c
<1>8. CASE ~(t > Len(file.tracks))
  <2>1. t \in 1..Len(file.tracks)
    BY <1>2, <1>8
  <2>2. BodyStart(t) = o + 8
    BY <1>1, <1>3, <2>1, ChunkStep
  <2>3. /\ c[2].fails => HeadFault(m, t, c[2].offset)
        /\ c[3].fails => HeadFault(m, t, c[3].offset)
        /\ c[4].fails => HeadFault(m, t, c[4].offset)
        /\ ~c[1].fails
    BY <1>1, <1>3, <1>8, <2>2 DEF HeadFault
  <2>4. HeadFault(m, t, c[k].offset)
    BY <1>5, <1>6, <2>3
  <2>5. c[k].offset \in Faults(m)
    BY <2>1, <2>4, FaultsAre
  <2>6. c[k].offset \in Nat /\ c[k].offset <= o + 8
    BY <1>2, <1>3, <1>6
  <2>7. ASSUME NEW x \in Faults(m)
        PROVE  x \in Nat /\ c[k].offset <= x
    <3>1. /\ x \in Nat
          /\ \/ \E u \in 1..Len(file.tracks) : u >= t /\ (HeadFault(m, u, x) \/ EndFault(m, u, x))
             \/ \E p \in ReadBy(m) : p[1] >= t /\ ItemFault(m, p, x)
             \/ LastFault(m, x)
      BY <1>1, AheadOfChunk
    <3>2. CASE HeadFault(m, t, x)
      <4>1. 2 \in 1..4 /\ 3 \in 1..4 /\ 4 \in 1..4
        OBVIOUS
      <4>2. \/ c[2].fails /\ x = c[2].offset
            \/ c[3].fails /\ x = c[3].offset
            \/ c[4].fails /\ x = c[4].offset
        BY <1>1, <1>3, <1>8, <2>2, <3>2 DEF HeadFault
      <4>3. \E j \in {2, 3, 4} : c[j].fails /\ x = c[j].offset /\ k <= j
        BY <1>5, <4>1, <4>2
      <4>4. c[k].offset <= x
        BY <1>2, <1>3, <1>6, <2>3, <1>5, <4>3, SMTT(30)
      <4> QED BY <3>1, <4>4
    <3>3. CASE EndFault(m, t, x)
      <4>1. /\ ChunkStart(t) + ChunkHead <= x /\ ChunkStart(t) = o /\ o \in Nat
            /\ ChunkHead = 8
        BY <1>1, <1>2, <1>3, <2>1, <3>3, HeadFaultAt
      <4> QED BY <2>6, <3>1, <4>1
    <3>4. CASE \E p \in ReadBy(m) : p[1] >= t /\ ItemFault(m, p, x)
      <4>1. PICK p \in ReadBy(m) : p[1] >= t /\ ItemFault(m, p, x)
        BY <3>4
      <4>2. p \in Positions
        BY DEF ReadBy
      <4>3. /\ ChunkStart(p[1]) + ChunkHead <= StartOf(p) /\ StartOf(p) \in Nat /\ StartOf(p) <= x
        BY <4>1, <4>2, StartInChunk, ItemFaultAt
      <4>4. p[1] \in 1..(Len(file.tracks) + 1) /\ t <= p[1]
        BY <1>2, <4>1, <4>2, PositionFacts, FileFacts
      <4>5. o <= ChunkStart(p[1]) /\ ChunkStart(p[1]) \in Nat
        BY <1>1, <1>2, <4>4, ChunksGrow, ChunkStep
      <4>6. PICK a, b, d : a = ChunkStart(p[1]) /\ b = StartOf(p) /\ d = c[k].offset
        OBVIOUS
      <4>7. /\ o <= a /\ a \in Nat /\ a + 8 <= b /\ b \in Nat /\ b <= x /\ x \in Nat
            /\ o \in Nat /\ d \in Nat /\ d <= o + 8
        BY <1>2, <1>3, <2>6, <3>1, <4>3, <4>5, <4>6
      <4>8. d <= x
        BY ONLY <4>7
      <4> QED BY <3>1, <4>6, <4>8
    <3>5. CASE \/ \E u \in 1..Len(file.tracks) : u > t /\ (HeadFault(m, u, x) \/ EndFault(m, u, x))
               \/ LastFault(m, x)
      <4>1. t + 1 \in 1..(Len(file.tracks) + 1) /\ \A u \in 1..Len(file.tracks) : u > t => u >= t + 1
        BY <1>2, <2>1
      <4>2. ChunkStart(t + 1) <= x
        BY <3>5, <4>1, LaterTracks
      <4>3. ChunkStart(t + 1) = o + 8 + TrackBytes(t) /\ TrackBytes(t) \in Nat
        BY <1>1, <1>3, <2>1, ChunkStep, TrackBytesType
      <4> QED BY <1>2, <2>6, <3>1, <4>2, <4>3
    <3>6. \A u \in 1..Len(file.tracks) : u >= t => u = t \/ u > t
      BY <1>2
    <3> QED BY <3>1, <3>2, <3>3, <3>4, <3>5, <3>6
  <2> QED BY <1>5, <2>5, <2>7 DEF Wins, c
<1> QED BY <1>7, <1>8

(* Past the declared tracks only trailing bytes are left to refuse. *)
LEMMA FinishWins ==
    ASSUME file \in Files, limits \in Limits, NEW m \in Modes, AtChunk(m), track[m] > file.declared
    PROVE  /\ track[m] = Len(file.tracks) + 1
           /\ Failing(FinishChecks(m)) # {} => Wins(m, FinishChecks(m))
           /\ Failing(FinishChecks(m)) = {} => Faults(m) = {}
<1>1. /\ Len(file.tracks) \in Nat /\ file.declared \in Nat /\ file.declared >= Len(file.tracks)
      /\ track[m] \in 1..(Len(file.tracks) + 1) /\ offset[m] = ChunkStart(track[m])
  BY FileFacts DEF AtChunk
<1>2. track[m] = Len(file.tracks) + 1 /\ ~(file.declared > Len(file.tracks))
  BY <1>1
<1>3. \A x \in Faults(m) : LastFault(m, x) /\ ChunkStart(track[m]) = FileEnd /\ x \in Nat
  BY <1>2, AheadOfEnd
<1>4. Failing(FinishChecks(m)) # {} <=> m = "strict" /\ file.trailing # 0
  <2>1. PICK c : c = Check(RejectTrailingBytes(m) /\ file.trailing # 0, "TrailingBytes", offset[m])
    OBVIOUS
  <2>2. c.fails <=> (m = "strict" /\ file.trailing # 0)
    BY <2>1, Grammars DEF Check
  <2>3. FinishChecks(m) = <<c>>
    BY <2>1 DEF FinishChecks
  <2> QED BY <2>2, <2>3, OneCheck
<1>5. CASE Failing(FinishChecks(m)) # {}
  <2>1. FirstOf(FinishChecks(m)).offset = offset[m]
    <3>1. PICK c : c = Check(RejectTrailingBytes(m) /\ file.trailing # 0, "TrailingBytes", offset[m])
      OBVIOUS
    <3>2. FinishChecks(m) = <<c>> /\ c.offset = offset[m]
      BY <3>1 DEF FinishChecks, Check
    <3>3. Failing(<<c>>) # {}
      BY <1>5, <3>2
    <3>4. c.fails
      BY <3>3, OneCheck
    <3>5. FirstOf(<<c>>) = [kind |-> c.kind, offset |-> c.offset]
      BY <3>4, OneCheck
    <3> QED BY <3>2, <3>5
  <2>2. offset[m] = FileEnd
    BY <1>1, <1>2 DEF FileEnd
  <2>3. FileEnd \in Faults(m) /\ FileEnd \in Nat
    BY <1>4, <1>5, FaultsAre, FileEndFacts DEF LastFault
  <2> QED BY <1>2, <1>3, <1>5, <2>1, <2>2, <2>3 DEF Wins, LastFault
<1>6. CASE Failing(FinishChecks(m)) = {}
  BY <1>2, <1>3, <1>4, <1>6 DEF LastFault
<1> QED BY <1>2, <1>5, <1>6

(* In a track only its later items and what is behind it are left. *)
LEMMA AheadInTrack ==
    ASSUME file \in Files, limits \in Limits, NEW m \in Modes, AtEvents(m), ~sawEot[m], NEW x \in Faults(m)
    PROVE  /\ x \in Nat
           /\ \/ ChunkStart(track[m] + 1) <= x
              \/ \E p \in ReadBy(m) : p[1] = track[m] /\ p[2] >= item[m] /\ ItemFault(m, p, x)
<1>1. PICK t, i : t = track[m] /\ i = item[m]
  OBVIOUS
<1>2. /\ Failing(HeaderChecks(m)) = {} /\ t \in 1..Len(file.tracks) /\ t \in 1..(Len(file.tracks) + 1)
      /\ t \in Nat /\ t + 1 \in 1..(Len(file.tracks) + 1) /\ Len(file.tracks) \in Nat
      /\ \A u \in 1..(t - 1) : TrackSound(m, u)
      /\ ChunkSound(m, t) /\ BeforeItem(m, t, i)
  BY <1>1, FileFacts DEF AtEvents
<1>3. Passed(m, t, i) /\ i \in Nat \ {0}
  <2>1. Len(file.tracks[t].items) \in Nat
    BY <1>2, FileFacts
  <2> QED BY <1>2, <2>1 DEF BeforeItem
<1>4. \/ \E u \in 1..Len(file.tracks) : u >= t /\ (HeadFault(m, u, x) \/ EndFault(m, u, x))
      \/ \E p \in ReadBy(m) : (p[1] > t \/ (p[1] = t /\ p[2] >= i)) /\ ItemFault(m, p, x)
      \/ LastFault(m, x)
  BY <1>2, <1>3, FaultsAhead
<1>5. x \in Nat
  <2>1. \A p \in ReadBy(m) : p[1] > t \/ (p[1] = t /\ p[2] >= i) => p[1] >= t
    <3> SUFFICES ASSUME NEW p \in ReadBy(m)
                 PROVE  p[1] > t \/ (p[1] = t /\ p[2] >= i) => p[1] >= t
      OBVIOUS
    <3>1. p \in Positions
      BY DEF ReadBy
    <3> QED BY <1>2, <3>1, PositionFacts
  <2> QED BY <1>2, <1>4, <2>1, LaterTracks
<1>6. ~HeadFault(m, t, x)
  BY <1>2 DEF ChunkSound, HeadFault
<1>7. CASE EndFault(m, t, x)
  BY <1>1, <1>2, <1>5, <1>7, ChunkStep DEF EndFault
<1>8. CASE \/ \E u \in 1..Len(file.tracks) : u >= t + 1 /\ (HeadFault(m, u, x) \/ EndFault(m, u, x))
           \/ \E p \in ReadBy(m) : p[1] >= t + 1 /\ ItemFault(m, p, x)
           \/ LastFault(m, x)
  BY <1>1, <1>2, <1>5, <1>8, LaterTracks
<1>9. CASE \E p \in ReadBy(m) : p[1] = t /\ p[2] >= i /\ ItemFault(m, p, x)
  BY <1>1, <1>5, <1>9
<1>10. \A u \in 1..Len(file.tracks) : u >= t => u = t \/ u >= t + 1
  BY <1>2
<1>11. \A p \in ReadBy(m) : p[1] > t => p[1] >= t + 1
  <2> SUFFICES ASSUME NEW p \in ReadBy(m)
               PROVE  p[1] > t => p[1] >= t + 1
    OBVIOUS
  <2>1. p \in Positions
    BY DEF ReadBy
  <2> QED BY <1>2, <2>1, PositionFacts
<1> QED BY <1>4, <1>6, <1>7, <1>8, <1>9, <1>10, <1>11

(* The missing End-of-Track is found at the first fault.                   *)
LEMMA CloseWins ==
    ASSUME file \in Files, limits \in Limits, NEW m \in Modes, AtEvents(m), ~More(m),
           Failing(CloseChecks(m)) # {}
    PROVE  Wins(m, CloseChecks(m))
<1>1. PICK c : c = Check(RequireEndOfTrack(m) /\ ~sawEot[m], "MissingEndOfTrack", offset[m])
  OBVIOUS
<1>2. /\ CloseChecks(m) = <<c>> /\ c.fails = (RequireEndOfTrack(m) /\ ~sawEot[m])
      /\ c.offset = offset[m]
  BY <1>1 DEF CloseChecks, Check
<1>3. Failing(<<c>>) # {}
  BY <1>2
<1>4. c.fails /\ FirstOf(CloseChecks(m)).offset = offset[m]
  <2>1. c.fails
    BY <1>3, OneCheck
  <2>2. FirstOf(<<c>>) = [kind |-> c.kind, offset |-> c.offset]
    BY <2>1, OneCheck
  <2> QED BY <1>2, <2>1, <2>2
<1>5. m = "strict" /\ ~sawEot[m]
  BY <1>2, <1>4, Grammars
<1>6. PICK t, i : t = track[m] /\ i = item[m]
  OBVIOUS
<1>7. /\ t \in 1..Len(file.tracks) /\ BeforeItem(m, t, i) /\ StopAtEndOfTrack(m) /\ ~EotBefore(t, i)
      /\ Len(file.tracks[t].items) \in Nat /\ t \in Nat
  BY <1>5, <1>6, Grammars, FileFacts DEF AtEvents
<1>8. i = Len(file.tracks[t].items) + 1 /\ offset[m] = ChunkStart(t + 1)
  <2>1. i \in 1..(Len(file.tracks[t].items) + 1) /\ ~(i <= Len(file.tracks[t].items))
    BY <1>5, <1>6, <1>7 DEF BeforeItem, More, Items
  <2>2. i = Len(file.tracks[t].items) + 1 /\ i - 1 = Len(file.tracks[t].items)
    BY <1>7, <2>1
  <2>3. offset[m] = BodyStart(t) + TrackBytes(t)
    BY <1>7, <2>2 DEF BeforeItem, TrackBytes
  <2> QED BY <1>7, <2>2, <2>3, ChunkStep
<1>9. ~HasEot(m, t)
  <2> SUFFICES ASSUME NEW p \in ReadBy(m), p[1] = t, ItemAt(p).kind = "eot"
               PROVE  FALSE
    BY DEF HasEot
  <2>1. p \in Positions
    BY DEF ReadBy
  <2>2. p[2] \in 1..Len(file.tracks[t].items) /\ ItemAt(p) = file.tracks[t].items[p[2]]
    BY <2>1, PositionFacts
  <2>3. p[2] \in 1..(i - 1)
    BY <1>7, <1>8, <2>2
  <2> QED BY <1>7, <2>2, <2>3 DEF EotBefore
<1>10. offset[m] \in Faults(m)
  <2>1. EndFault(m, t, offset[m])
    BY <1>5, <1>8, <1>9 DEF EndFault
  <2> QED BY <1>7, <2>1, FaultsAre
<1>11. ASSUME NEW x \in Faults(m)
       PROVE  x \in Nat /\ offset[m] <= x
  <2>1. /\ x \in Nat
        /\ \/ ChunkStart(t + 1) <= x
           \/ \E p \in ReadBy(m) : p[1] = t /\ p[2] >= i /\ ItemFault(m, p, x)
    BY <1>5, <1>6, AheadInTrack
  <2>2. ~\E p \in ReadBy(m) : p[1] = t /\ p[2] >= i
    <3> SUFFICES ASSUME NEW p \in ReadBy(m), p[1] = t, p[2] >= i
                 PROVE  FALSE
      OBVIOUS
    <3>1. p \in Positions
      BY DEF ReadBy
    <3>2. p[2] \in 1..Len(file.tracks[t].items)
      BY <3>1, PositionFacts
    <3> QED BY <1>7, <1>8, <3>2
  <2> QED BY <1>8, <2>1, <2>2
<1> QED BY <1>4, <1>10, <1>11 DEF Wins

(* At an item: its own faults, and those behind it. *)
LEMMA AheadAtItem ==
    ASSUME file \in Files, limits \in Limits, NEW m \in Modes, AtEvents(m), More(m), NEW p,
           p = <<track[m], item[m]>>
    PROVE  /\ p \in ReadBy(m) /\ Current(m) = ItemAt(p) /\ EventOffset(m) = EventAt(p) /\ EventAt(p) \in Nat
           /\ ItemAt(p).text \in Nat /\ ItemAt(p).body \in Nat
           /\ offset[m] + ItemBytes(Current(m)) = EventAt(p) + ItemAt(p).body
           /\ ItemAt(p).kind = "fault" => ItemAt(p).text <= ItemAt(p).body
           /\ p[2] = item[m] /\ Len(file.tracks[p[1]].items) = Len(Items(m))
           /\ \A x \in Faults(m) : x \in Nat /\ (ItemFault(m, p, x) \/ EventAt(p) + ItemAt(p).body <= x)
           /\ OverBudget(m, p) <=>
                \/ Exceeds(m, "events", events[m] + 1)
                \/ Exceeds(m, "noteStarts", noteStarts[m] + NotesOf(ItemAt(p)))
                \/ Exceeds(m, "textBytes", textBytes[m] + TextOf(ItemAt(p)))
           /\ ~Exceeds(m, "noteStarts", noteStarts[m] + 0) /\ ~Exceeds(m, "textBytes", textBytes[m] + 0)
<1>1. PICK t, i : t = track[m] /\ i = item[m]
  OBVIOUS
<1>2. ~sawEot[m] /\ t \in 1..Len(file.tracks) /\ BeforeItem(m, t, i) /\ Len(Items(m)) = Len(file.tracks[t].items)
      /\ Len(file.tracks[t].items) \in Nat /\ t \in Nat /\ (StopAtEndOfTrack(m) => ~EotBefore(t, i))
  BY <1>1, FileFacts DEF AtEvents, More, Items
<1>3. i \in 1..Len(file.tracks[t].items)
  BY <1>1, <1>2 DEF BeforeItem, More
<1>4. p = <<t, i>> /\ p[1] = t /\ p[2] = i /\ Passed(m, t, i) /\ offset[m] = StartOf(p)
  <2>1. p = <<t, i>> /\ p[1] = t /\ p[2] = i
    BY <1>1
  <2> QED BY <1>2, <2>1 DEF BeforeItem, StartOf
<1>5. /\ p \in ReadBy(m)
      /\ OverBudget(m, p) <=>
                \/ Exceeds(m, "events", events[m] + 1)
                \/ Exceeds(m, "noteStarts", noteStarts[m] + NotesOf(ItemAt(p)))
                \/ Exceeds(m, "textBytes", textBytes[m] + TextOf(ItemAt(p)))
  BY <1>2, <1>3, <1>4, ItemHere
<1>6. p \in Positions
  BY <1>5 DEF ReadBy
<1>7. Current(m) = ItemAt(p)
  BY <1>1, <1>4 DEF Current, Items, ItemAt
<1>8. /\ StartOf(p) \in Nat /\ EventAt(p) = StartOf(p) + ItemAt(p).delta
      /\ ItemAt(p).delta \in Nat /\ ItemAt(p).body \in Nat /\ ItemAt(p).text \in Nat
      /\ ItemBytes(ItemAt(p)) = ItemAt(p).delta + ItemAt(p).body
      /\ StartOf(p) + ItemBytes(ItemAt(p)) <= ChunkStart(t + 1)
  BY <1>4, <1>6, StartInChunk, PositionFacts, ItemFacts
<1>9. EventOffset(m) = EventAt(p) /\ EventAt(p) \in Nat
  BY <1>4, <1>7, <1>8 DEF EventOffset
<1>10. PICK a, d, b, c : a = StartOf(p) /\ d = ItemAt(p).delta /\ b = ItemAt(p).body /\ c = ChunkStart(t + 1)
  OBVIOUS
<1>11. t + 1 \in 1..(Len(file.tracks) + 1)
  BY <1>2, FileFacts
<1>12. /\ a \in Nat /\ d \in Nat /\ b \in Nat /\ c \in Nat /\ EventAt(p) = a + d
       /\ ItemBytes(ItemAt(p)) = d + b /\ a + (d + b) <= c
  <2>1. ChunkStart(t + 1) \in Nat
    BY <1>11, ChunkStep
  <2> QED BY <1>8, <1>10, <2>1
<1>13. offset[m] + ItemBytes(Current(m)) = EventAt(p) + ItemAt(p).body
  <2>1. a + (d + b) = (a + d) + b
    BY <1>12
  <2> QED BY <1>4, <1>7, <1>10, <1>12, <2>1
<1>14. ItemAt(p).kind = "fault" => ItemAt(p).text <= ItemAt(p).body
  <2>1. ItemAt(p) = file.tracks[t].items[i]
    BY <1>4 DEF ItemAt
  <2>2. t \in DOMAIN file.tracks /\ i \in DOMAIN file.tracks[t].items
    BY <1>2, <1>3, FileFacts
  <2>3. LET it == file.tracks[t].items[i] IN it.kind = "fault" => it.text <= it.body
    BY <2>2, FileAssumption
  <2> QED BY <2>1, <2>3
<1>15. ASSUME NEW x \in Faults(m)
       PROVE  x \in Nat /\ (ItemFault(m, p, x) \/ EventAt(p) + ItemAt(p).body <= x)
  <2>1. /\ x \in Nat
        /\ \/ ChunkStart(t + 1) <= x
           \/ \E q \in ReadBy(m) : q[1] = t /\ q[2] >= i /\ ItemFault(m, q, x)
    BY <1>1, <1>2, AheadInTrack
  <2>2. CASE ChunkStart(t + 1) <= x
    <3>1. (a + d) + b <= x
      BY <1>10, <1>12, <2>1, <2>2
    <3> QED BY <1>10, <1>12, <2>1, <3>1
  <2>3. CASE \E q \in ReadBy(m) : q[1] = t /\ q[2] >= i /\ ItemFault(m, q, x)
    <3>1. PICK q \in ReadBy(m) : q[1] = t /\ q[2] >= i /\ ItemFault(m, q, x)
      BY <2>3
    <3>2. q \in Positions
      BY DEF ReadBy
    <3>3. q[2] \in Nat /\ q = <<q[1], q[2]>>
      BY <3>2, PositionFacts
    <3>4. CASE q[2] = i
      BY <1>4, <2>1, <3>1, <3>3, <3>4
    <3>5. CASE q[2] # i
      <4>1. Earlier(p, q)
        BY <1>3, <1>4, <3>1, <3>3, <3>5 DEF Earlier
      <4>2. StartOf(p) + ItemBytes(ItemAt(p)) <= StartOf(q)
        BY <1>6, <3>2, <4>1, StartsInOrder
      <4>3. StartOf(q) <= x /\ StartOf(q) \in Nat
        BY <3>1, <3>2, ItemFaultAt, StartInChunk
      <4>4. PICK e : e = StartOf(q)
        OBVIOUS
      <4>5. a + (d + b) <= e /\ e <= x /\ e \in Nat
        BY <1>10, <1>12, <4>2, <4>3, <4>4
      <4>6. (a + d) + b <= x
        BY <1>12, <2>1, <4>5
      <4> QED BY <1>10, <1>12, <2>1, <4>6
    <3> QED BY <3>4, <3>5
  <2> QED BY <2>1, <2>2, <2>3
<1>16. ~Exceeds(m, "noteStarts", noteStarts[m] + 0) /\ ~Exceeds(m, "textBytes", textBytes[m] + 0)
  <2>1. Behind(m, t, i) \subseteq Positions
    BY DEF Behind, ReadBy
  <2>2. noteStarts[m] \in Nat /\ textBytes[m] \in Nat
    BY <1>4, <2>1, CountsGrow DEF Passed, Charged
  <2>3. noteStarts[m] + 0 = noteStarts[m] /\ textBytes[m] + 0 = textBytes[m]
    BY <2>2
  <2> QED BY <1>4, <2>3 DEF Passed, WithinBudget
<1>17. p[2] = item[m] /\ Len(file.tracks[p[1]].items) = Len(Items(m))
  BY <1>1, <1>2, <1>4
<1> QED BY <1>5, <1>7, <1>8, <1>9, <1>13, <1>14, <1>15, <1>16, <1>17

(* A check of an event that fails first is at the first fault.             *)
LEMMA EventWins ==
    ASSUME file \in Files, limits \in Limits, NEW m \in Modes, AtEvents(m), More(m), ~StopsHere(m),
           Failing(EventChecks(m)) # {}
    PROVE  Wins(m, EventChecks(m))
<1> DEFINE c == EventChecks(m)
<1>1. PICK p, it, d : p = <<track[m], item[m]>> /\ it = ItemAt(p) /\ d = EventAt(p)
  OBVIOUS
<1>2. /\ p \in ReadBy(m) /\ Current(m) = it /\ EventOffset(m) = d /\ d \in Nat
      /\ it.text \in Nat /\ it.body \in Nat
      /\ it.kind = "fault" => it.text <= it.body
      /\ \A x \in Faults(m) : x \in Nat /\ (ItemFault(m, p, x) \/ d + it.body <= x)
      /\ OverBudget(m, p) <=>
                \/ Exceeds(m, "events", events[m] + 1)
                \/ Exceeds(m, "noteStarts", noteStarts[m] + NotesOf(it))
                \/ Exceeds(m, "textBytes", textBytes[m] + TextOf(it))
  BY <1>1, AheadAtItem
<1>3. c = <<Check(it.kind = "fault", "Malformed", d + it.text),
            Check(Exceeds(m, "events", events[m] + 1), "Events", d),
            Check(it.kind = "note" /\ Exceeds(m, "noteStarts", noteStarts[m] + 1), "NoteStarts", d),
            Check(it.kind = "text" /\ Exceeds(m, "textBytes", textBytes[m] + it.text), "TextBytes", d)>>
  BY <1>2 DEF EventChecks
<1>4. \A b, k, x : Check(b, k, x).fails = b /\ Check(b, k, x).offset = x
  BY DEF Check
<1>5. Failing(c) # {} /\ 4 \in Nat
  OBVIOUS
<1> HIDE DEF c
<1>6. DOMAIN c = 1..4
  BY <1>3
<1>7. c[1].offset = d + it.text /\ c[2].offset = d /\ c[3].offset = d /\ c[4].offset = d
  BY <1>3, <1>4
<1>8. c[1].fails = (it.kind = "fault")
  BY <1>3, <1>4
<1>9. c[2].fails = Exceeds(m, "events", events[m] + 1)
  BY <1>3, <1>4
<1>10. c[3].fails = (it.kind = "note" /\ Exceeds(m, "noteStarts", noteStarts[m] + 1))
  BY <1>3, <1>4
<1>11. c[4].fails = (it.kind = "text" /\ Exceeds(m, "textBytes", textBytes[m] + it.text))
  BY <1>3, <1>4
<1>12. PICK k \in 1..4 : /\ c[k].fails /\ FirstOf(c).offset = c[k].offset
                         /\ \A j \in 1..4 : c[j].fails => k <= j
  BY <1>5, <1>6, FirstIs
<1>13. k = 1 \/ k = 2 \/ k = 3 \/ k = 4
  OBVIOUS
<1>14. FirstOf(c).offset = FaultAt(p) /\ (it.kind = "fault" \/ OverBudget(m, p))
  <2>1. CASE it.kind = "fault"
    <3>1. c[1].fails
      BY <1>8, <2>1
    <3>2. k <= 1
      BY <1>12, <3>1
    <3> QED BY <1>1, <1>7, <1>12, <1>13, <2>1, <3>2 DEF FaultAt
  <2>2. CASE it.kind # "fault"
    <3>1. k \in {2, 3, 4}
      BY <1>8, <1>12, <1>13, <2>2
    <3>2. FirstOf(c).offset = d /\ d = FaultAt(p)
      BY <1>1, <1>2, <1>7, <1>12, <2>2, <3>1 DEF FaultAt
    <3>3. OverBudget(m, p)
      BY <1>2, <1>9, <1>10, <1>11, <1>12, <3>1 DEF NotesOf, TextOf
    <3> QED BY <3>2, <3>3
  <2> QED BY <2>1, <2>2
<1>15. FaultAt(p) \in Faults(m)
  <2>1. ItemFault(m, p, FaultAt(p))
    BY <1>1, <1>14 DEF ItemFault
  <2> QED BY <1>2, <2>1, FaultsAre
<1>16. ASSUME NEW x \in Faults(m)
       PROVE  x \in Nat /\ FaultAt(p) <= x
  <2>1. x \in Nat /\ (ItemFault(m, p, x) \/ d + it.body <= x)
    BY <1>2
  <2>2. CASE ItemFault(m, p, x)
    <3>1. ~(m = "strict" /\ it.kind = "eot")
      BY <1>2, Grammars DEF StopsHere
    <3>2. x = FaultAt(p)
      BY <1>1, <2>2, <3>1 DEF ItemFault
    <3> QED BY <2>1, <3>2
  <2>3. CASE d + it.body <= x
    BY <1>1, <1>2, <2>1, <2>3 DEF FaultAt
  <2> QED BY <2>1, <2>2, <2>3
<1> QED BY <1>14, <1>15, <1>16 DEF Wins, c

(* A check of an End-of-Track that fails first is at the first fault.      *)
LEMMA EotWins ==
    ASSUME file \in Files, limits \in Limits, NEW m \in Modes, AtEvents(m), More(m), StopsHere(m),
           Failing(EotChecks(m)) # {}
    PROVE  Wins(m, EotChecks(m))
<1> DEFINE c == EotChecks(m)
<1>1. PICK p, it, d, e : p = <<track[m], item[m]>> /\ it = ItemAt(p) /\ d = EventAt(p) /\ e = d + it.body
  OBVIOUS
<1>2. /\ p \in ReadBy(m) /\ Current(m) = it /\ EventOffset(m) = d /\ d \in Nat
      /\ it.text \in Nat /\ it.body \in Nat /\ it.kind = "eot"
      /\ offset[m] + ItemBytes(Current(m)) = e
      /\ \A x \in Faults(m) : x \in Nat /\ (ItemFault(m, p, x) \/ e <= x)
      /\ p[2] = item[m] /\ Len(file.tracks[p[1]].items) = Len(Items(m))
  BY <1>1, AheadAtItem DEF StopsHere
<1>3. OverBudget(m, p) <=> Exceeds(m, "events", events[m] + 1)
  <2>1. /\ OverBudget(m, p) <=>
             \/ Exceeds(m, "events", events[m] + 1)
             \/ Exceeds(m, "noteStarts", noteStarts[m] + NotesOf(it))
             \/ Exceeds(m, "textBytes", textBytes[m] + TextOf(it))
        /\ ~Exceeds(m, "noteStarts", noteStarts[m] + 0) /\ ~Exceeds(m, "textBytes", textBytes[m] + 0)
    BY <1>1, AheadAtItem
  <2>2. NotesOf(it) = 0 /\ TextOf(it) = 0
    BY <1>2 DEF NotesOf, TextOf
  <2> QED BY <2>1, <2>2
<1>4. e \in Nat /\ d <= e
  BY <1>1, <1>2
<1>5. c = <<Check(RequireEndOfTrack(m) /\ it.text # 0, "InvalidEndOfTrackLength", d),
            Check(Exceeds(m, "events", events[m] + 1), "Events", d),
            Check(RequireEndOfTrack(m) /\ item[m] < Len(Items(m)), "EventAfterEndOfTrack", e)>>
  BY <1>2 DEF EotChecks
<1>6. \A b, k, x : Check(b, k, x).fails = b /\ Check(b, k, x).offset = x
  BY DEF Check
<1>7. Failing(c) # {} /\ 3 \in Nat
  OBVIOUS
<1> HIDE DEF c
<1>8. DOMAIN c = 1..3
  BY <1>5
<1>9. c[1].offset = d /\ c[2].offset = d /\ c[3].offset = e
  BY <1>5, <1>6
<1>10. c[1].fails = (RequireEndOfTrack(m) /\ it.text # 0)
  BY <1>5, <1>6
<1>11. c[2].fails = Exceeds(m, "events", events[m] + 1)
  BY <1>5, <1>6
<1>12. c[3].fails = (RequireEndOfTrack(m) /\ item[m] < Len(Items(m)))
  BY <1>5, <1>6
<1>13. PICK k \in 1..3 : /\ c[k].fails /\ FirstOf(c).offset = c[k].offset
                         /\ \A j \in 1..3 : c[j].fails => k <= j
  BY <1>7, <1>8, FirstIs
<1>14. k = 1 \/ k = 2 \/ k = 3
  OBVIOUS
<1>15. \A x : ItemFault(m, p, x) <=>
          \/ (c[1].fails \/ c[2].fails) /\ x = d
          \/ c[3].fails /\ x = e
  <2>1. FaultAt(p) = d
    BY <1>1, <1>2 DEF FaultAt
  <2> QED BY <1>1, <1>2, <1>3, <1>10, <1>11, <1>12, <2>1, Grammars DEF ItemFault
<1>16. ItemFault(m, p, c[k].offset)
  BY <1>9, <1>13, <1>14, <1>15
<1>17. c[k].offset \in Faults(m)
  BY <1>2, <1>16, FaultsAre
<1>18. ASSUME NEW x \in Faults(m)
       PROVE  x \in Nat /\ c[k].offset <= x
  <2>1. x \in Nat /\ (ItemFault(m, p, x) \/ e <= x)
    BY <1>2
  <2>2. c[k].offset \in Nat /\ c[k].offset <= e
    BY <1>2, <1>4, <1>9, <1>14
  <2>3. CASE e <= x
    BY <1>4, <2>1, <2>2, <2>3
  <2>4. CASE ItemFault(m, p, x)
    <3>1. CASE x = e
      BY <2>1, <2>2, <3>1
    <3>2. CASE x = d /\ (c[1].fails \/ c[2].fails)
      <4>1. 1 \in 1..3 /\ 2 \in 1..3
        OBVIOUS
      <4>2. k <= 2
        BY <1>13, <1>14, <3>2, <4>1
      <4>3. c[k].offset = d
        BY <1>9, <1>14, <4>2
      <4> QED BY <1>2, <3>2, <4>3
    <3> QED BY <1>15, <2>4, <3>1, <3>2
  <2> QED BY <2>1, <2>3, <2>4
<1> QED BY <1>13, <1>17, <1>18 DEF Wins, c

--------------------------------------------------------------------------------
(* Where a parser answers: at its first fault, or at the end without one. *)
LEMMA AnswerWins ==
    ASSUME file \in Files, limits \in Limits, NEW m \in Modes, NEW s \in {"input", "chunk", "events"},
           At(m, s), AnsweredAt(m, s)
    PROVE  /\ Failing(ChecksAt(m, s)) # {} => Wins(m, ChecksAt(m, s))
           /\ Failing(ChecksAt(m, s)) = {} => Faults(m) = {}
<1>1. CASE Failing(ChecksAt(m, s)) # {}
  <2>1. CASE s = "input"
    BY <1>1, <2>1, HeaderWins DEF ChecksAt
  <2>2. CASE s = "chunk" /\ track[m] <= file.declared
    BY <1>1, <2>2, ChunkWins DEF ChecksAt, At
  <2>3. CASE s = "chunk" /\ ~(track[m] <= file.declared)
    <3>1. AtChunk(m)
      BY <2>3 DEF At
    <3>2. track[m] > file.declared
      BY <2>3, <3>1, FileFacts DEF AtChunk
    <3> QED BY <1>1, <2>3, <3>1, <3>2, FinishWins DEF ChecksAt
  <2>4. CASE s = "events"
    <3>1. AtEvents(m)
      BY <2>4 DEF At
    <3> QED BY <1>1, <2>4, <3>1, CloseWins, EotWins, EventWins DEF ChecksAt
  <2> QED BY <1>1, <2>1, <2>2, <2>3, <2>4
<1>2. CASE Failing(ChecksAt(m, s)) = {}
  <2>1. s = "chunk" /\ track[m] > file.declared
    BY <1>2 DEF AnsweredAt
  <2>2. AtChunk(m)
    BY <2>1 DEF At
  <2>3. ~(track[m] <= file.declared)
    BY <2>1, <2>2, FileFacts DEF AtChunk
  <2>4. Failing(FinishChecks(m)) = {}
    BY <1>2, <2>1, <2>3 DEF ChecksAt
  <2> QED BY <1>2, <2>1, <2>2, <2>4, FinishWins
<1> QED BY <1>1, <1>2

(* A least member is what Min chooses.                                     *)
LEMMA LeastIsMin ==
    ASSUME NEW S, S \subseteq Nat, NEW o \in S, \A x \in S : o <= x
    PROVE  Min(S) = o
<1>1. \A y \in S : (\A x \in S : y <= x) => y = o
  OBVIOUS
<1> QED BY <1>1 DEF Min

(* A parser that has answered: it accepts a file without a fault, and      *)
(* refuses any other at its first fault.                                   *)
LEMMA AnswerIs ==
    ASSUME IInv, NEW m \in Modes, Answered(m)
    PROVE  IF Faults(m) = {} THEN Accepted(m)
           ELSE /\ ~Accepted(m) /\ outcome[m].offset = Min(Faults(m))
                /\ outcome[m].offset \in Faults(m)
                /\ \A x \in Faults(m) : x \in Nat /\ outcome[m].offset <= x
<1>1. Shape /\ file \in Files /\ limits \in Limits /\ ParserInv(m)
  BY DEF IInv, Shape
<1>2. PICK s \in {"input", "chunk", "events"} :
         At(m, s) /\ AnsweredAt(m, s) /\ (Failing(ChecksAt(m, s)) = {} <=> outcome[m] = Ok)
  BY <1>1, AnswerKind DEF Answered
<1>3. CASE Failing(ChecksAt(m, s)) = {}
  BY <1>1, <1>2, <1>3, AnswerWins DEF Accepted
<1>4. CASE Failing(ChecksAt(m, s)) # {}
  <2>1. Wins(m, ChecksAt(m, s))
    BY <1>1, <1>2, <1>4, AnswerWins
  <2>2. outcome[m].offset = FirstOf(ChecksAt(m, s)).offset
    BY <1>2, <1>4 DEF AnsweredAt
  <2>3. /\ outcome[m].offset \in Faults(m)
        /\ \A x \in Faults(m) : x \in Nat /\ outcome[m].offset <= x
    BY <2>1, <2>2 DEF Wins
  <2>4. outcome[m].offset = Min(Faults(m))
    BY <2>3, LeastIsMin
  <2>5. ~Accepted(m)
    BY <1>2, <1>4 DEF Accepted
  <2> QED BY <2>3, <2>4, <2>5
<1> QED BY <1>3, <1>4

(* FirstFaultWins holds in every reachable state: each of the four         *)
(* parsers accepts exactly the files without a fault and refuses any       *)
(* other at the least offset among all its faults, budgets counted over    *)
(* all tracks (parse_score_smf_impl, parse_score_track,                    *)
(* handle_end_of_track, LimitedScoreParsePolicy).                          *)
THEOREM FirstFaultDecides == Spec => []FirstFaultWins
<1>1. IInv => FirstFaultWins
  BY AnswerIs DEF FirstFaultWins
<1> QED BY <1>1, AlwaysIInv, PTL

(* A parser that has no rule the other lacks and reads no more refuses no more. *)
LEMMA FaultsGrow ==
    ASSUME file \in Files, limits \in Limits, NEW m \in Modes, NEW n \in Modes,
           m # "strict", n # "trusted", ReadBy(m) \subseteq ReadBy(n)
    PROVE  Faults(m) \subseteq Faults(n)
<1>1. \A r, a : Exceeds(m, r, a) => Exceeds(n, r, a)
  BY DEF Exceeds
<1>2. SUFFICES ASSUME NEW x \in Faults(m)
               PROVE  x \in Faults(n)
  OBVIOUS
<1>3. CASE \E k \in Failing(HeaderChecks(m)) : x = HeaderChecks(m)[k].offset
  <2>1. PICK k \in Failing(HeaderChecks(m)) : x = HeaderChecks(m)[k].offset
    BY <1>3
  <2>2. /\ DOMAIN HeaderChecks(m) = 1..6 /\ DOMAIN HeaderChecks(n) = 1..6
        /\ \A j \in 1..6 : HeaderChecks(m)[j].offset = HeaderChecks(n)[j].offset
    BY DEF HeaderChecks, Check
  <2>3. k \in 1..6 /\ HeaderChecks(m)[k].fails
    BY <2>1, <2>2 DEF Failing
  <2>4. HeaderChecks(n)[k].fails
    <3>1. \A b, y, z : Check(b, y, z).fails = b
      BY DEF Check
    <3>2. /\ HeaderChecks(m)[1].fails => HeaderChecks(n)[1].fails
          /\ HeaderChecks(m)[5].fails => HeaderChecks(n)[5].fails
      BY <1>1, <3>1 DEF HeaderChecks
    <3>3. /\ HeaderChecks(m)[2].fails => HeaderChecks(n)[2].fails
          /\ HeaderChecks(m)[3].fails => HeaderChecks(n)[3].fails
          /\ HeaderChecks(m)[4].fails => HeaderChecks(n)[4].fails
      BY <3>1 DEF HeaderChecks
    <3>4. HeaderChecks(m)[6].fails => HeaderChecks(n)[6].fails
      <4>1. HeaderChecks(m)[6].fails = (ValidateDivision(m) /\ file.header = "division")
        BY <3>1 DEF HeaderChecks
      <4>2. ~ValidateDivision(m)
        BY Grammars
      <4> QED BY <4>1, <4>2
    <3> QED BY <2>3, <3>2, <3>3, <3>4
  <2>5. k \in Failing(HeaderChecks(n)) /\ x = HeaderChecks(n)[k].offset
    BY <2>1, <2>2, <2>3, <2>4 DEF Failing
  <2> QED BY <2>5, FaultsAre
<1>4. CASE \E t \in 1..Len(file.tracks) : HeadFault(m, t, x) \/ EndFault(m, t, x)
  <2>1. PICK t \in 1..Len(file.tracks) : HeadFault(m, t, x) \/ EndFault(m, t, x)
    BY <1>4
  <2>2. HeadFault(n, t, x)
    BY <1>1, <2>1 DEF HeadFault, EndFault
  <2> QED BY <2>2, FaultsAre
<1>5. CASE \E p \in ReadBy(m) : ItemFault(m, p, x)
  <2>1. PICK p \in ReadBy(m) : ItemFault(m, p, x)
    BY <1>5
  <2>2. UpTo(m, p) \subseteq UpTo(n, p) /\ UpTo(n, p) \subseteq Positions
    BY DEF UpTo, ReadBy
  <2>3. /\ Cardinality(UpTo(m, p)) <= Cardinality(UpTo(n, p))
        /\ Cardinality(UpTo(m, p)) \in Nat /\ Cardinality(UpTo(n, p)) \in Nat
        /\ Cardinality(Notes(UpTo(m, p))) <= Cardinality(Notes(UpTo(n, p)))
        /\ Cardinality(Notes(UpTo(m, p))) \in Nat /\ Cardinality(Notes(UpTo(n, p))) \in Nat
        /\ Cardinality(Texts(UpTo(m, p))) <= Cardinality(Texts(UpTo(n, p)))
        /\ Cardinality(Texts(UpTo(m, p))) \in Nat /\ Cardinality(Texts(UpTo(n, p))) \in Nat
    BY <2>2, CountsGrow
  <2>4. limits["events"] \in Nat /\ limits["noteStarts"] \in Nat /\ limits["textBytes"] \in Nat
    BY LimitsAreNat DEF Resources
  <2>5. OverBudget(m, p) => OverBudget(n, p)
    BY <2>3, <2>4 DEF OverBudget, Exceeds
  <2>6. ItemFault(n, p, x)
    BY <2>1, <2>5 DEF ItemFault
  <2> QED BY <2>1, <2>6, FaultsAre
<1>6. CASE LastFault(m, x)
  <2>1. LastFault(n, x)
    BY <1>6 DEF LastFault
  <2> QED BY <2>1, FaultsAre
<1> QED BY <1>3, <1>4, <1>5, <1>6, FaultsAre

(* A parser that accepts has charged and applied all that it reads. *)
LEMMA AcceptedAll ==
    ASSUME IInv, NEW m \in Modes, Answered(m), Accepted(m)
    PROVE  Faults(m) = {} /\ Charged(m, ReadBy(m))
<1>1. file \in Files /\ limits \in Limits /\ ParserInv(m)
  BY DEF IInv, Shape
<1>2. PICK s \in {"input", "chunk", "events"} :
         At(m, s) /\ AnsweredAt(m, s) /\ (Failing(ChecksAt(m, s)) = {} <=> outcome[m] = Ok)
  BY <1>1, AnswerKind DEF Answered
<1>3. Failing(ChecksAt(m, s)) = {} /\ s = "chunk" /\ track[m] > file.declared /\ AtChunk(m)
  BY <1>2 DEF Accepted, AnsweredAt, At
<1>4. track[m] = Len(file.tracks) + 1 /\ Faults(m) = {}
  BY <1>1, <1>2, <1>3, FinishWins, AnswerWins
<1>5. Behind(m, Len(file.tracks) + 1, 1) = ReadBy(m)
  <2> SUFFICES ASSUME NEW p \in ReadBy(m)
               PROVE  p[1] < Len(file.tracks) + 1
    BY DEF Behind
  <2>1. p \in Positions
    BY DEF ReadBy
  <2> QED BY <1>1, <2>1, PositionFacts, FileFacts
<1> QED BY <1>3, <1>4, <1>5 DEF AtChunk, Passed

(* The parsers answer in their order.                                      *)
LEMMA InTurnFacts ==
    ASSUME InTurn
    PROVE  /\ Answered("bounded") => Answered("trusted")
           /\ Answered("compatible") => Answered("bounded") /\ Answered("trusted")
           /\ Answered("strict") => Answered("compatible")
<1>1. /\ Parsers[1] = "trusted" /\ Parsers[2] = "bounded"
      /\ Parsers[3] = "compatible" /\ Parsers[4] = "strict"
  BY DEF Parsers
<1>2. /\ stage["trusted"] # "done" => stage["bounded"] = "input" /\ stage["compatible"] = "input"
      /\ stage["bounded"] # "done" => stage["compatible"] = "input"
      /\ stage["compatible"] # "done" => stage["strict"] = "input"
  <2>1. 1 \in 1..4 /\ 2 \in 1..4 /\ 3 \in 1..4 /\ 4 \in 1..4 /\ 1 < 2 /\ 1 < 3 /\ 2 < 3 /\ 3 < 4
    OBVIOUS
  <2> QED BY <1>1, <2>1 DEF InTurn
<1> QED BY <1>2 DEF Answered

(* The items that reach the score are places of the file.                  *)
LEMMA HeardPlaces ==
    ASSUME file \in Files, NEW m
    PROVE  Heard(ReadBy(m)) \in SUBSET (Nat \X Nat)
<1> SUFFICES ASSUME NEW p \in Heard(ReadBy(m))
             PROVE  p \in Nat \X Nat
  OBVIOUS
<1>1. p \in Positions
  BY DEF Heard, ReadBy
<1> QED BY <1>1, PositionFacts

(* StrictImpliesCompatible holds in every reachable state: what the        *)
(* strict grammar accepts, the compatible one accepts with the same        *)
(* events applied and the same event count (the constants of the grammars  *)
(* in parse_score_track and handle_end_of_track).                          *)
THEOREM StrictGivesCompatible == Spec => []StrictImpliesCompatible
<1>1. IInv => StrictImpliesCompatible
  <2> SUFFICES ASSUME IInv, Answered("strict"), Accepted("strict")
               PROVE  /\ Accepted("compatible")
                      /\ applied["compatible"] = applied["strict"]
                      /\ events["compatible"] = events["strict"]
    BY DEF StrictImpliesCompatible
  <2>1. /\ file \in Files /\ limits \in Limits /\ Answered("compatible")
        /\ "strict" \in Modes /\ "compatible" \in Modes
    BY InTurnFacts, ModesAre DEF IInv, Shape
  <2>2. Faults("strict") = {} /\ Charged("strict", ReadBy("strict"))
    BY <2>1, AcceptedAll
  <2>3. ReadBy("compatible") = ReadBy("strict")
    BY DEF ReadBy
  <2>4. Faults("compatible") = {}
    <3>1. Faults("compatible") \subseteq Faults("strict")
      BY <2>1, <2>3, FaultsGrow
    <3> QED BY <2>2, <3>1
  <2>5. Accepted("compatible")
    BY <2>1, <2>4, AnswerIs
  <2>6. Charged("compatible", ReadBy("strict"))
    BY <2>1, <2>3, <2>5, AcceptedAll
  <2>7. applied["compatible"] = applied["strict"]
    BY <2>1, <2>2, <2>6, HeardPlaces, ListsUnique DEF Charged
  <2> QED BY <2>2, <2>5, <2>6, <2>7 DEF Charged
<1> QED BY <1>1, AlwaysIInv, PTL

--------------------------------------------------------------------------------
(* What is kept of a list lists what is kept of its places. *)
LEMMA KeptLists ==
    ASSUME NEW S \in SUBSET (Nat \X Nat), NEW s, Lists(s, S), NEW R
    PROVE  Lists(Kept(s, {i \in DOMAIN s : s[i] \in R}), {p \in S : p \in R})
<1> DEFINE K == {i \in DOMAIN s : s[i] \in R}
           at == InOrder(K)
           r == Kept(s, K)
           n == Cardinality(K)
<1>1. /\ s \in Seq(S) /\ Len(s) \in Nat /\ DOMAIN s = 1..Len(s) /\ \A i \in 1..Len(s) : s[i] \in S
      /\ \A p \in S : \E i \in 1..Len(s) : s[i] = p
      /\ \A i, j \in 1..Len(s) : i < j => Earlier(s[i], s[j])
  BY LenProperties, ElementOfSeq DEF Lists
<1>2. K \subseteq Int /\ IsFiniteSet(K)
  <2>1. IsFiniteSet(1..Len(s))
    BY <1>1, CountToN
  <2> QED BY <1>1, <2>1, FS_Subset
<1>3. /\ at \in [1..n -> K]
      /\ \A i \in K : \E k \in 1..n : at[k] = i
      /\ \A j, k \in 1..n : j < k => at[j] < at[k]
  BY <1>2, InOrderProperties
<1>4. n \in Nat
  BY <1>2, FS_CardinalityType
<1>5. r = [k \in 1..n |-> s[at[k]]]
  BY <1>3 DEF Kept
<1> HIDE DEF at, r, n
<1>6. \A k \in 1..n : at[k] \in K /\ at[k] \in 1..Len(s) /\ r[k] = s[at[k]] /\ r[k] \in {p \in S : p \in R}
  BY <1>1, <1>3, <1>5
<1>7. r \in Seq({p \in S : p \in R}) /\ Len(r) = n
  BY <1>4, <1>5, <1>6
<1>8. \A p \in {q \in S : q \in R} : \E k \in 1..Len(r) : r[k] = p
  <2> SUFFICES ASSUME NEW p \in S, p \in R
               PROVE  \E k \in 1..n : r[k] = p
    BY <1>7
  <2>1. PICK i \in 1..Len(s) : s[i] = p
    BY <1>1
  <2>2. i \in K
    BY <1>1, <2>1
  <2>3. PICK k \in 1..n : at[k] = i
    BY <1>3, <2>2
  <2> QED BY <1>6, <2>1, <2>3
<1>9. \A j, k \in 1..Len(r) : j < k => Earlier(r[j], r[k])
  BY <1>1, <1>3, <1>6, <1>7
<1> QED BY <1>7, <1>8, <1>9 DEF Lists, r

Refusal(kind, at) == [kind |-> kind, offset |-> at]

(* How the bounded and the compatible parser refuse an item that they read. *)
ItemRefusal(m, p) ==
    IF ItemAt(p).kind = "fault" THEN Refusal("Malformed", EventAt(p) + ItemAt(p).text)
    ELSE IF Exceeds(m, "events", Cardinality(UpTo(m, p))) THEN Refusal("Events", EventAt(p))
    ELSE IF Exceeds(m, "noteStarts", Cardinality(Notes(UpTo(m, p)))) THEN Refusal("NoteStarts", EventAt(p))
    ELSE Refusal("TextBytes", EventAt(p))

(* The place of a parser that has refused a file behind its header.        *)
StoppedAtChunk(m, t) ==
    /\ AtChunk(m) /\ t = track[m] /\ t <= file.declared
    /\ Failing(ChunkChecks(m)) # {} /\ outcome[m] = FirstOf(ChunkChecks(m))
StoppedAtItem(m, p) ==
    /\ p \in ReadBy(m) /\ Passed(m, p[1], p[2]) /\ ChunkSound(m, p[1])
    /\ ItemAt(p).kind = "fault" \/ OverBudget(m, p)
    /\ outcome[m] = ItemRefusal(m, p)
Stopped(m, p) ==
    /\ Failing(HeaderChecks(m)) = {} /\ p \in Nat \X Nat
    /\ \A t \in 1..(p[1] - 1) : TrackSound(m, t)
    /\ IF p[2] = 0 THEN StoppedAtChunk(m, p[1]) ELSE StoppedAtItem(m, p)

Pair == {"bounded", "compatible"}

(* At an item one of its checks failed.                                    *)
LEMMA StopsAtItem ==
    ASSUME IInv, NEW m \in Pair, AtEvents(m), More(m), Failing(ChecksAt(m, "events")) # {},
           outcome[m] = FirstOf(ChecksAt(m, "events"))
    PROVE  Stopped(m, <<track[m], item[m]>>)
<1>1. file \in Files /\ limits \in Limits /\ m \in Modes /\ m # "strict"
  BY ModesAre DEF IInv, Shape, Pair
<1>2. PICK p, t, i : p = <<t, i>> /\ t = track[m] /\ i = item[m] /\ p[1] = t /\ p[2] = i
  <2>1. PICK p : p = <<track[m], item[m]>>
    OBVIOUS
  <2>2. p[1] = track[m] /\ p[2] = item[m]
    BY <2>1
  <2> QED BY <2>1, <2>2
<1>3. /\ ~sawEot[m] /\ t \in 1..Len(file.tracks) /\ t \in Nat /\ BeforeItem(m, t, i)
      /\ Len(Items(m)) = Len(file.tracks[t].items) /\ Len(file.tracks[t].items) \in Nat
      /\ StopAtEndOfTrack(m) => ~EotBefore(t, i)
      /\ \A u \in 1..(t - 1) : TrackSound(m, u)
      /\ ChunkSound(m, t) /\ Failing(HeaderChecks(m)) = {}
  BY <1>1, <1>2, FileFacts DEF AtEvents, More, Items
<1>4. i \in 1..Len(file.tracks[t].items) /\ i \in Nat /\ i # 0 /\ Passed(m, t, i)
  BY <1>2, <1>3 DEF BeforeItem, More
<1>5. /\ p \in ReadBy(m)
      /\ OverBudget(m, p) <=>
            \/ Exceeds(m, "events", events[m] + 1)
            \/ Exceeds(m, "noteStarts", noteStarts[m] + NotesOf(ItemAt(p)))
            \/ Exceeds(m, "textBytes", textBytes[m] + TextOf(ItemAt(p)))
      /\ Cardinality(UpTo(m, p)) = events[m] + 1
      /\ Cardinality(Notes(UpTo(m, p))) = noteStarts[m] + NotesOf(ItemAt(p))
      /\ Cardinality(Texts(UpTo(m, p))) = textBytes[m] + TextOf(ItemAt(p))
  BY <1>1, <1>2, <1>3, <1>4, ItemHere
<1>6. /\ Current(m) = ItemAt(p) /\ EventOffset(m) = EventAt(p)
      /\ ~Exceeds(m, "noteStarts", noteStarts[m] + 0) /\ ~Exceeds(m, "textBytes", textBytes[m] + 0)
  BY <1>1, <1>2, AheadAtItem
<1>7. \A b, k, x : Check(b, k, x).fails = b /\ Check(b, k, x).kind = k /\ Check(b, k, x).offset = x
  BY DEF Check
<1>8. (ItemAt(p).kind = "fault" \/ OverBudget(m, p)) /\ outcome[m] = ItemRefusal(m, p)
  <2>1. CASE StopsHere(m)
    <3>1. PICK d : d = EotChecks(m)
      OBVIOUS
    <3>2. ChecksAt(m, "events") = d
      BY <1>4, <2>1, <3>1 DEF ChecksAt, AtEvents
    <3>3. DOMAIN d = 1..3 /\ d[2].kind = "Events" /\ d[2].offset = EventAt(p)
      BY <1>6, <1>7, <3>1 DEF EotChecks
    <3>4. d[1].fails = (RequireEndOfTrack(m) /\ Current(m).text # 0)
      BY <1>7, <3>1 DEF EotChecks
    <3>5. d[3].fails = (RequireEndOfTrack(m) /\ item[m] < Len(Items(m)))
      BY <1>7, <3>1 DEF EotChecks
    <3>6. d[2].fails = Exceeds(m, "events", events[m] + 1)
      BY <1>7, <3>1 DEF EotChecks
    <3>7. ~RequireEndOfTrack(m)
      BY <1>1, Grammars
    <3>8. PICK k \in 1..3 : /\ d[k].fails /\ FirstOf(d).offset = d[k].offset
                            /\ FirstOf(d).kind = d[k].kind
      <4>1. 3 \in Nat /\ Failing(d) # {}
        BY <3>2
      <4> QED BY <3>3, <4>1, FirstIs
    <3>9. k = 2
      <4>1. k = 1 \/ k = 2 \/ k = 3
        OBVIOUS
      <4> QED BY <3>4, <3>5, <3>7, <3>8, <4>1
    <3>10. FirstOf(d) = Refusal("Events", EventAt(p))
      BY <3>3, <3>8, <3>9 DEF FirstOf, Refusal
    <3>11. ItemAt(p).kind # "fault"
      BY <1>6, <2>1 DEF StopsHere
    <3>12. Exceeds(m, "events", Cardinality(UpTo(m, p)))
      BY <1>5, <3>6, <3>8, <3>9
    <3> QED BY <3>2, <3>10, <3>11, <3>12 DEF ItemRefusal, OverBudget
  <2>2. CASE ~StopsHere(m)
    <3>1. PICK d : d = EventChecks(m)
      OBVIOUS
    <3>2. ChecksAt(m, "events") = d
      BY <2>2, <3>1 DEF ChecksAt
    <3>3. /\ DOMAIN d = 1..4
          /\ d[1].kind = "Malformed" /\ d[1].offset = EventAt(p) + ItemAt(p).text
          /\ d[2].kind = "Events" /\ d[2].offset = EventAt(p)
          /\ d[3].kind = "NoteStarts" /\ d[3].offset = EventAt(p)
          /\ d[4].kind = "TextBytes" /\ d[4].offset = EventAt(p)
      BY <1>6, <1>7, <3>1 DEF EventChecks
    <3>4. d[1].fails = (ItemAt(p).kind = "fault")
      BY <1>6, <1>7, <3>1 DEF EventChecks
    <3>5. d[2].fails = Exceeds(m, "events", Cardinality(UpTo(m, p)))
      BY <1>5, <1>7, <3>1 DEF EventChecks
    <3>6. d[3].fails = Exceeds(m, "noteStarts", Cardinality(Notes(UpTo(m, p))))
      <4>1. d[3].fails = (ItemAt(p).kind = "note" /\ Exceeds(m, "noteStarts", noteStarts[m] + 1))
        BY <1>6, <1>7, <3>1 DEF EventChecks
      <4>2. CASE ItemAt(p).kind = "note"
        <5>1. NotesOf(ItemAt(p)) = 1
          BY <4>2 DEF NotesOf
        <5> QED BY <1>5, <4>1, <4>2, <5>1 DEF Exceeds
      <4>3. CASE ItemAt(p).kind # "note"
        <5>1. NotesOf(ItemAt(p)) = 0
          BY <4>3 DEF NotesOf
        <5> QED BY <1>5, <1>6, <4>1, <4>3, <5>1 DEF Exceeds
      <4> QED BY <4>2, <4>3
    <3>7. d[4].fails = Exceeds(m, "textBytes", Cardinality(Texts(UpTo(m, p))))
      <4>1. d[4].fails = (ItemAt(p).kind = "text" /\ Exceeds(m, "textBytes", textBytes[m] + ItemAt(p).text))
        BY <1>6, <1>7, <3>1 DEF EventChecks
      <4>2. CASE ItemAt(p).kind = "text"
        <5>1. TextOf(ItemAt(p)) = ItemAt(p).text
          BY <4>2 DEF TextOf
        <5> QED BY <1>5, <4>1, <4>2, <5>1 DEF Exceeds
      <4>3. CASE ItemAt(p).kind # "text"
        <5>1. TextOf(ItemAt(p)) = 0
          BY <4>3 DEF TextOf
        <5> QED BY <1>5, <1>6, <4>1, <4>3, <5>1 DEF Exceeds
      <4> QED BY <4>2, <4>3
    <3>8. PICK k \in 1..4 : /\ d[k].fails /\ FirstOf(d).offset = d[k].offset
                            /\ FirstOf(d).kind = d[k].kind
                            /\ \A j \in 1..4 : d[j].fails => k <= j
      <4>1. 4 \in Nat /\ Failing(d) # {}
        BY <3>2
      <4> QED BY <3>3, <4>1, FirstIs
    <3>9. FirstOf(d) = Refusal(d[k].kind, d[k].offset)
      BY <3>8 DEF FirstOf, Refusal
    <3>10. (k = 1 \/ k = 2 \/ k = 3 \/ k = 4) /\ 1 \in 1..4 /\ 2 \in 1..4 /\ 3 \in 1..4
      OBVIOUS
    <3>11. /\ k # 1 => ~d[1].fails
           /\ k = 3 \/ k = 4 => ~d[2].fails
           /\ k = 4 => ~d[3].fails
      BY <3>8, <3>10
    <3>12. outcome[m] = ItemRefusal(m, p)
      <4>1. CASE k = 1
        BY <3>2, <3>3, <3>4, <3>8, <3>9, <4>1 DEF ItemRefusal
      <4>2. CASE k = 2
        BY <3>2, <3>3, <3>4, <3>5, <3>8, <3>9, <3>11, <4>2 DEF ItemRefusal
      <4>3. CASE k = 3
        BY <3>2, <3>3, <3>4, <3>5, <3>6, <3>8, <3>9, <3>11, <4>3 DEF ItemRefusal
      <4>4. CASE k = 4
        BY <3>2, <3>3, <3>4, <3>5, <3>6, <3>7, <3>8, <3>9, <3>11, <4>4 DEF ItemRefusal
      <4> QED BY <3>10, <4>1, <4>2, <4>3, <4>4
    <3>13. ItemAt(p).kind = "fault" \/ OverBudget(m, p)
      BY <3>4, <3>5, <3>6, <3>7, <3>8, <3>10 DEF OverBudget
    <3> QED BY <3>12, <3>13
  <2> QED BY <2>1, <2>2
<1>9. p \in Nat \X Nat
  BY <1>2, <1>3, <1>4
<1> QED BY <1>2, <1>3, <1>4, <1>5, <1>8, <1>9 DEF Stopped, StoppedAtItem

(* A refusal is that of the header, or has a place behind it.              *)
LEMMA RefusedWhere ==
    ASSUME IInv, NEW m \in Pair, Answered(m), ~Accepted(m)
    PROVE  \/ Failing(HeaderChecks(m)) # {} /\ outcome[m] = FirstOf(HeaderChecks(m))
           \/ \E p \in Nat \X Nat : Stopped(m, p)
<1>1. file \in Files /\ limits \in Limits /\ m \in Modes /\ m # "strict"
  BY ModesAre DEF IInv, Shape, Pair
<1>2. PICK s \in {"input", "chunk", "events"} :
         At(m, s) /\ AnsweredAt(m, s) /\ (Failing(ChecksAt(m, s)) = {} <=> outcome[m] = Ok)
  BY <1>1, AnswerKind DEF Answered, IInv
<1>3. Failing(ChecksAt(m, s)) # {} /\ outcome[m] = FirstOf(ChecksAt(m, s))
  BY <1>2 DEF AnsweredAt, Accepted
<1>4. \A b, k, x : Check(b, k, x).fails = b
  BY DEF Check
<1>5. ~RequireEndOfTrack(m) /\ ~RejectTrailingBytes(m)
  BY <1>1, Grammars
<1>6. CASE s = "input"
  BY <1>3, <1>6 DEF ChecksAt
<1>7. CASE s = "chunk"
  <2>1. AtChunk(m)
    BY <1>2, <1>7 DEF At
  <2>2. track[m] <= file.declared
    <3> SUFFICES ASSUME ~(track[m] <= file.declared)
                 PROVE  FALSE
      OBVIOUS
    <3>1. PICK d : d = Check(RejectTrailingBytes(m) /\ file.trailing # 0, "TrailingBytes", offset[m])
      OBVIOUS
    <3>2. ChecksAt(m, s) = <<d>> /\ d.fails = FALSE
      BY <1>4, <1>5, <1>7, <3>1 DEF ChecksAt, FinishChecks
    <3> QED BY <1>3, <3>2, OneCheck
  <2>3. PICK p : p = <<track[m], 0>> /\ p[1] = track[m] /\ p[2] = 0
    <3>1. <<track[m], 0>>[1] = track[m] /\ <<track[m], 0>>[2] = 0
      OBVIOUS
    <3> QED BY <3>1
  <2>4. p \in Nat \X Nat
    BY <1>1, <2>1, <2>3, FileFacts DEF AtChunk
  <2>5. Failing(ChunkChecks(m)) # {} /\ outcome[m] = FirstOf(ChunkChecks(m))
    BY <1>3, <1>7, <2>2 DEF ChecksAt
  <2>6. Stopped(m, p)
    BY <2>1, <2>2, <2>3, <2>4, <2>5 DEF Stopped, StoppedAtChunk, AtChunk
  <2> QED BY <2>4, <2>6
<1>8. CASE s = "events"
  <2>1. AtEvents(m)
    BY <1>2, <1>8 DEF At
  <2>2. More(m)
    <3> SUFFICES ASSUME ~More(m)
                 PROVE  FALSE
      OBVIOUS
    <3>1. PICK d : d = Check(RequireEndOfTrack(m) /\ ~sawEot[m], "MissingEndOfTrack", offset[m])
      OBVIOUS
    <3>2. ChecksAt(m, s) = <<d>> /\ d.fails = FALSE
      BY <1>4, <1>5, <1>8, <3>1 DEF ChecksAt, CloseChecks
    <3> QED BY <1>3, <3>2, OneCheck
  <2>3. Stopped(m, <<track[m], item[m]>>)
    BY <1>3, <1>8, <2>1, <2>2, StopsAtItem
  <2> QED BY <2>3 DEF Stopped
<1> QED BY <1>6, <1>7, <1>8

(* What lies before that place was sound and within the budgets.           *)
LEMMA SoundBefore ==
    ASSUME file \in Files, limits \in Limits, NEW m \in Pair, NEW p, Stopped(m, p),
           NEW q \in Nat \X Nat, Earlier(q, p)
    PROVE  /\ q[2] = 0 /\ q[1] \in Nat \ {0} => q[1] <= Len(file.tracks) /\ ChunkSound(m, q[1])
           /\ q \in ReadBy(m) => ItemAt(q).kind # "fault" /\ ~OverBudget(m, q)
<1>1. PICK t, i : t = p[1] /\ i = (IF p[2] = 0 THEN 1 ELSE p[2])
  OBVIOUS
<1>2. /\ p[1] \in Nat /\ p[2] \in Nat /\ q[1] \in Nat /\ q[2] \in Nat /\ Len(file.tracks) \in Nat
      /\ (q[1] < p[1] \/ (q[1] = p[1] /\ q[2] < p[2])) /\ t \in Nat /\ i \in Nat
  BY <1>1, FileFacts DEF Stopped, Earlier
<1>3. Passed(m, t, i)
  BY <1>1 DEF Stopped, StoppedAtChunk, AtChunk, StoppedAtItem
<1>4. /\ t <= Len(file.tracks) + 1
      /\ p[2] # 0 => t <= Len(file.tracks) /\ ChunkSound(m, t)
  <2>1. CASE p[2] = 0
    <3>1. t \in 1..(Len(file.tracks) + 1)
      BY <1>1, <2>1 DEF Stopped, StoppedAtChunk, AtChunk
    <3> QED BY <1>2, <2>1, <3>1
  <2>2. CASE p[2] # 0
    <3>1. p \in Positions /\ ChunkSound(m, t)
      BY <1>1, <2>2 DEF Stopped, StoppedAtItem, ReadBy
    <3>2. t \in 1..Len(file.tracks)
      BY <1>1, <3>1, PositionFacts
    <3> QED BY <1>2, <3>1, <3>2
  <2> QED BY <2>1, <2>2
<1>5. ASSUME q[2] = 0, q[1] \in Nat \ {0}
      PROVE  q[1] <= Len(file.tracks) /\ ChunkSound(m, q[1])
  <2>1. CASE q[1] < p[1]
    <3>1. q[1] \in 1..(p[1] - 1) /\ q[1] <= Len(file.tracks)
      BY <1>1, <1>2, <1>4, <1>5, <2>1
    <3>2. TrackSound(m, q[1])
      BY <3>1 DEF Stopped
    <3> QED BY <3>1, <3>2 DEF TrackSound
  <2>2. CASE q[1] = p[1] /\ q[2] < p[2]
    <3>1. p[2] # 0
      BY <1>2, <2>2
    <3> QED BY <1>1, <1>4, <2>2, <3>1
  <2> QED BY <1>2, <2>1, <2>2
<1>6. ASSUME q \in ReadBy(m)
      PROVE  ItemAt(q).kind # "fault" /\ ~OverBudget(m, q)
  <2>1. PICK B, U : B = Behind(m, t, i) /\ U = UpTo(m, q)
    OBVIOUS
  <2>2. q \in B
    BY <1>1, <1>2, <1>6, <2>1 DEF Behind
  <2>3. U \subseteq B
    <3> SUFFICES ASSUME NEW r \in ReadBy(m), Before(r, q)
                 PROVE  r[1] < t \/ (r[1] = t /\ r[2] < i)
      BY <2>1 DEF UpTo, Behind
    <3>1. r \in Positions
      BY DEF ReadBy
    <3>2. r[1] \in Nat /\ r[2] \in Nat
      BY <3>1, PositionFacts
    <3>3. r[1] < q[1] \/ (r[1] = q[1] /\ r[2] <= q[2])
      BY DEF Before
    <3> QED BY <1>1, <1>2, <3>2, <3>3
  <2>4. B \subseteq Positions
    BY <2>1 DEF Behind, ReadBy
  <2>5. ItemAt(q).kind # "fault"
    BY <1>3, <2>1, <2>2 DEF Passed, ItemSound
  <2>6. /\ Cardinality(U) <= events[m] /\ Cardinality(U) \in Nat /\ events[m] \in Nat
        /\ Cardinality(Notes(U)) <= noteStarts[m] /\ Cardinality(Notes(U)) \in Nat /\ noteStarts[m] \in Nat
        /\ Cardinality(Texts(U)) <= textBytes[m] /\ Cardinality(Texts(U)) \in Nat /\ textBytes[m] \in Nat
    BY <1>3, <2>1, <2>3, <2>4, CountsGrow DEF Passed, Charged
  <2>7. limits["events"] \in Nat /\ limits["noteStarts"] \in Nat /\ limits["textBytes"] \in Nat
    BY LimitsAreNat DEF Resources
  <2>8. /\ ~Exceeds(m, "events", Cardinality(U)) /\ ~Exceeds(m, "noteStarts", Cardinality(Notes(U)))
        /\ ~Exceeds(m, "textBytes", Cardinality(Texts(U)))
    <3>1. WithinBudget(m) /\ m # "trusted"
      BY <1>3 DEF Passed, Pair
    <3> QED BY <2>6, <2>7, <3>1 DEF WithinBudget, Exceeds
  <2> QED BY <2>1, <2>5, <2>8 DEF OverBudget
<1> QED BY <1>5, <1>6

(* Both have the same checks of a header and of a chunk.                   *)
LEMMA SameChecks ==
    /\ HeaderChecks("bounded") = HeaderChecks("compatible")
    /\ \A t : ChunkSound("bounded", t) <=> ChunkSound("compatible", t)
    /\ track["bounded"] = track["compatible"] /\ offset["bounded"] = offset["compatible"]
          => ChunkChecks("bounded") = ChunkChecks("compatible")
<1>1. \A r, a : Exceeds("bounded", r, a) = Exceeds("compatible", r, a)
  BY DEF Exceeds
<1>2. ValidateDivision("bounded") = ValidateDivision("compatible")
  BY DEF ValidateDivision
<1>3. HeaderChecks("bounded") = HeaderChecks("compatible")
  BY <1>1, <1>2 DEF HeaderChecks
<1>4. \A t : ChunkSound("bounded", t) <=> ChunkSound("compatible", t)
  BY <1>1 DEF ChunkSound
<1>5. ASSUME track["bounded"] = track["compatible"], offset["bounded"] = offset["compatible"]
      PROVE  ChunkChecks("bounded") = ChunkChecks("compatible")
  BY <1>1, <1>5 DEF ChunkChecks
<1> QED BY <1>3, <1>4, <1>5

(* A parser that stopped at the head of a chunk found it unsound, or none. *)
LEMMA UnsoundHead ==
    ASSUME file \in Files, NEW m \in Pair, NEW t, StoppedAtChunk(m, t)
    PROVE  t \in Nat \ {0} /\ ~(t <= Len(file.tracks) /\ ChunkSound(m, t))
<1>1. t \in 1..(Len(file.tracks) + 1) /\ Len(file.tracks) \in Nat /\ t = track[m]
  BY FileFacts DEF StoppedAtChunk, AtChunk
<1>2. PICK d : d = ChunkChecks(m)
  OBVIOUS
<1>3. \A b, k, x : Check(b, k, x).fails = b
  BY DEF Check
<1>4. d[1].fails = (t > Len(file.tracks))
  BY <1>1, <1>2, <1>3 DEF ChunkChecks
<1>5. d[2].fails = (~(t > Len(file.tracks)) /\ file.badTag = t)
  BY <1>1, <1>2, <1>3 DEF ChunkChecks
<1>6. d[3].fails = (~(t > Len(file.tracks)) /\ Exceeds(m, "trackBytes", TrackBytes(t)))
  BY <1>1, <1>2, <1>3 DEF ChunkChecks
<1>7. d[4].fails = (~(t > Len(file.tracks)) /\ file.cut = t)
  BY <1>1, <1>2, <1>3 DEF ChunkChecks
<1>8. DOMAIN d = 1..4
  BY <1>2 DEF ChunkChecks
<1>9. PICK k \in 1..4 : d[k].fails
  BY <1>2, <1>8 DEF StoppedAtChunk, Failing
<1>10. k = 1 \/ k = 2 \/ k = 3 \/ k = 4
  OBVIOUS
<1>11. d[1].fails \/ d[2].fails \/ d[3].fails \/ d[4].fails
  BY <1>9, <1>10
<1>12. t > Len(file.tracks) \/ ~ChunkSound(m, t)
  BY <1>4, <1>5, <1>6, <1>7, <1>11 DEF ChunkSound
<1> QED BY <1>1, <1>12

(* An item a parser refused is refused where it stands, not before.        *)
LEMMA RefusedFrom ==
    ASSUME file \in Files, NEW m \in Pair, NEW p, StoppedAtItem(m, p)
    PROVE  EventAt(p) \in Nat /\ outcome[m].offset \in Nat /\ EventAt(p) <= outcome[m].offset
<1>1. p \in Positions
  BY DEF StoppedAtItem, ReadBy
<1>2. StartOf(p) \in Nat /\ EventAt(p) = StartOf(p) + ItemAt(p).delta
      /\ ItemAt(p).delta \in Nat /\ ItemAt(p).text \in Nat
  BY <1>1, StartInChunk, PositionFacts, ItemFacts
<1>3. PICK e, x : e = EventAt(p) /\ x = ItemAt(p).text
  OBVIOUS
<1>4. e \in Nat /\ x \in Nat
  BY <1>2, <1>3
<1>5. ItemRefusal(m, p).offset \in {e, e + x}
  BY <1>3 DEF ItemRefusal, Refusal
<1>6. outcome[m].offset \in {e, e + x}
  BY <1>5 DEF StoppedAtItem
<1> QED BY <1>3, <1>4, <1>6

(* Where nothing skipped lies before the compatible parser's error, the    *)
(* bounded parser stops at the same place.                                 *)
LEMMA SamePlace ==
    ASSUME file \in Files, limits \in Limits, NEW p \in Nat \X Nat, NEW q \in Nat \X Nat,
           Stopped("bounded", p), Stopped("compatible", q),
           outcome["bounded"].offset <= outcome["compatible"].offset,
           outcome["compatible"].offset \in Nat,
           \A r \in Skipped : EventAt(r) > outcome["compatible"].offset
    PROVE  /\ p = q
           /\ p[2] # 0 => UpTo("bounded", p) = UpTo("compatible", p)
<1> DEFINE X == outcome["compatible"].offset
<1>1. /\ ReadBy("compatible") \subseteq ReadBy("bounded")
      /\ ReadBy("bounded") = ReadBy("compatible") \cup Skipped
  BY DEF ReadBy, Skipped
<1>2. /\ p[1] \in Nat /\ p[2] \in Nat /\ q[1] \in Nat /\ q[2] \in Nat
      /\ p = <<p[1], p[2]>> /\ q = <<q[1], q[2]>>
      /\ "bounded" \in Pair /\ "compatible" \in Pair
  BY DEF Pair
<1>3. ASSUME p[2] # 0
      PROVE  /\ StoppedAtItem("bounded", p) /\ p \in Positions
             /\ EventAt(p) \in Nat /\ EventAt(p) <= X /\ p \in ReadBy("compatible")
  <2>1. StoppedAtItem("bounded", p)
    BY <1>3 DEF Stopped
  <2>2. EventAt(p) \in Nat /\ EventAt(p) <= X
    BY <1>2, <2>1, RefusedFrom
  <2>3. p \in ReadBy("bounded") /\ p \in Positions
    BY <2>1 DEF StoppedAtItem, ReadBy
  <2> QED BY <1>1, <2>1, <2>2, <2>3
<1>4. ASSUME NEW r \in Positions, EventAt(r) <= X
      PROVE  UpTo("bounded", r) = UpTo("compatible", r)
  <2>1. ASSUME NEW s \in ReadBy("bounded"), Before(s, r)
        PROVE  s \in ReadBy("compatible")
    <3> SUFFICES ASSUME s \in Skipped
                 PROVE  FALSE
      BY <1>1
    <3>1. s \in Positions
      BY DEF Skipped
    <3>2. s = <<s[1], s[2]>> /\ r = <<r[1], r[2]>> /\ s[2] \in Nat /\ r[2] \in Nat
          /\ s[1] \in Nat /\ r[1] \in Nat
      BY <3>1, PositionFacts
    <3>3. s = r \/ Earlier(s, r)
      <4>1. s[1] < r[1] \/ (s[1] = r[1] /\ (s[2] < r[2] \/ s[2] = r[2]))
        BY <2>1, <3>2 DEF Before
      <4> QED BY <3>2, <4>1 DEF Earlier
    <3>4. PICK a, b, c, d, e : /\ a = StartOf(s) /\ b = ItemAt(s).delta /\ c = ItemAt(s).body
                               /\ d = StartOf(r) /\ e = ItemAt(r).delta
      OBVIOUS
    <3>5. /\ a \in Nat /\ b \in Nat /\ c \in Nat /\ d \in Nat /\ e \in Nat
          /\ EventAt(s) = a + b /\ EventAt(r) = d + e /\ ItemBytes(ItemAt(s)) = b + c
      BY <3>1, <3>4, StartInChunk, PositionFacts, ItemFacts
    <3>6. Earlier(s, r) => a + (b + c) <= d
      BY <3>1, <3>4, <3>5, StartsInOrder
    <3>7. EventAt(s) <= EventAt(r)
      <4>1. CASE s = r
        BY <3>5, <4>1
      <4>2. CASE Earlier(s, r)
        BY <3>5, <3>6, <4>2
      <4> QED BY <3>3, <4>1, <4>2
    <3>8. EventAt(s) > X
      BY DEF Skipped
    <3> QED BY <1>4, <3>5, <3>7, <3>8
  <2> QED BY <1>1, <2>1 DEF UpTo
<1>5. ASSUME Earlier(p, q)
      PROVE  FALSE
  <2>1. CASE p[2] = 0
    <3>1. StoppedAtChunk("bounded", p[1])
      BY <2>1 DEF Stopped
    <3>2. p[1] \in Nat \ {0} /\ ~(p[1] <= Len(file.tracks) /\ ChunkSound("bounded", p[1]))
      BY <1>2, <3>1, UnsoundHead
    <3>3. p[1] <= Len(file.tracks) /\ ChunkSound("compatible", p[1])
      BY <1>2, <1>5, <2>1, <3>2, SoundBefore
    <3> QED BY <3>2, <3>3, SameChecks
  <2>2. CASE p[2] # 0
    <3>1. ItemAt(p).kind # "fault" /\ ~OverBudget("compatible", p)
      BY <1>2, <1>3, <1>5, <2>2, SoundBefore
    <3>2. OverBudget("bounded", p)
      BY <1>3, <2>2, <3>1 DEF StoppedAtItem
    <3>3. UpTo("bounded", p) = UpTo("compatible", p)
      BY <1>3, <1>4, <2>2
    <3> QED BY <3>1, <3>2, <3>3 DEF OverBudget, Exceeds
  <2> QED BY <2>1, <2>2
<1>6. ASSUME Earlier(q, p)
      PROVE  FALSE
  <2>1. CASE q[2] = 0
    <3>1. StoppedAtChunk("compatible", q[1])
      BY <2>1 DEF Stopped
    <3>2. q[1] \in Nat \ {0} /\ ~(q[1] <= Len(file.tracks) /\ ChunkSound("compatible", q[1]))
      BY <1>2, <3>1, UnsoundHead
    <3>3. q[1] <= Len(file.tracks) /\ ChunkSound("bounded", q[1])
      BY <1>2, <1>6, <2>1, <3>2, SoundBefore
    <3> QED BY <3>2, <3>3, SameChecks
  <2>2. CASE q[2] # 0
    <3>1. StoppedAtItem("compatible", q)
      BY <2>2 DEF Stopped
    <3>2. q \in ReadBy("compatible") /\ q \in ReadBy("bounded") /\ q \in Positions
      BY <1>1, <3>1 DEF StoppedAtItem, ReadBy
    <3>3. ItemAt(q).kind # "fault" /\ ~OverBudget("bounded", q)
      BY <1>2, <1>6, <3>2, SoundBefore
    <3>4. OverBudget("compatible", q)
      BY <3>1, <3>3 DEF StoppedAtItem
    <3>5. EventAt(q) <= X
      BY <1>2, <3>1, RefusedFrom
    <3>6. UpTo("bounded", q) = UpTo("compatible", q)
      BY <1>4, <3>2, <3>5
    <3> QED BY <3>3, <3>4, <3>6 DEF OverBudget, Exceeds
  <2> QED BY <2>1, <2>2
<1>7. p = q
  <2>1. p[1] = q[1] /\ p[2] = q[2]
    BY <1>2, <1>5, <1>6 DEF Earlier
  <2> QED BY <1>2, <2>1
<1>8. p[2] # 0 => UpTo("bounded", p) = UpTo("compatible", p)
  BY <1>3, <1>4
<1> QED BY <1>7, <1>8

(* ... and refuses the file with the same error.                           *)
LEMMA SameRefusal ==
    ASSUME IInv, Answered("bounded"), Answered("compatible"),
           ~Accepted("bounded"), ~Accepted("compatible"),
           outcome["bounded"].offset <= outcome["compatible"].offset,
           outcome["compatible"].offset \in Nat,
           \A r \in Skipped : EventAt(r) > outcome["compatible"].offset
    PROVE  outcome["bounded"] = outcome["compatible"]
<1>1. file \in Files /\ limits \in Limits /\ "bounded" \in Pair /\ "compatible" \in Pair
  BY DEF IInv, Shape, Pair
<1>2. CASE Failing(HeaderChecks("bounded")) # {}
  <2>1. Failing(HeaderChecks("compatible")) # {}
    BY <1>2, SameChecks
  <2>2. /\ outcome["bounded"] = FirstOf(HeaderChecks("bounded"))
        /\ outcome["compatible"] = FirstOf(HeaderChecks("compatible"))
    BY <1>1, <1>2, <2>1, RefusedWhere DEF Stopped
  <2> QED BY <2>2, SameChecks
<1>3. CASE Failing(HeaderChecks("bounded")) = {}
  <2>1. Failing(HeaderChecks("compatible")) = {}
    BY <1>3, SameChecks
  <2>2. PICK p \in Nat \X Nat : Stopped("bounded", p)
    BY <1>1, <1>3, RefusedWhere
  <2>3. PICK q \in Nat \X Nat : Stopped("compatible", q)
    BY <1>1, <2>1, RefusedWhere
  <2>4. p = q /\ (p[2] # 0 => UpTo("bounded", p) = UpTo("compatible", p))
    BY <1>1, <2>2, <2>3, SamePlace
  <2>5. CASE p[2] = 0
    <3>1. StoppedAtChunk("bounded", p[1]) /\ StoppedAtChunk("compatible", p[1])
      BY <2>2, <2>3, <2>4, <2>5 DEF Stopped
    <3>2. track["bounded"] = track["compatible"] /\ offset["bounded"] = offset["compatible"]
      BY <3>1 DEF StoppedAtChunk, AtChunk
    <3> QED BY <3>1, <3>2, SameChecks DEF StoppedAtChunk
  <2>6. CASE p[2] # 0
    <3>1. StoppedAtItem("bounded", p) /\ StoppedAtItem("compatible", p)
      BY <2>2, <2>3, <2>4, <2>6 DEF Stopped
    <3>2. UpTo("bounded", p) = UpTo("compatible", p)
      BY <2>4, <2>6
    <3>3. ItemRefusal("bounded", p) = ItemRefusal("compatible", p)
      BY <3>2 DEF ItemRefusal, Exceeds
    <3> QED BY <3>1, <3>3 DEF StoppedAtItem
  <2> QED BY <2>5, <2>6
<1> QED BY <1>2, <1>3

(* CompatibleStopsAtEot holds in every reachable state: the compatible     *)
(* score is the trusted one without the events behind an End-of-Track, and *)
(* a file it refuses is refused by the bounded parser at no later offset,  *)
(* and with the same error unless an event that only the bounded parser    *)
(* reads stands before it (handle_end_of_track under Compatible and        *)
(* Legacy).                                                                *)
THEOREM CompatibleCutsTracks == Spec => []CompatibleStopsAtEot
<1>1. IInv => CompatibleStopsAtEot
  <2> SUFFICES ASSUME IInv, Answered("compatible")
               PROVE  /\ Accepted("compatible") /\ Accepted("trusted") =>
                           applied["compatible"] =
                              Kept(applied["trusted"],
                                   {i \in DOMAIN applied["trusted"] :
                                       applied["trusted"][i] \in ReadBy("compatible")})
                      /\ ~Accepted("compatible") =>
                           /\ ~Accepted("bounded")
                           /\ outcome["bounded"].offset <= outcome["compatible"].offset
                           /\ (\A p \in Skipped : EventAt(p) > outcome["compatible"].offset) =>
                                 outcome["bounded"] = outcome["compatible"]
    BY DEF CompatibleStopsAtEot
  <2>1. /\ file \in Files /\ limits \in Limits /\ Answered("bounded") /\ Answered("trusted")
        /\ "bounded" \in Modes /\ "compatible" \in Modes /\ "trusted" \in Modes
    BY InTurnFacts, ModesAre DEF IInv, Shape
  <2>2. /\ ReadBy("compatible") \subseteq ReadBy("bounded")
        /\ ReadBy("compatible") \subseteq ReadBy("trusted")
    BY DEF ReadBy
  <2>3. ASSUME Accepted("compatible"), Accepted("trusted")
        PROVE  applied["compatible"] =
                  Kept(applied["trusted"],
                       {i \in DOMAIN applied["trusted"] : applied["trusted"][i] \in ReadBy("compatible")})
    <3>1. /\ Lists(applied["compatible"], Heard(ReadBy("compatible")))
          /\ Lists(applied["trusted"], Heard(ReadBy("trusted")))
      BY <2>1, <2>3, AcceptedAll DEF Charged
    <3>2. {p \in Heard(ReadBy("trusted")) : p \in ReadBy("compatible")} = Heard(ReadBy("compatible"))
      BY <2>2 DEF Heard
    <3>3. Lists(Kept(applied["trusted"],
                     {i \in DOMAIN applied["trusted"] : applied["trusted"][i] \in ReadBy("compatible")}),
                Heard(ReadBy("compatible")))
      <4>1. PICK S, s, R : /\ S = Heard(ReadBy("trusted")) /\ s = applied["trusted"]
                           /\ R = ReadBy("compatible")
        OBVIOUS
      <4>2. S \in SUBSET (Nat \X Nat) /\ Lists(s, S)
        BY <2>1, <3>1, <4>1, HeardPlaces
      <4>3. Lists(Kept(s, {i \in DOMAIN s : s[i] \in R}), {p \in S : p \in R})
        BY <4>2, KeptLists
      <4> QED BY <3>2, <4>1, <4>3
    <3> QED BY <2>1, <3>1, <3>3, HeardPlaces, ListsUnique
  <2>4. ASSUME ~Accepted("compatible")
        PROVE  /\ ~Accepted("bounded") /\ outcome["bounded"].offset <= outcome["compatible"].offset
               /\ (\A p \in Skipped : EventAt(p) > outcome["compatible"].offset) =>
                     outcome["bounded"] = outcome["compatible"]
    <3>1. outcome["compatible"].offset \in Faults("compatible") /\ outcome["compatible"].offset \in Nat
      BY <2>1, <2>4, AnswerIs
    <3>2. Faults("compatible") \subseteq Faults("bounded")
      BY <2>1, <2>2, FaultsGrow
    <3>3. ~Accepted("bounded") /\ outcome["bounded"].offset <= outcome["compatible"].offset
      BY <2>1, <3>1, <3>2, AnswerIs
    <3> QED BY <2>1, <2>4, <3>1, <3>3, SameRefusal
  <2> QED BY <2>3, <2>4
<1> QED BY <1>1, AlwaysIInv, PTL

(* What the Legacy grammar refuses whatever the limits: the place of a     *)
(* chunk is <<t, 0>>, that of an item <<t, i>>.                            *)
BadHeader == file.header \in {"tag", "short", "format"}
Broken(p) ==
    \/ p[2] = 0 /\ p[1] \in 1..Len(file.tracks) /\ (file.badTag = p[1] \/ file.cut = p[1])
    \/ p = <<Len(file.tracks) + 1, 0>> /\ file.declared > Len(file.tracks)
    \/ p \in Positions /\ ItemAt(p).kind = "fault"
FirstBroken(p) ==
    /\ p \in Nat \X Nat /\ Broken(p)
    /\ \A q \in Nat \X Nat : Earlier(q, p) => ~Broken(q)

HeaderRefusal ==
    IF file.header = "tag" THEN Refusal("ExpectedChunk", 0)
    ELSE IF file.header = "short" THEN Refusal("HeaderTooShort", 4) ELSE Refusal("InvalidFormat", 8)
BrokenRefusal(p) ==
    IF p[2] # 0 THEN Refusal("Malformed", EventAt(p) + ItemAt(p).text)
    ELSE IF p[1] = Len(file.tracks) + 1 THEN Refusal("UnexpectedEnd", ChunkStart(p[1]))
    ELSE IF file.badTag = p[1] THEN Refusal("ExpectedChunk", ChunkStart(p[1]))
    ELSE Refusal("UnexpectedEnd", ChunkStart(p[1]) + 8)

(* The answer that is left when no limit is exceeded. *)
PlainAnswer(answer) ==
    IF BadHeader THEN answer = HeaderRefusal
    ELSE \/ \E p : FirstBroken(p) /\ answer = BrokenRefusal(p)
         \/ (\A p \in Nat \X Nat : ~Broken(p)) /\ answer = Ok

(* There is one plain answer to a file.                                    *)
LEMMA PlainAnswerUnique ==
    ASSUME NEW a, NEW b, PlainAnswer(a), PlainAnswer(b)
    PROVE  a = b
<1>1. CASE BadHeader
  BY <1>1 DEF PlainAnswer
<1>2. CASE ~BadHeader
  <2>1. \A p, q : FirstBroken(p) /\ FirstBroken(q) => p = q
    <3> SUFFICES ASSUME NEW p \in Nat \X Nat, NEW q \in Nat \X Nat, Broken(p), Broken(q),
                        ~Earlier(p, q), ~Earlier(q, p)
                 PROVE  p = q
      BY DEF FirstBroken
    <3>1. p[1] \in Nat /\ p[2] \in Nat /\ q[1] \in Nat /\ q[2] \in Nat
          /\ p = <<p[1], p[2]>> /\ q = <<q[1], q[2]>>
      OBVIOUS
    <3>2. p[1] = q[1] /\ p[2] = q[2]
      BY <3>1 DEF Earlier
    <3> QED BY <3>1, <3>2
  <2>2. \A p : FirstBroken(p) => p \in Nat \X Nat /\ Broken(p)
    BY DEF FirstBroken
  <2> QED BY <1>2, <2>1, <2>2 DEF PlainAnswer
<1> QED BY <1>1, <1>2

Legacy == {"trusted", "bounded"}

(* What a parser has passed is not broken. *)
LEMMA PassedUnbroken ==
    ASSUME file \in Files, NEW m \in Legacy, NEW t \in 1..(Len(file.tracks) + 1), NEW i \in Nat, NEW j \in Nat,
           i <= j, j > 0, \A u \in 1..(t - 1) : TrackSound(m, u), Passed(m, t, j),
           i > 0 => t <= Len(file.tracks) /\ ChunkSound(m, t),
           NEW q \in Nat \X Nat, Earlier(q, <<t, i>>)
    PROVE  ~Broken(q)
<1>1. /\ t \in Nat /\ Len(file.tracks) \in Nat /\ q[1] \in Nat /\ q[2] \in Nat
      /\ (q[1] < t \/ (q[1] = t /\ q[2] < i))
  BY FileFacts DEF Earlier
<1>2. CASE q[2] = 0 /\ q[1] \in 1..Len(file.tracks) /\ (file.badTag = q[1] \/ file.cut = q[1])
  <2>1. CASE q[1] < t
    <3>1. q[1] \in 1..(t - 1)
      BY <1>1, <1>2, <2>1
    <3> QED BY <1>2, <3>1 DEF TrackSound, ChunkSound
  <2>2. CASE q[1] = t /\ q[2] < i
    BY <1>2, <2>2 DEF ChunkSound
  <2> QED BY <1>1, <2>1, <2>2
<1>3. CASE q = <<Len(file.tracks) + 1, 0>>
  <2>1. q[1] = Len(file.tracks) + 1 /\ q[2] = 0
    BY <1>3
  <2>2. ~(q[1] < t)
    BY <1>1, <2>1
  <2> QED BY <1>1, <2>1, <2>2
<1>4. CASE q \in Positions /\ ItemAt(q).kind = "fault"
  <2>1. q \in ReadBy(m)
    BY <1>4 DEF ReadBy, Legacy
  <2>2. q \in Behind(m, t, j)
    BY <1>1, <2>1 DEF Behind
  <2> QED BY <1>4, <2>2 DEF Passed, ItemSound
<1> QED BY <1>2, <1>3, <1>4 DEF Broken

(* A parser of the Legacy grammar that no limit stopped gives the plain    *)
(* answer.                                                                 *)
LEMMA LegacyAnswer ==
    ASSUME IInv, NEW m \in Legacy, Answered(m), outcome[m].kind \notin LimitKinds
    PROVE  PlainAnswer(outcome[m])
<1>1. file \in Files /\ m \in Modes /\ m # "strict" /\ m # "compatible"
  BY ModesAre DEF IInv, Shape, Legacy
<1>2. PICK s \in {"input", "chunk", "events"} :
         At(m, s) /\ AnsweredAt(m, s) /\ (Failing(ChecksAt(m, s)) = {} <=> outcome[m] = Ok)
  BY <1>1, AnswerKind DEF Answered, IInv
<1>3. /\ Failing(ChecksAt(m, s)) # {} => outcome[m] = FirstOf(ChecksAt(m, s))
      /\ Failing(ChecksAt(m, s)) = {} => s = "chunk" /\ track[m] > file.declared /\ outcome[m] = Ok
  BY <1>2 DEF AnsweredAt
<1>4. ~StopAtEndOfTrack(m) /\ ~RequireEndOfTrack(m) /\ ~RejectTrailingBytes(m) /\ ~ValidateDivision(m)
  BY <1>1, Grammars
<1>5. \A b, k, x : Check(b, k, x).fails = b /\ Check(b, k, x).kind = k /\ Check(b, k, x).offset = x
  BY DEF Check
<1>6. PICK c : c = HeaderChecks(m)
  OBVIOUS
<1>7. /\ DOMAIN c = 1..6 /\ c[1].kind = "InputBytes" /\ c[5].kind = "SourceTracks"
      /\ c[2].kind = "ExpectedChunk" /\ c[2].offset = 0
      /\ c[3].kind = "HeaderTooShort" /\ c[3].offset = 4
      /\ c[4].kind = "InvalidFormat" /\ c[4].offset = 8
  BY <1>5, <1>6 DEF HeaderChecks
<1>8. c[2].fails = (file.header = "tag") /\ c[3].fails = (file.header = "short") /\ c[4].fails = (file.header = "format")
  BY <1>5, <1>6 DEF HeaderChecks
<1>9. ~c[6].fails
  <2>1. c[6].fails = (ValidateDivision(m) /\ file.header = "division")
    BY <1>5, <1>6 DEF HeaderChecks
  <2> QED BY <1>4, <2>1
<1>10. CASE s = "input"
  <2>1. ChecksAt(m, s) = c /\ Failing(c) # {} /\ outcome[m] = FirstOf(c)
    BY <1>3, <1>6, <1>10 DEF ChecksAt
  <2>2. PICK k \in 1..6 : /\ c[k].fails /\ FirstOf(c).offset = c[k].offset
                          /\ FirstOf(c).kind = c[k].kind
                          /\ \A j \in 1..6 : c[j].fails => k <= j
    BY <1>7, <2>1, FirstIs
  <2>3. k \in {2, 3, 4}
    <3>1. k = 1 \/ k = 2 \/ k = 3 \/ k = 4 \/ k = 5 \/ k = 6
      OBVIOUS
    <3>2. k # 1 /\ k # 5
      BY <1>7, <2>1, <2>2 DEF LimitKinds
    <3> QED BY <1>9, <2>2, <3>1, <3>2
  <2>4. FirstOf(c) = Refusal(c[k].kind, c[k].offset)
    BY <2>2 DEF FirstOf, Refusal
  <2>5. CASE k = 2
    <3>1. file.header = "tag"
      BY <1>8, <2>2, <2>5
    <3> QED BY <1>7, <2>1, <2>4, <2>5, <3>1 DEF PlainAnswer, BadHeader, HeaderRefusal
  <2>6. CASE k = 3
    <3>1. file.header = "short"
      BY <1>8, <2>2, <2>6
    <3> QED BY <1>7, <2>1, <2>4, <2>6, <3>1 DEF PlainAnswer, BadHeader, HeaderRefusal
  <2>7. CASE k = 4
    <3>1. file.header = "format"
      BY <1>8, <2>2, <2>7
    <3> QED BY <1>7, <2>1, <2>4, <2>7, <3>1 DEF PlainAnswer, BadHeader, HeaderRefusal
  <2> QED BY <2>3, <2>5, <2>6, <2>7
<1>11. ASSUME Failing(c) = {}
       PROVE  ~BadHeader
  <2>1. ~c[2].fails /\ ~c[3].fails /\ ~c[4].fails
    BY <1>7, <1>11 DEF Failing
  <2> QED BY <1>8, <2>1 DEF BadHeader
<1>12. CASE s = "chunk"
  <2>1. AtChunk(m)
    BY <1>2, <1>12 DEF At
  <2>2. PICK t : t = track[m]
    OBVIOUS
  <2>3. /\ ~BadHeader /\ t \in 1..(Len(file.tracks) + 1) /\ t \in Nat /\ Len(file.tracks) \in Nat
        /\ \A u \in 1..(t - 1) : TrackSound(m, u)
        /\ offset[m] = ChunkStart(t) /\ Passed(m, t, 1)
        /\ file.declared \in Nat /\ file.declared >= Len(file.tracks)
    BY <1>1, <1>6, <1>11, <2>1, <2>2, FileFacts DEF AtChunk
  <2>4. \A q \in Nat \X Nat : Earlier(q, <<t, 0>>) => ~Broken(q)
    <3>1. 0 \in Nat /\ 1 \in Nat /\ 0 <= 1 /\ 1 > 0 /\ ~(0 > 0)
      OBVIOUS
    <3> QED BY <1>1, <2>3, <3>1, PassedUnbroken
  <2>5. <<t, 0>>[1] = t /\ <<t, 0>>[2] = 0 /\ <<t, 0>> \in Nat \X Nat
    BY <2>3
  <2>6. CASE t <= file.declared
    <3>1. PICK d : d = ChunkChecks(m)
      OBVIOUS
    <3>2. ChecksAt(m, s) = d /\ Failing(d) # {} /\ outcome[m] = FirstOf(d)
      BY <1>3, <1>12, <2>2, <2>3, <2>6, <3>1 DEF ChecksAt
    <3>3. /\ DOMAIN d = 1..4 /\ d[3].kind = "TrackBytes"
          /\ d[1].kind = "UnexpectedEnd" /\ d[1].offset = ChunkStart(t)
          /\ d[2].kind = "ExpectedChunk" /\ d[2].offset = ChunkStart(t)
          /\ d[4].kind = "UnexpectedEnd" /\ d[4].offset = ChunkStart(t) + 8
      BY <1>5, <2>3, <3>1 DEF ChunkChecks, ChunkHead
    <3>4. d[1].fails = (t > Len(file.tracks))
      BY <1>5, <2>2, <3>1 DEF ChunkChecks
    <3>5. d[2].fails = (~(t > Len(file.tracks)) /\ file.badTag = t)
      BY <1>5, <2>2, <3>1 DEF ChunkChecks
    <3>6. d[4].fails = (~(t > Len(file.tracks)) /\ file.cut = t)
      BY <1>5, <2>2, <3>1 DEF ChunkChecks
    <3>7. PICK k \in 1..4 : /\ d[k].fails /\ FirstOf(d).offset = d[k].offset
                            /\ FirstOf(d).kind = d[k].kind
                            /\ \A j \in 1..4 : d[j].fails => k <= j
      <4>1. 4 \in Nat /\ DOMAIN d = 1..4 /\ Failing(d) # {}
        BY <3>2, <3>3
      <4> QED BY <4>1, FirstIs
    <3>8. k \in {1, 2, 4}
      <4>1. k = 1 \/ k = 2 \/ k = 3 \/ k = 4
        OBVIOUS
      <4>2. k # 3
        BY <3>2, <3>3, <3>7 DEF LimitKinds
      <4> QED BY <4>1, <4>2
    <3>9. FirstOf(d) = Refusal(d[k].kind, d[k].offset)
      BY <3>7 DEF FirstOf, Refusal
    <3>10. Broken(<<t, 0>>) /\ FirstOf(d) = BrokenRefusal(<<t, 0>>)
      <4>1. CASE k = 1
        <5>1. t = Len(file.tracks) + 1 /\ file.declared > Len(file.tracks)
          <6>1. t > Len(file.tracks)
            BY <3>4, <3>7, <4>1
          <6> QED BY <2>3, <2>6, <6>1
        <5> QED BY <2>5, <3>3, <3>9, <4>1, <5>1 DEF Broken, BrokenRefusal
      <4>2. CASE k = 2
        <5>1. t \in 1..Len(file.tracks) /\ file.badTag = t /\ t # Len(file.tracks) + 1
          <6>1. ~(t > Len(file.tracks)) /\ file.badTag = t
            BY <3>5, <3>7, <4>2
          <6> QED BY <2>3, <6>1
        <5> QED BY <2>5, <3>3, <3>9, <4>2, <5>1 DEF Broken, BrokenRefusal
      <4>3. CASE k = 4
        <5>1. t \in 1..Len(file.tracks) /\ file.cut = t /\ t # Len(file.tracks) + 1
          <6>1. ~(t > Len(file.tracks)) /\ file.cut = t
            BY <3>6, <3>7, <4>3
          <6> QED BY <2>3, <6>1
        <5>2. ~d[2].fails
          BY <3>7, <4>3
        <5>3. file.badTag # t
          <6>1. ~(t > Len(file.tracks))
            BY <2>3, <5>1
          <6> QED BY <3>5, <5>2, <6>1
        <5> QED BY <2>5, <3>3, <3>9, <4>3, <5>1, <5>3 DEF Broken, BrokenRefusal
      <4> QED BY <3>8, <4>1, <4>2, <4>3
    <3>11. FirstBroken(<<t, 0>>)
      BY <2>4, <2>5, <3>10 DEF FirstBroken
    <3> QED BY <2>3, <3>2, <3>10, <3>11 DEF PlainAnswer
  <2>7. CASE ~(t <= file.declared)
    <3>1. t = Len(file.tracks) + 1 /\ ~(file.declared > Len(file.tracks))
      BY <2>3, <2>7
    <3>2. PICK d : d = Check(RejectTrailingBytes(m) /\ file.trailing # 0, "TrailingBytes", offset[m])
      OBVIOUS
    <3>3. ChecksAt(m, s) = <<d>> /\ d.fails = FALSE
      BY <1>4, <1>5, <1>12, <2>2, <2>7, <3>2 DEF ChecksAt, FinishChecks
    <3>4. outcome[m] = Ok
      BY <1>3, <3>3, OneCheck
    <3>5. \A q \in Nat \X Nat : ~Broken(q)
      <4> SUFFICES ASSUME NEW q \in Nat \X Nat, Broken(q)
                   PROVE  FALSE
        OBVIOUS
      <4>1. q # <<Len(file.tracks) + 1, 0>> \/ ~(file.declared > Len(file.tracks))
        BY <3>1
      <4>2. q[1] \in 1..Len(file.tracks)
        BY <1>1, <3>1, PositionFacts DEF Broken
      <4>3. Earlier(q, <<t, 0>>)
        BY <2>3, <2>5, <3>1, <4>2 DEF Earlier
      <4> QED BY <2>4, <4>3
    <3> QED BY <2>3, <3>4, <3>5 DEF PlainAnswer
  <2> QED BY <2>6, <2>7
<1>13. CASE s = "events"
  <2>1. AtEvents(m) /\ Failing(ChecksAt(m, s)) # {} /\ outcome[m] = FirstOf(ChecksAt(m, s))
    BY <1>2, <1>3, <1>13 DEF At
  <2>2. More(m)
    <3> SUFFICES ASSUME ~More(m)
                 PROVE  FALSE
      OBVIOUS
    <3>1. PICK d : d = Check(RequireEndOfTrack(m) /\ ~sawEot[m], "MissingEndOfTrack", offset[m])
      OBVIOUS
    <3>2. ChecksAt(m, s) = <<d>> /\ d.fails = FALSE
      BY <1>4, <1>5, <1>13, <3>1 DEF ChecksAt, CloseChecks
    <3> QED BY <2>1, <3>2, OneCheck
  <2>3. PICK t, i, p : t = track[m] /\ i = item[m] /\ p = <<t, i>>
    OBVIOUS
  <2>4. /\ ~BadHeader /\ t \in 1..Len(file.tracks) /\ t \in 1..(Len(file.tracks) + 1) /\ t \in Nat
        /\ t <= Len(file.tracks)
        /\ \A u \in 1..(t - 1) : TrackSound(m, u)
        /\ ChunkSound(m, t) /\ BeforeItem(m, t, i) /\ Len(file.tracks[t].items) \in Nat
    BY SMTT(30), <1>1, <1>6, <1>11, <2>1, <2>2, <2>3, FileFacts DEF AtEvents, More
  <2>5. i \in 1..(Len(file.tracks[t].items) + 1) /\ i \in Nat /\ i > 0 /\ i <= i /\ Passed(m, t, i)
    BY <2>4 DEF BeforeItem
  <2>6. p \in Nat \X Nat /\ p[1] = t /\ p[2] = i
    BY <2>3, <2>4, <2>5
  <2>7. \A q \in Nat \X Nat : Earlier(q, p) => ~Broken(q)
    BY <1>1, <2>3, <2>4, <2>5, PassedUnbroken
  <2>8. /\ p \in ReadBy(m) /\ Current(m) = ItemAt(p) /\ EventOffset(m) = EventAt(p)
    BY <1>1, <2>1, <2>2, <2>3, AheadAtItem DEF IInv, Shape
  <2>9. PICK d : d = EventChecks(m)
    OBVIOUS
  <2>10. ChecksAt(m, s) = d
    BY <1>4, <1>13, <2>2, <2>9 DEF ChecksAt, StopsHere
  <2>11. /\ DOMAIN d = 1..4 /\ d[2].kind = "Events" /\ d[3].kind = "NoteStarts" /\ d[4].kind = "TextBytes"
         /\ d[1].kind = "Malformed" /\ d[1].offset = EventAt(p) + ItemAt(p).text
    BY <1>5, <2>8, <2>9 DEF EventChecks
  <2>12. d[1].fails = (ItemAt(p).kind = "fault")
    BY <1>5, <2>8, <2>9 DEF EventChecks
  <2>13. PICK k \in 1..4 : /\ d[k].fails /\ FirstOf(d).offset = d[k].offset
                           /\ FirstOf(d).kind = d[k].kind
    BY <2>1, <2>10, <2>11, FirstIs
  <2>14. k = 1
    <3>1. k = 1 \/ k = 2 \/ k = 3 \/ k = 4
      OBVIOUS
    <3> QED BY <2>1, <2>10, <2>11, <2>13, <3>1 DEF LimitKinds
  <2>15. FirstBroken(p)
    <3>1. p \in Positions
      BY <2>8 DEF ReadBy
    <3> QED BY <2>6, <2>7, <2>12, <2>13, <2>14, <3>1 DEF FirstBroken, Broken
  <2>16. outcome[m] = BrokenRefusal(p)
    <3>1. FirstOf(d) = Refusal(d[k].kind, d[k].offset)
      BY <2>13 DEF FirstOf, Refusal
    <3> QED BY <2>1, <2>5, <2>6, <2>10, <2>11, <2>14, <3>1 DEF BrokenRefusal
  <2> QED BY <2>4, <2>15, <2>16 DEF PlainAnswer
<1> QED BY <1>10, <1>12, <1>13

(* A parser without limits exceeds none. *)
LEMMA TrustedExceedsNone ==
    ASSUME IInv, Answered("trusted")
    PROVE  outcome["trusted"].kind \notin LimitKinds
<1> SUFFICES ASSUME outcome["trusted"].kind \in LimitKinds
             PROVE  FALSE
  OBVIOUS
<1> DEFINE m == "trusted"
<1>1. m \in Modes
  BY ModesAre
<1>2. PICK s \in {"input", "chunk", "events"} :
         At(m, s) /\ AnsweredAt(m, s) /\ (Failing(ChecksAt(m, s)) = {} <=> outcome[m] = Ok)
  BY <1>1, AnswerKind DEF Answered, IInv
<1>3. Failing(ChecksAt(m, s)) # {} /\ outcome[m] = FirstOf(ChecksAt(m, s))
  BY <1>2 DEF AnsweredAt, Ok, LimitKinds
<1>4. PICK k \in Failing(ChecksAt(m, s)) : FirstOf(ChecksAt(m, s)).kind = ChecksAt(m, s)[k].kind
  BY <1>3, FirstOfChecks
<1>5. k \in DOMAIN ChecksAt(m, s) /\ ChecksAt(m, s)[k].fails /\ ChecksAt(m, s)[k].kind \in LimitKinds
  BY <1>3, <1>4 DEF Failing
<1>6. \A r, a : Exceeds(m, r, a) = FALSE
  BY DEF Exceeds
<1>7. \A b, j, x : Check(b, j, x).fails = b /\ Check(b, j, x).kind = j
  BY DEF Check
<1>8. ASSUME NEW j \in 1..6, HeaderChecks(m)[j].fails
      PROVE  HeaderChecks(m)[j].kind \notin LimitKinds
  <2>1. HeaderChecks(m)[1].fails = FALSE /\ HeaderChecks(m)[5].fails = FALSE
    BY <1>6, <1>7 DEF HeaderChecks
  <2>2. /\ HeaderChecks(m)[2].kind = "ExpectedChunk" /\ HeaderChecks(m)[3].kind = "HeaderTooShort"
        /\ HeaderChecks(m)[4].kind = "InvalidFormat" /\ HeaderChecks(m)[6].kind = "InvalidDivision"
    BY <1>7 DEF HeaderChecks
  <2>3. j = 1 \/ j = 2 \/ j = 3 \/ j = 4 \/ j = 5 \/ j = 6
    OBVIOUS
  <2> QED BY <1>8, <2>1, <2>2, <2>3 DEF LimitKinds
<1>9. ASSUME NEW j \in 1..4, ChunkChecks(m)[j].fails
      PROVE  ChunkChecks(m)[j].kind \notin LimitKinds
  <2>1. ChunkChecks(m)[3].fails = FALSE
    BY <1>6, <1>7 DEF ChunkChecks
  <2>2. /\ ChunkChecks(m)[1].kind = "UnexpectedEnd" /\ ChunkChecks(m)[2].kind = "ExpectedChunk"
        /\ ChunkChecks(m)[4].kind = "UnexpectedEnd"
    BY <1>7 DEF ChunkChecks
  <2>3. j = 1 \/ j = 2 \/ j = 3 \/ j = 4
    OBVIOUS
  <2> QED BY <1>9, <2>1, <2>2, <2>3 DEF LimitKinds
<1>10. ASSUME NEW j \in 1..4, EventChecks(m)[j].fails
       PROVE  EventChecks(m)[j].kind \notin LimitKinds
  <2>1. ~EventChecks(m)[2].fails /\ ~EventChecks(m)[3].fails /\ ~EventChecks(m)[4].fails
    <3>1. EventChecks(m)[2].fails = Exceeds(m, "events", events[m] + 1)
      BY <1>7 DEF EventChecks
    <3>2. EventChecks(m)[3].fails =
             (Current(m).kind = "note" /\ Exceeds(m, "noteStarts", noteStarts[m] + 1))
      BY <1>7 DEF EventChecks
    <3>3. EventChecks(m)[4].fails =
             (Current(m).kind = "text" /\ Exceeds(m, "textBytes", textBytes[m] + Current(m).text))
      BY <1>7 DEF EventChecks
    <3> QED BY <1>6, <3>1, <3>2, <3>3
  <2>2. EventChecks(m)[1].kind = "Malformed"
    BY <1>7 DEF EventChecks
  <2>3. j = 1 \/ j = 2 \/ j = 3 \/ j = 4
    OBVIOUS
  <2> QED BY <1>10, <2>1, <2>2, <2>3 DEF LimitKinds
<1>11. /\ DOMAIN HeaderChecks(m) = 1..6 /\ DOMAIN ChunkChecks(m) = 1..4 /\ DOMAIN EventChecks(m) = 1..4
       /\ DOMAIN CloseChecks(m) = 1..1 /\ DOMAIN FinishChecks(m) = 1..1
       /\ CloseChecks(m)[1].kind = "MissingEndOfTrack" /\ FinishChecks(m)[1].kind = "TrailingBytes"
  BY DEF HeaderChecks, ChunkChecks, EventChecks, CloseChecks, FinishChecks, Check
<1>12. ~StopsHere(m)
  BY <1>1, Grammars DEF StopsHere
<1>13. ChecksAt(m, s) \in {HeaderChecks(m), ChunkChecks(m), EventChecks(m), CloseChecks(m), FinishChecks(m)}
  BY <1>12 DEF ChecksAt
<1>14. "MissingEndOfTrack" \notin LimitKinds /\ "TrailingBytes" \notin LimitKinds
  BY DEF LimitKinds
<1>15. \A j \in 1..1 : j = 1
  OBVIOUS
<1> HIDE DEF m
<1> QED BY <1>5, <1>8, <1>9, <1>10, <1>11, <1>13, <1>14, <1>15

(* BoundedIsTrusted holds in every reachable state: limits never change a  *)
(* score or an error other than a limit error                              *)
(* (parse_score_smf_with_limits against parse_score_smf: the policy is     *)
(* the only difference between the two).                                   *)
THEOREM LimitsOnlyRefuse == Spec => []BoundedIsTrusted
<1>1. IInv => BoundedIsTrusted
  <2> SUFFICES ASSUME IInv, Answered("bounded")
               PROVE  /\ Accepted("bounded") => /\ Accepted("trusted")
                                                /\ applied["bounded"] = applied["trusted"]
                      /\ ~Accepted("bounded") /\ outcome["bounded"].kind \notin LimitKinds
                            => outcome["trusted"] = outcome["bounded"]
    BY DEF BoundedIsTrusted
  <2>1. /\ file \in Files /\ limits \in Limits /\ Answered("trusted")
        /\ "bounded" \in Modes /\ "trusted" \in Modes /\ "bounded" \in Legacy /\ "trusted" \in Legacy
    BY InTurnFacts, ModesAre DEF IInv, Shape, Legacy
  <2>2. ReadBy("trusted") = ReadBy("bounded")
    BY DEF ReadBy
  <2>3. ASSUME Accepted("bounded")
        PROVE  Accepted("trusted") /\ applied["bounded"] = applied["trusted"]
    <3>1. Faults("bounded") = {} /\ Charged("bounded", ReadBy("bounded"))
      BY <2>1, <2>3, AcceptedAll
    <3>2. Faults("trusted") \subseteq Faults("bounded")
      BY <2>1, <2>2, FaultsGrow
    <3>3. Accepted("trusted")
      BY <2>1, <3>1, <3>2, AnswerIs
    <3>4. Charged("trusted", ReadBy("bounded"))
      BY <2>1, <2>2, <3>3, AcceptedAll
    <3>5. applied["bounded"] = applied["trusted"]
      BY <2>1, <3>1, <3>4, HeardPlaces, ListsUnique DEF Charged
    <3> QED BY <3>3, <3>5
  <2>4. ASSUME outcome["bounded"].kind \notin LimitKinds
        PROVE  outcome["trusted"] = outcome["bounded"]
    <3>1. PlainAnswer(outcome["bounded"]) /\ PlainAnswer(outcome["trusted"])
      BY <2>1, <2>4, LegacyAnswer, TrustedExceedsNone
    <3> QED BY <3>1, PlainAnswerUnique
  <2> QED BY <2>3, <2>4
<1> QED BY <1>1, AlwaysIInv, PTL

================================================================================
