---------------------------- MODULE TextArenaProofs ----------------------------
(***************************************************************************)
(* For every encoding of characters in which none begins another, every    *)
(* payload and every limit: a text that is kept reads back its payload     *)
(* with malformed sequences replaced, and the text budget is exact.        *)
(*                                                                         *)
(* The argument follows push_text through a payload.  At any moment what   *)
(* has been appended for it, followed by what the rest of it becomes, is   *)
(* the normalized payload (Completes).  The three steps keep that equation:*)
(* a run that can be cut into characters is what it becomes                *)
(* (WholeIsNormal), and behind the longest such run is no character        *)
(* (NoCharBehindValid), so that the replacement is what comes next.        *)
(***************************************************************************)
EXTENDS TextArena, OrderingProofs

(* What a text is made of. *)
Out == Bytes \cup {239, 191, 189}

--------------------------------------------------------------------------------
(* Pieces of sequences. *)

(* A piece, from a to b, which may be empty.                               *)
LEMMA Slice ==
    ASSUME NEW S, NEW s \in Seq(S), NEW a \in 1..(Len(s) + 1), NEW b \in (a - 1)..Len(s)
    PROVE  /\ SubSeq(s, a, b) \in Seq(S) /\ Len(SubSeq(s, a, b)) = b - a + 1
           /\ \A i \in 1..(b - a + 1) : SubSeq(s, a, b)[i] = s[a + i - 1]
<1>1. Len(s) \in Nat
  BY LenProperties
<1>2. a \in Int /\ b \in Int /\ a - 1 <= b /\ b <= Len(s) /\ 1 <= a
  BY <1>1
<1>3. \A i \in a..b : s[i] \in S
  <2>1. \A i \in a..b : i \in 1..Len(s)
    BY <1>1, <1>2
  <2> QED BY <2>1, ElementOfSeq
<1>4. /\ SubSeq(s, a, b) \in Seq(S) /\ Len(SubSeq(s, a, b)) = IF a <= b THEN b - a + 1 ELSE 0
      /\ \A i \in 1..(b - a + 1) : SubSeq(s, a, b)[i] = s[a + i - 1]
  BY <1>2, <1>3, SubSeqProperties
<1> QED BY <1>2, <1>4

(* A piece of the rest of a sequence is a piece of the sequence.           *)
LEMMA SliceOfRest ==
    ASSUME NEW S, NEW s \in Seq(S), NEW p \in 1..(Len(s) + 1),
           NEW a \in 1..(Len(s) - p + 2), NEW b \in (a - 1)..(Len(s) - p + 1)
    PROVE  SubSeq(SubSeq(s, p, Len(s)), a, b) = SubSeq(s, p + a - 1, p + b - 1)
<1>1. Len(s) \in Nat
  BY LenProperties
<1> DEFINE r == SubSeq(s, p, Len(s))
           u == SubSeq(r, a, b)
           w == SubSeq(s, p + a - 1, p + b - 1)
<1>2. Len(s) \in (p - 1)..Len(s)
  BY <1>1
<1>3. /\ r \in Seq(S) /\ Len(r) = Len(s) - p + 1
      /\ \A i \in 1..(Len(s) - p + 1) : r[i] = s[p + i - 1]
  BY <1>2, Slice
<1> HIDE DEF r
<1>4. a \in 1..(Len(r) + 1) /\ b \in (a - 1)..Len(r)
  BY <1>1, <1>3
<1>5. /\ u \in Seq(S) /\ Len(u) = b - a + 1
      /\ \A i \in 1..(b - a + 1) : u[i] = r[a + i - 1]
  BY <1>3, <1>4, Slice
<1>6. p + a - 1 \in 1..(Len(s) + 1) /\ p + b - 1 \in ((p + a - 1) - 1)..Len(s)
  BY <1>1
<1>7. /\ w \in Seq(S) /\ Len(w) = (p + b - 1) - (p + a - 1) + 1
      /\ \A i \in 1..((p + b - 1) - (p + a - 1) + 1) : w[i] = s[(p + a - 1) + i - 1]
  BY <1>6, Slice
<1> HIDE DEF u, w
<1>8. Len(u) = Len(w) /\ Len(u) = b - a + 1
  BY <1>1, <1>5, <1>7
<1>9. ASSUME NEW i \in 1..Len(u) PROVE u[i] = w[i]
  <2>1. i \in 1..(b - a + 1) /\ a + i - 1 \in 1..(Len(s) - p + 1)
        /\ p + (a + i - 1) - 1 = (p + a - 1) + i - 1
        /\ i \in 1..((p + b - 1) - (p + a - 1) + 1)
    BY <1>1, <1>8
  <2>2. u[i] = r[a + i - 1]
    BY <1>5, <2>1
  <2>3. r[a + i - 1] = s[p + (a + i - 1) - 1]
    BY <1>3, <2>1
  <2>4. w[i] = s[(p + a - 1) + i - 1]
    BY <1>7, <2>1
  <2> QED BY <2>1, <2>2, <2>3, <2>4
<1>10. u = w
  BY <1>5, <1>7, <1>8, <1>9, SeqEqual
<1> QED BY <1>10 DEF u, w, r

(* Appending changes no piece that was there.                              *)
LEMMA SliceOfAppended ==
    ASSUME NEW S, NEW s \in Seq(S), NEW x \in Seq(S),
           NEW a \in 1..(Len(s) + 1), NEW b \in (a - 1)..Len(s)
    PROVE  SubSeq(s \o x, a, b) = SubSeq(s, a, b)
<1> DEFINE t == s \o x
<1>1. Len(s) \in Nat /\ Len(x) \in Nat
  BY LenProperties
<1>2. /\ t \in Seq(S) /\ Len(t) = Len(s) + Len(x)
      /\ \A i \in 1..(Len(s) + Len(x)) : t[i] = IF i <= Len(s) THEN s[i] ELSE x[i - Len(s)]
  BY ConcatProperties
<1> HIDE DEF t
<1>3. SubSeq(t, a, b) = SubSeq(s, a, b)
  <2> DEFINE u == SubSeq(t, a, b)
             w == SubSeq(s, a, b)
  <2>1. a \in 1..(Len(t) + 1) /\ b \in (a - 1)..Len(t)
    BY <1>1, <1>2
  <2>2. u \in Seq(S) /\ Len(u) = b - a + 1 /\ \A i \in 1..(b - a + 1) : u[i] = t[a + i - 1]
    BY <1>2, <2>1, Slice
  <2>3. w \in Seq(S) /\ Len(w) = b - a + 1 /\ \A i \in 1..(b - a + 1) : w[i] = s[a + i - 1]
    BY Slice
  <2> HIDE DEF u, w
  <2>4. ASSUME NEW i \in 1..Len(u) PROVE u[i] = w[i]
    <3>1. i \in 1..(b - a + 1) /\ a + i - 1 \in 1..(Len(s) + Len(x)) /\ a + i - 1 <= Len(s)
      BY <1>1, <2>2
    <3> QED BY <1>2, <2>2, <2>3, <3>1
  <2>5. u = w
    BY <2>2, <2>3, <2>4, SeqEqual
  <2> QED BY <2>5 DEF u, w
<1> QED BY <1>3 DEF t

(* A piece that reached the end is longer by what was appended.            *)
LEMMA RestOfAppended ==
    ASSUME NEW S, NEW s \in Seq(S), NEW x \in Seq(S), NEW a \in 1..(Len(s) + 1)
    PROVE  /\ s \o x \in Seq(S) /\ Len(s \o x) = Len(s) + Len(x)
           /\ SubSeq(s \o x, a, Len(s \o x)) = SubSeq(s, a, Len(s)) \o x
<1> DEFINE t == s \o x
<1>1. Len(s) \in Nat /\ Len(x) \in Nat
  BY LenProperties
<1>2. /\ t \in Seq(S) /\ Len(t) = Len(s) + Len(x)
      /\ \A i \in 1..(Len(s) + Len(x)) : t[i] = IF i <= Len(s) THEN s[i] ELSE x[i - Len(s)]
  BY ConcatProperties
<1> HIDE DEF t
<1>4. SubSeq(t, a, Len(t)) = SubSeq(s, a, Len(s)) \o x
  <2> DEFINE u == SubSeq(t, a, Len(t))
             v == SubSeq(s, a, Len(s))
             w == v \o x
             m == Len(s) - a + 1
  <2>1. a \in 1..(Len(t) + 1) /\ Len(t) \in (a - 1)..Len(t) /\ Len(s) \in (a - 1)..Len(s) /\ m \in Nat
    BY <1>1, <1>2
  <2>2. /\ u \in Seq(S) /\ Len(u) = Len(t) - a + 1
        /\ \A i \in 1..(Len(t) - a + 1) : u[i] = t[a + i - 1]
    BY <1>2, <2>1, Slice
  <2>3. v \in Seq(S) /\ Len(v) = m /\ \A i \in 1..m : v[i] = s[a + i - 1]
    BY <2>1, Slice
  <2> HIDE DEF u, v
  <2>4. /\ w \in Seq(S) /\ Len(w) = m + Len(x)
        /\ \A i \in 1..(m + Len(x)) : w[i] = IF i <= m THEN v[i] ELSE x[i - m]
    <3>1. /\ v \o x \in Seq(S) /\ Len(v \o x) = Len(v) + Len(x)
          /\ \A i \in 1..(Len(v) + Len(x)) : (v \o x)[i] = IF i <= Len(v) THEN v[i] ELSE x[i - Len(v)]
      BY <2>3, ConcatProperties
    <3> QED BY <2>3, <3>1
  <2> HIDE DEF w
  <2>5. Len(u) = Len(w) /\ Len(u) = m + Len(x)
    BY <1>1, <1>2, <2>2, <2>4
  <2>6. ASSUME NEW i \in 1..Len(u) PROVE u[i] = w[i]
    <3>1. i \in 1..(m + Len(x)) /\ i \in 1..(Len(t) - a + 1) /\ a + i - 1 \in 1..(Len(s) + Len(x))
      BY <1>1, <1>2, <2>2, <2>5
    <3>2. CASE i <= m
      <4>1. i \in 1..m /\ a + i - 1 <= Len(s)
        BY <1>1, <3>1, <3>2
      <4> QED BY <1>2, <2>2, <2>3, <2>4, <3>1, <3>2, <4>1
    <3>3. CASE ~(i <= m)
      <4>1. ~(a + i - 1 <= Len(s)) /\ (a + i - 1) - Len(s) = i - m
        BY <1>1, <3>1, <3>3
      <4> QED BY <1>2, <2>2, <2>4, <3>1, <3>3, <4>1
    <3> QED BY <3>2, <3>3
  <2>7. u = w
    BY <2>2, <2>4, <2>5, <2>6, SeqEqual
  <2> QED BY <2>7 DEF u, v, w
<1> QED BY <1>2, <1>4 DEF t

(* A set of numbers with a bound has a greatest one.                       *)
LEMMA GreatestNumber ==
    ASSUME NEW n \in Nat, NEW S, S \subseteq 0..n, S # {}
    PROVE  Max(S) \in S /\ \A x \in S : x <= Max(S)
<1> DEFINE T == {n - x : x \in S}
<1>1. \A x \in S : x \in 0..n
  OBVIOUS
<1>2. T \subseteq Nat /\ T # {}
  <2>1. \A x \in S : n - x \in Nat
    BY <1>1
  <2>2. T \subseteq Nat
    BY <2>1
  <2>3. PICK x \in S : TRUE
    OBVIOUS
  <2>4. n - x \in T
    BY <2>3
  <2> QED BY <2>2, <2>4
<1>3. PICK m \in T : \A k \in T : m <= k
  BY <1>2, LeastNumber
<1>4. PICK x \in S : m = n - x
  BY <1>3
<1>5. ASSUME NEW y \in S PROVE x >= y
  <2>1. n - y \in T
    OBVIOUS
  <2>2. n - x <= n - y /\ x \in 0..n /\ y \in 0..n
    BY <1>3, <1>4, <2>1
  <2> QED BY <2>2
<1>6. Max(S) \in S /\ \A y \in S : Max(S) >= y
  BY <1>5 DEF Max
<1>7. \A y \in S : y \in 0..n
  OBVIOUS
<1> QED BY <1>6, <1>7

(* Texts put together in either order.                                     *)
LEMMA Regroup ==
    \A x, y, z \in Seq(Out) : (x \o y) \o z = x \o (y \o z)
BY ConcatAssociative, SMTT(60)

--------------------------------------------------------------------------------
(* Characters and what a text becomes. *)

(* A character has bytes.                                                  *)
LEMMA CharFacts ==
    ASSUME NEW c \in Chars
    PROVE  c \in Seq(Bytes) /\ c \in Seq(Out) /\ Len(c) \in Nat /\ Len(c) >= 1
<1>1. c \in Seq(Bytes) /\ c # <<>>
  BY CharsAssumption
<1>2. c \in Seq(Out)
  BY <1>1, SeqMonotonic DEF Out
<1> QED BY <1>1, <1>2, EmptySeq, LenProperties

(* The character at p is the piece there that is one, and is unique.       *)
LEMMA CharsAtFacts ==
    ASSUME NEW s \in Seq(Bytes), NEW p \in 1..Len(s)
    PROVE  /\ \A c \in CharsAt(s, p) :
                 /\ c \in Chars /\ Len(c) \in 1..(Len(s) - p + 1)
                 /\ SubSeq(s, p, p + Len(c) - 1) = c
           /\ \A c \in Chars : Len(c) <= Len(s) - p + 1 /\ SubSeq(s, p, p + Len(c) - 1) = c
                                => c \in CharsAt(s, p)
           /\ \A c, d \in CharsAt(s, p) : c = d
<1> DEFINE r == SubSeq(s, p, Len(s))
<1>1. Len(s) \in Nat /\ p \in 1..(Len(s) + 1) /\ Len(s) \in (p - 1)..Len(s)
  BY LenProperties
<1>2. r \in Seq(Bytes) /\ Len(r) = Len(s) - p + 1
  BY <1>1, Slice
<1>3. ASSUME NEW c \in Chars, Len(c) <= Len(r)
      PROVE  SubSeq(r, 1, Len(c)) = SubSeq(s, p, p + Len(c) - 1)
  <2>1. Len(c) \in Nat /\ Len(c) >= 1
    BY CharFacts
  <2>2. 1 \in 1..(Len(s) - p + 2) /\ Len(c) \in (1 - 1)..(Len(s) - p + 1) /\ p + 1 - 1 = p
    BY <1>1, <1>2, <1>3, <2>1
  <2> QED BY <1>1, <2>2, SliceOfRest
<1>4. ASSUME NEW c \in Chars
      PROVE  c \in CharsAt(s, p) <=> Len(c) <= Len(r) /\ SubSeq(r, 1, Len(c)) = c
  BY DEF CharsAt, Begins
<1>5. \A c \in CharsAt(s, p) : c \in Chars
  BY DEF CharsAt
<1> HIDE DEF r
<1>6. \A c \in CharsAt(s, p) : Len(c) \in 1..(Len(s) - p + 1) /\ SubSeq(s, p, p + Len(c) - 1) = c
  BY <1>1, <1>2, <1>3, <1>4, <1>5, CharFacts
<1>7. \A c \in Chars : Len(c) <= Len(s) - p + 1 /\ SubSeq(s, p, p + Len(c) - 1) = c => c \in CharsAt(s, p)
  BY <1>2, <1>3, <1>4
<1>8. ASSUME NEW c \in CharsAt(s, p), NEW d \in CharsAt(s, p), Len(c) <= Len(d)
      PROVE  c = d
  <2>1. /\ c \in Chars /\ d \in Chars /\ Len(c) \in 1..Len(d) /\ Len(d) \in 1..Len(r)
        /\ SubSeq(r, 1, Len(c)) = c /\ SubSeq(r, 1, Len(d)) = d
    BY <1>1, <1>2, <1>4, <1>5, <1>6, <1>8
  <2>2. /\ Len(d) \in Nat /\ Len(r) \in Nat
        /\ 1 \in 1..Len(r) /\ 1 \in 1..(Len(d) - 1 + 1) /\ Len(c) \in 1..(Len(d) - 1 + 1)
        /\ 1 + 1 - 1 = 1 /\ 1 + Len(c) - 1 = Len(c)
    BY <2>1
  <2>3. SubSeq(SubSeq(r, 1, Len(d)), 1, Len(c)) = SubSeq(r, 1 + 1 - 1, 1 + Len(c) - 1)
    BY <1>2, <2>1, <2>2, SubSeqOfSubSeq
  <2>4. SubSeq(d, 1, Len(c)) = c /\ Len(c) <= Len(d)
    BY <2>1, <2>2, <2>3
  <2>5. Begins(c, d)
    BY <2>4 DEF Begins
  <2> QED BY <2>1, <2>5, CharsAssumption
<1>9. ASSUME NEW c \in CharsAt(s, p), NEW d \in CharsAt(s, p)
      PROVE  c = d
  <2>1. Len(c) \in Int /\ Len(d) \in Int
    BY <1>1, <1>6
  <2>2. Len(c) <= Len(d) \/ Len(d) <= Len(c)
    BY <2>1
  <2> QED BY <1>8, <2>2
<1> QED BY <1>5, <1>6, <1>7, <1>9

(* A malformed sequence is at least a byte, and no longer than the text.   *)
LEMMA BrokenFacts ==
    ASSUME NEW s \in Seq(Bytes), NEW p \in 1..Len(s)
    PROVE  BrokenLen(s, p) \in 1..(Len(s) - p + 1)
<1> DEFINE N == Len(s) - p + 1
           begun == {n \in 1..N : IsBeginning(SubSeq(s, p, p + n - 1))} \cup {1}
<1>1. N \in Nat /\ 1 <= N
  BY LenProperties
<1>2. begun \subseteq 0..N /\ begun \subseteq 1..N /\ begun # {}
  <2> HIDE DEF N
  <2> QED BY <1>1
<1>3. BrokenLen(s, p) = Max(begun)
  BY DEF BrokenLen
<1> HIDE DEF begun, N
<1>4. Max(begun) \in begun
  BY <1>1, <1>2, GreatestNumber
<1> QED BY <1>2, <1>3, <1>4 DEF N

(* A piece is text, and takes a byte at least of what is there.            *)
LEMMA PieceFacts ==
    ASSUME NEW s \in Seq(Bytes), NEW p \in 1..Len(s)
    PROVE  Piece(s, p) \in Seq(Out) /\ p + Taken(s, p) \in (p + 1)..(Len(s) + 1)
<1>1. Len(s) \in Nat
  BY LenProperties
<1>2. CASE CharsAt(s, p) = {}
  <2>1. Replacement \in Seq(Out)
    BY DEF Replacement, Out
  <2>2. BrokenLen(s, p) \in 1..(Len(s) - p + 1)
    BY BrokenFacts
  <2>3. Piece(s, p) = Replacement /\ Taken(s, p) = BrokenLen(s, p)
    BY <1>2 DEF Piece, Taken
  <2> QED BY <1>1, <2>1, <2>2, <2>3
<1>3. CASE CharsAt(s, p) # {}
  <2>1. Piece(s, p) \in CharsAt(s, p)
    BY <1>3 DEF Piece
  <2>2. Piece(s, p) \in Chars /\ Len(Piece(s, p)) \in 1..(Len(s) - p + 1)
    BY <2>1, CharsAtFacts
  <2>3. Taken(s, p) = Len(Piece(s, p))
    BY <1>3 DEF Taken
  <2> QED BY <1>1, <2>2, <2>3, CharFacts
<1> QED BY <1>2, <1>3

(* Texts put together of pieces: the piece at p, and what follows it.      *)
Assembled(S, L, piece, next) ==
    {f \in [1..(L + 1) -> Seq(S)] :
        f[L + 1] = <<>> /\ \A p \in 1..L : f[p] = piece[p] \o f[next[p]]}

(* When every piece takes a byte at least there is such a text for every   *)
(* place, built from the end.                                              *)
LEMMA PiecesExist ==
    ASSUME NEW S, NEW L \in Nat, NEW piece, NEW next,
           \A p \in 1..L : piece[p] \in Seq(S) /\ next[p] \in (p + 1)..(L + 1)
    PROVE  Assembled(S, L, piece, next) # {}
<1> DEFINE From(k) == {f \in [(L + 1 - k)..(L + 1) -> Seq(S)] :
                          /\ f[L + 1] = <<>>
                          /\ \A p \in (L + 1 - k)..L : f[p] = piece[p] \o f[next[p]]}
           T == {k \in Nat : k <= L => From(k) # {}}
<1>1. 0 \in T
  <2>1. PICK f : f = [p \in (L + 1 - 0)..(L + 1) |-> <<>>]
    OBVIOUS
  <2>2. L + 1 - 0 = L + 1 /\ <<>> \in Seq(S) /\ ~\E p \in (L + 1 - 0)..L : TRUE
    BY EmptySeq
  <2>3. f \in [(L + 1 - 0)..(L + 1) -> Seq(S)] /\ f[L + 1] = <<>>
    BY <2>1, <2>2
  <2>4. f \in From(0)
    BY <2>2, <2>3
  <2> HIDE DEF From
  <2> QED BY <2>4
<1>2. ASSUME NEW k \in Nat, k \in T PROVE k + 1 \in T
  <2> HIDE DEF From
  <2> SUFFICES ASSUME k + 1 <= L PROVE From(k + 1) # {}
    OBVIOUS
  <2>0. k <= L
    OBVIOUS
  <2>1. PICK f \in From(k) : TRUE
    BY <1>2, <2>0
  <2>2. /\ f \in [(L + 1 - k)..(L + 1) -> Seq(S)] /\ f[L + 1] = <<>>
        /\ \A p \in (L + 1 - k)..L : f[p] = piece[p] \o f[next[p]]
    BY <2>1 DEF From
  <2> DEFINE q == L - k
  <2>3. q \in 1..L /\ q + 1 = L + 1 - k /\ q = L + 1 - (k + 1)
    OBVIOUS
  <2>4. next[q] \in (L + 1 - k)..(L + 1) /\ piece[q] \in Seq(S)
    BY <2>3
  <2>5. PICK x \in Seq(S) : x = piece[q] \o f[next[q]]
    <3>1. f[next[q]] \in Seq(S)
      BY <2>2, <2>4
    <3> QED BY <2>4, <3>1, ConcatProperties
  <2> HIDE DEF q
  <2>6. PICK g : g = [p \in q..(L + 1) |-> IF p = q THEN x ELSE f[p]]
    OBVIOUS
  <2>7. \A p \in q..(L + 1) : p = q \/ p \in (L + 1 - k)..(L + 1)
    BY <2>3
  <2>8. g \in [q..(L + 1) -> Seq(S)]
    BY <2>2, <2>5, <2>6, <2>7
  <2>9. \A p \in (L + 1 - k)..(L + 1) : g[p] = f[p]
    BY <2>3, <2>6
  <2>10. g[L + 1] = <<>> /\ g[q] = x
    BY <2>2, <2>3, <2>6, <2>9
  <2>11. ASSUME NEW p \in q..L PROVE g[p] = piece[p] \o g[next[p]]
    <3>1. CASE p = q
      BY <2>4, <2>5, <2>9, <2>10, <3>1
    <3>2. CASE p # q
      <4>1. p \in (L + 1 - k)..L /\ p \in 1..L
        BY <2>3, <3>2
      <4>2. p \in (L + 1 - k)..(L + 1) /\ next[p] \in (L + 1 - k)..(L + 1)
        BY <2>3, <4>1
      <4> QED BY <2>2, <2>9, <4>1, <4>2
    <3> QED BY <3>1, <3>2
  <2>12. g \in From(k + 1)
    BY <2>3, <2>8, <2>10, <2>11 DEF From
  <2> QED BY <2>12
<1>3. L \in T
  <2> HIDE DEF T
  <2> QED BY <1>1, <1>2, SetInduction
<1>4. L + 1 - L = 1
  OBVIOUS
<1>5. PICK f \in From(L) : TRUE
  <2> HIDE DEF From
  <2> QED BY <1>3
<1>6. f \in Assembled(S, L, piece, next)
  BY <1>4, <1>5 DEF Assembled
<1> QED BY <1>6

(* What the bytes from p on become: the piece there, and then the rest.    *)
LEMMA NormalUnrolls ==
    ASSUME NEW s \in Seq(Bytes)
    PROVE  /\ NormalFrom(s)[Len(s) + 1] = <<>>
           /\ \A p \in 1..Len(s) :
                 NormalFrom(s)[p] = Piece(s, p) \o NormalFrom(s)[p + Taken(s, p)]
           /\ \A p \in 1..(Len(s) + 1) : NormalFrom(s)[p] \in Seq(Out)
<1> DEFINE L == Len(s)
           Body(f) == [p \in 1..(Len(s) + 1) |->
                         IF p > Len(s) THEN <<>> ELSE Piece(s, p) \o f[p + Taken(s, p)]]
           F == CHOOSE f : f = Body(f)
<1>1. L \in Nat
  BY LenProperties
<1>2. PICK piece : piece = [p \in 1..L |-> Piece(s, p)]
  OBVIOUS
<1>3. PICK next : next = [p \in 1..L |-> p + Taken(s, p)]
  OBVIOUS
<1>4. \A p \in 1..L : piece[p] \in Seq(Out) /\ next[p] \in (p + 1)..(L + 1)
  BY <1>2, <1>3, PieceFacts
<1>5. PICK f : /\ f \in [1..(L + 1) -> Seq(Out)] /\ f[L + 1] = <<>>
               /\ \A p \in 1..L : f[p] = piece[p] \o f[next[p]]
  <2>1. Assembled(Out, L, piece, next) # {}
    BY <1>1, <1>4, PiecesExist
  <2> QED BY <2>1 DEF Assembled
<1>6. f = Body(f)
  <2>1. ASSUME NEW p \in 1..(Len(s) + 1)
        PROVE  f[p] = IF p > Len(s) THEN <<>> ELSE Piece(s, p) \o f[p + Taken(s, p)]
    <3>1. CASE p > Len(s)
      <4>1. p = L + 1
        BY <1>1, <3>1
      <4> QED BY <1>5, <3>1, <4>1
    <3>2. CASE ~(p > Len(s))
      <4>1. p \in 1..L
        BY <1>1, <3>2
      <4> QED BY <1>2, <1>3, <1>5, <3>2, <4>1
    <3> QED BY <3>1, <3>2
  <2> QED BY <1>5, <2>1
<1>7. F = Body(F)
  <2> HIDE DEF Body
  <2> QED BY <1>6
<1>8. NormalFrom(s) = F
  BY DEF NormalFrom
<1>9. F[L + 1] = <<>> /\ \A p \in 1..L : F[p] = Piece(s, p) \o F[p + Taken(s, p)]
  <2> HIDE DEF F
  <2>1. \A p \in 1..(Len(s) + 1) : F[p] = IF p > Len(s) THEN <<>> ELSE Piece(s, p) \o F[p + Taken(s, p)]
    BY <1>7
  <2>2. /\ Len(s) + 1 \in 1..(Len(s) + 1) /\ Len(s) + 1 > Len(s)
        /\ \A p \in 1..Len(s) : p \in 1..(Len(s) + 1) /\ ~(p > Len(s))
    BY <1>1
  <2> QED BY <2>1, <2>2
<1> HIDE DEF F
<1>10. \A p \in 1..(L + 1) : F[p] \in Seq(Out)
  <2> DEFINE T == {k \in Nat : \A p \in 1..(L + 1) : p >= L + 1 - k => F[p] \in Seq(Out)}
  <2>1. 0 \in T
    <3>1. \A p \in 1..(L + 1) : p >= L + 1 - 0 => p = L + 1
      BY <1>1
    <3> QED BY <1>9, <3>1, EmptySeq
  <2>2. ASSUME NEW k \in Nat, k \in T PROVE k + 1 \in T
    <3> SUFFICES ASSUME NEW p \in 1..(L + 1), p >= L + 1 - (k + 1)
                 PROVE  F[p] \in Seq(Out)
      OBVIOUS
    <3>1. CASE p = L + 1
      BY <1>9, <3>1, EmptySeq
    <3>2. CASE p # L + 1
      <4>1. p \in 1..L
        BY <1>1, <3>2
      <4>2. Piece(s, p) \in Seq(Out) /\ p + Taken(s, p) \in (p + 1)..(L + 1)
        BY <4>1, PieceFacts
      <4>3. p + Taken(s, p) \in 1..(L + 1) /\ p + Taken(s, p) >= L + 1 - k
        BY <1>1, <4>1, <4>2
      <4>4. F[p + Taken(s, p)] \in Seq(Out)
        BY <2>2, <4>3
      <4>5. F[p] = Piece(s, p) \o F[p + Taken(s, p)]
        BY <1>9, <4>1
      <4> QED BY <4>2, <4>4, <4>5, ConcatProperties
    <3> QED BY <3>1, <3>2
  <2>3. Nat \subseteq T
    <3> HIDE DEF T
    <3> QED BY <2>1, <2>2, SetInduction
  <2> QED BY <1>1, <2>3
<1> QED BY <1>8, <1>9, <1>10

(* A run of whole characters becomes itself.                               *)
LEMMA WholeIsNormal ==
    ASSUME NEW s \in Seq(Bytes), NEW p \in 1..(Len(s) + 1), NEW n \in 0..(Len(s) - p + 1),
           IsWhole(SubSeq(s, p, Len(s)), n)
    PROVE  NormalFrom(s)[p] = SubSeq(s, p, p + n - 1) \o NormalFrom(s)[p + n]
<1> DEFINE r == SubSeq(s, p, Len(s))
           F == NormalFrom(s)
<1>1. Len(s) \in Nat
  BY LenProperties
<1>2. PICK cuts \in SUBSET (0..n) :
        /\ 0 \in cuts
        /\ \A a \in cuts \ {n} :
               \E c \in Chars : a + Len(c) \in cuts /\ SubSeq(r, a + 1, a + Len(c)) = c
  BY DEF IsWhole
<1>3. \A a \in cuts : a \in 0..n
  BY <1>2
<1>4. s \in Seq(Out) /\ p + n \in 1..(Len(s) + 1) /\ F[p + n] \in Seq(Out)
  BY <1>1, SeqMonotonic, NormalUnrolls DEF Out
<1> DEFINE Good(a) == F[p + a] = SubSeq(s, p + a, p + n - 1) \o F[p + n]
           T == {k \in Nat : \A a \in cuts : n - a <= k => Good(a)}
<1> HIDE DEF r, F
<1>5. ASSUME NEW a \in cuts, a = n PROVE Good(a)
  <2>1. SubSeq(s, p + n, p + n - 1) = <<>>
    BY <1>1, <1>4, SubSeqEmpty
  <2> QED BY <1>4, <1>5, <2>1, ConcatEmptySeq
<1>6. 0 \in T
  <2>1. \A a \in cuts : n - a <= 0 => a = n
    BY <1>3
  <2> HIDE DEF Good
  <2> QED BY <1>5, <2>1
<1>7. ASSUME NEW k \in Nat, k \in T PROVE k + 1 \in T
  <2> HIDE DEF Good
  <2> SUFFICES ASSUME NEW a \in cuts, n - a <= k + 1, a # n PROVE Good(a)
    BY <1>5
  <2>1. PICK c \in Chars : a + Len(c) \in cuts /\ SubSeq(r, a + 1, a + Len(c)) = c
    BY <1>2
  <2> DEFINE q == p + a
             b == a + Len(c)
  <2>2. Len(c) \in Nat /\ Len(c) >= 1 /\ c \in Seq(Out)
    BY CharFacts
  <2>3. a \in 0..n /\ b \in 0..n /\ b - a = Len(c) /\ a < n
    BY <1>3, <2>1, <2>2
  <2>4. q \in 1..Len(s) /\ p + b \in 1..(Len(s) + 1) /\ n - b <= k
    BY <1>1, <2>2, <2>3
  <2>5. SubSeq(s, q, p + b - 1) = c
    <3>1. a + 1 \in 1..(Len(s) - p + 2) /\ b \in ((a + 1) - 1)..(Len(s) - p + 1) /\ p + (a + 1) - 1 = q
      BY <1>1, <2>2, <2>3
    <3>2. SubSeq(r, a + 1, b) = SubSeq(s, p + (a + 1) - 1, p + b - 1)
      BY <3>1, SliceOfRest DEF r
    <3> QED BY <2>1, <3>1, <3>2
  <2>6. c \in CharsAt(s, q)
    <3>1. q + Len(c) - 1 = p + b - 1 /\ Len(c) <= Len(s) - q + 1
      BY <1>1, <2>2, <2>3
    <3> QED BY <2>4, <2>5, <3>1, CharsAtFacts
  <2>7. Piece(s, q) = c /\ q + Taken(s, q) = p + b
    <3>1. Piece(s, q) \in CharsAt(s, q) /\ Taken(s, q) = Len(Piece(s, q))
      BY <2>6 DEF Piece, Taken
    <3>2. Piece(s, q) = c
      BY <2>4, <2>6, <3>1, CharsAtFacts
    <3>3. q + Len(c) = p + b
      BY <1>1, <2>2, <2>3
    <3> QED BY <3>1, <3>2, <3>3
  <2>8. F[q] = c \o F[p + b]
    BY <2>4, <2>7, NormalUnrolls DEF F
  <2>9. F[p + b] = SubSeq(s, p + b, p + n - 1) \o F[p + n]
    BY <1>7, <2>1, <2>4 DEF Good
  <2>10. /\ SubSeq(s, p + b, p + n - 1) \in Seq(Out)
         /\ SubSeq(s, q, p + b - 1) \o SubSeq(s, p + b, p + n - 1) = SubSeq(s, q, p + n - 1)
    <3>1. /\ p + b \in 1..(Len(s) + 1) /\ p + n - 1 \in ((p + b) - 1)..Len(s)
          /\ q \in 1..(Len(s) + 1) /\ p + b - 1 \in (q - 1)..Len(s)
          /\ p + n - 1 \in (p + b - 1)..Len(s) /\ (p + b - 1) + 1 = p + b
      BY <1>1, <2>2, <2>3, <2>4
    <3> QED BY <1>4, <3>1, Slice, ConcatAdjacentSubSeq
  <2> HIDE DEF q, b
  <2>11. c \o (SubSeq(s, p + b, p + n - 1) \o F[p + n]) = (c \o SubSeq(s, p + b, p + n - 1)) \o F[p + n]
    BY <1>4, <2>2, <2>10, Regroup
  <2>12. F[q] = SubSeq(s, q, p + n - 1) \o F[p + n]
    BY <2>5, <2>8, <2>9, <2>10, <2>11
  <2> QED BY <2>12 DEF q, Good
<1>8. n \in T
  <2> HIDE DEF T
  <2> QED BY <1>6, <1>7, SetInduction
<1>9. n - 0 <= n /\ p + 0 = p
  OBVIOUS
<1>10. F[p + 0] = SubSeq(s, p + 0, p + n - 1) \o F[p + n]
  BY <1>2, <1>8, <1>9
<1> QED BY <1>9, <1>10 DEF F

(* The valid prefix of the rest of a text is whole characters, as many as  *)
(* there are: behind it is none.                                           *)
LEMMA NoCharBehindValid ==
    ASSUME NEW s \in Seq(Bytes), NEW p \in 1..(Len(s) + 1), NEW v,
           v = ValidUpTo(SubSeq(s, p, Len(s)))
    PROVE  /\ v \in 0..(Len(s) - p + 1) /\ IsWhole(SubSeq(s, p, Len(s)), v)
           /\ v < Len(s) - p + 1 => CharsAt(s, p + v) = {}
<1> DEFINE r == SubSeq(s, p, Len(s))
           m == Len(s) - p + 1
           V == {n \in 0..Len(r) : IsWhole(r, n)}
<1>1. Len(s) \in Nat /\ Len(s) \in (p - 1)..Len(s) /\ m \in Nat
  BY LenProperties
<1>2. r \in Seq(Bytes) /\ Len(r) = m
  BY <1>1, Slice
<1>3. v = Max(V)
  BY DEF ValidUpTo
<1> HIDE DEF r, m
<1>4. IsWhole(r, 0)
  <2>1. {0} \in SUBSET (0..0) /\ 0 \in {0} /\ \A a \in {0} \ {0} : FALSE
    OBVIOUS
  <2> QED BY <2>1 DEF IsWhole
<1>5. V \subseteq 0..m /\ 0 \in V
  BY <1>1, <1>2, <1>4
<1>6. v \in V /\ \A n \in V : n <= v
  <2> HIDE DEF V
  <2> QED BY <1>1, <1>3, <1>5, GreatestNumber
<1>7. v \in 0..m /\ IsWhole(r, v)
  BY <1>2, <1>6
<1>8. ASSUME v < m, NEW c \in CharsAt(s, p + v)
      PROVE  FALSE
  <2>0. PICK w : w = v + Len(c)
    OBVIOUS
  <2>1. p + v \in 1..Len(s) /\ Len(s) - (p + v) + 1 = m - v
    BY <1>1, <1>7, <1>8 DEF m
  <2>2. c \in Chars /\ Len(c) \in 1..(m - v) /\ SubSeq(s, p + v, (p + v) + Len(c) - 1) = c
    BY <2>1, CharsAtFacts
  <2>3. w \in 0..m /\ w > v /\ Len(c) \in Nat
    <3>1. v \in Nat /\ v <= m /\ Len(c) \in Nat /\ 1 <= Len(c) /\ Len(c) <= m - v
      BY <1>1, <1>7, <2>2
    <3> QED BY <1>1, <2>0, <3>1
  <2>4. SubSeq(r, v + 1, w) = c
    <3>1. /\ p \in Nat /\ p >= 1 /\ v \in Nat /\ w \in Nat /\ Len(c) \in Nat
          /\ w = v + Len(c) /\ w <= Len(s) - p + 1 /\ w > v
      BY <1>1, <1>7, <2>0, <2>3 DEF m
    <3>2. PICK a \in Nat : a = v + 1
      BY <3>1
    <3>3. a \in 1..(Len(s) - p + 2) /\ w \in (a - 1)..(Len(s) - p + 1)
      <4>1. Len(s) \in Nat
        BY <1>1
      <4> QED BY ONLY <3>1, <3>2, <4>1
    <3>4. SubSeq(r, a, w) = SubSeq(s, p + a - 1, p + w - 1)
      BY <3>3, SliceOfRest DEF r
    <3>5. p + a - 1 = p + v /\ p + w - 1 = (p + v) + Len(c) - 1
      BY ONLY <3>1, <3>2
    <3> QED BY <2>2, <3>2, <3>4, <3>5
  <2>5. PICK cuts \in SUBSET (0..v) :
          /\ 0 \in cuts
          /\ \A a \in cuts \ {v} :
                 \E d \in Chars : a + Len(d) \in cuts /\ SubSeq(r, a + 1, a + Len(d)) = d
    BY <1>7 DEF IsWhole
  <2>6. PICK more : more = cuts \cup {w}
    OBVIOUS
  <2>7. more \in SUBSET (0..w) /\ 0 \in more
    BY <1>7, <2>3, <2>5, <2>6
  <2>8. ASSUME NEW a \in more \ {w}
        PROVE  \E d \in Chars : a + Len(d) \in more /\ SubSeq(r, a + 1, a + Len(d)) = d
    <3>1. CASE a = v
      BY <2>0, <2>2, <2>4, <2>6, <3>1
    <3>2. CASE a # v
      <4>1. a \in cuts \ {v}
        BY <2>6, <3>2
      <4> QED BY <2>5, <2>6, <4>1
    <3> QED BY <3>1, <3>2
  <2>9. IsWhole(r, w)
    BY <2>7, <2>8 DEF IsWhole
  <2>10. w \in V
    BY <1>2, <2>3, <2>9
  <2> QED BY <1>6, <1>7, <2>3, <2>10
<1> QED BY <1>7, <1>8 DEF r, m

(* The malformed sequence is the same in the rest of a text and in the     *)
(* text (error_len).                                                       *)
LEMMA BrokenInRest ==
    ASSUME NEW s \in Seq(Bytes), NEW p \in 1..(Len(s) + 1), NEW v \in 0..(Len(s) - p)
    PROVE  BrokenLen(SubSeq(s, p, Len(s)), v + 1) = BrokenLen(s, p + v)
<1> DEFINE r == SubSeq(s, p, Len(s))
<1>1. Len(s) \in Nat /\ Len(s) \in (p - 1)..Len(s)
  BY LenProperties
<1>2. Len(r) = Len(s) - p + 1
  BY <1>1, Slice
<1>3. Len(r) - (v + 1) + 1 = Len(s) - (p + v) + 1
  BY <1>1, <1>2
<1>4. ASSUME NEW n \in 1..(Len(s) - (p + v) + 1)
      PROVE  SubSeq(r, v + 1, (v + 1) + n - 1) = SubSeq(s, p + v, (p + v) + n - 1)
  <2>1. /\ v + 1 \in 1..(Len(s) - p + 2) /\ (v + 1) + n - 1 \in ((v + 1) - 1)..(Len(s) - p + 1)
        /\ p + (v + 1) - 1 = p + v /\ p + ((v + 1) + n - 1) - 1 = (p + v) + n - 1
    BY <1>1
  <2>2. SubSeq(r, v + 1, (v + 1) + n - 1) = SubSeq(s, p + (v + 1) - 1, p + ((v + 1) + n - 1) - 1)
    BY <2>1, SliceOfRest
  <2> QED BY <2>1, <2>2
<1> HIDE DEF r
<1>5. {n \in 1..(Len(r) - (v + 1) + 1) : IsBeginning(SubSeq(r, v + 1, (v + 1) + n - 1))}
      = {n \in 1..(Len(s) - (p + v) + 1) : IsBeginning(SubSeq(s, p + v, (p + v) + n - 1))}
  BY <1>3, <1>4
<1>6. BrokenLen(r, v + 1) = BrokenLen(s, p + v)
  BY <1>5 DEF BrokenLen
<1> QED BY <1>6 DEF r

--------------------------------------------------------------------------------
(* The texts kept. *)

Text == [kind : {"name", "lyric"}, range : [start : Nat, len : Nat], source : Seq(Bytes)]

(* TextsReadBack, and the end of the last text, of any texts.              *)
ReadsBackAt(ks, data, i) ==
    LET range == ks[i].range
    IN  /\ range.start = IF i = 1 THEN 0 ELSE End(ks[i - 1].range)
        /\ End(range) <= U32Max /\ End(range) <= Len(data)
        /\ SubSeq(data, range.start + 1, End(range)) = Normal(ks[i].source)

ReadsBack(ks, data) == \A i \in DOMAIN ks : ReadsBackAt(ks, data, i)

EndOf(ks) == IF ks = <<>> THEN 0 ELSE End(ks[Len(ks)].range)

(* The parts of a text that is kept.                                       *)
LEMMA TextFacts ==
    ASSUME NEW ks \in Seq(Text)
    PROVE  /\ Len(ks) \in Nat /\ DOMAIN ks = 1..Len(ks)
           /\ \A i \in 1..Len(ks) :
                 /\ ks[i].range.start \in Nat /\ ks[i].range.len \in Nat
                 /\ End(ks[i].range) = ks[i].range.start + ks[i].range.len
                 /\ End(ks[i].range) \in Nat /\ ks[i].source \in Seq(Bytes)
<1>1. Len(ks) \in Nat /\ DOMAIN ks = 1..Len(ks)
  BY LenProperties
<1>2. ASSUME NEW i \in 1..Len(ks)
      PROVE  /\ ks[i].range.start \in Nat /\ ks[i].range.len \in Nat
             /\ End(ks[i].range) = ks[i].range.start + ks[i].range.len
             /\ End(ks[i].range) \in Nat /\ ks[i].source \in Seq(Bytes)
  <2>1. ks[i] \in Text
    BY ElementOfSeq
  <2>2. ks[i].range \in [start : Nat, len : Nat] /\ ks[i].source \in Seq(Bytes)
    BY <2>1 DEF Text
  <2>3. ks[i].range.start \in Nat /\ ks[i].range.len \in Nat
    BY <2>2
  <2> QED BY <2>2, <2>3 DEF End
<1> QED BY <1>1, <1>2

(* What is appended behind them does not change the texts kept.            *)
LEMMA ReadsBackGrows ==
    ASSUME NEW ks \in Seq(Text), NEW data \in Seq(Out), NEW x \in Seq(Out), ReadsBack(ks, data)
    PROVE  ReadsBack(ks, data \o x)
<1>1. Len(data) \in Nat /\ Len(x) \in Nat
  BY LenProperties
<1>2. ASSUME NEW i \in DOMAIN ks PROVE ReadsBackAt(ks, data \o x, i)
  <2>1. ReadsBackAt(ks, data, i) /\ i \in 1..Len(ks)
    BY <1>2, TextFacts DEF ReadsBack
  <2>2. PICK a : a = ks[i].range.start + 1
    OBVIOUS
  <2>3. PICK b : b = End(ks[i].range)
    OBVIOUS
  <2>4. b = ks[i].range.start + ks[i].range.len /\ ks[i].range.start \in Nat /\ ks[i].range.len \in Nat
    BY <2>1, <2>3, TextFacts
  <2>5. b <= Len(data)
    BY <2>1, <2>3 DEF ReadsBackAt
  <2>6. a \in 1..(Len(data) + 1) /\ b \in (a - 1)..Len(data)
    <3>1. PICK first \in Nat, len \in Nat : a = first + 1 /\ b = first + len
      BY <2>2, <2>4
    <3>2. a \in Nat /\ b \in Nat /\ a >= 1 /\ a - 1 <= b
      BY <3>1
    <3> QED BY <1>1, <2>5, <3>2
  <2>7. SubSeq(data \o x, a, b) = SubSeq(data, a, b) /\ Len(data \o x) = Len(data) + Len(x)
    BY <2>6, SliceOfAppended, ConcatProperties
  <2>8. b <= Len(data \o x)
    BY <1>1, <2>5, <2>6, <2>7
  <2>9. SubSeq(data \o x, ks[i].range.start + 1, End(ks[i].range)) = Normal(ks[i].source)
    BY <2>1, <2>2, <2>3, <2>7 DEF ReadsBackAt
  <2> QED BY <2>1, <2>3, <2>8, <2>9 DEF ReadsBackAt
<1> QED BY <1>2 DEF ReadsBack

(* A text that starts at the end of the last one and reads back is kept.   *)
LEMMA ReadsBackAppend ==
    ASSUME NEW ks \in Seq(Text), NEW data \in Seq(Out), NEW t \in Text, ReadsBack(ks, data),
           t.range.start = EndOf(ks), End(t.range) <= U32Max, End(t.range) <= Len(data),
           SubSeq(data, t.range.start + 1, End(t.range)) = Normal(t.source)
    PROVE  /\ Append(ks, t) \in Seq(Text) /\ ReadsBack(Append(ks, t), data)
           /\ EndOf(Append(ks, t)) = End(t.range)
<1> DEFINE n == Len(ks)
           ts == Append(ks, t)
<1>1. n \in Nat /\ DOMAIN ks = 1..n
  BY LenProperties
<1>2. /\ ts \in Seq(Text) /\ ts # <<>> /\ Len(ts) = n + 1
      /\ \A i \in 1..n : ts[i] = ks[i]
      /\ ts[n + 1] = t
  BY AppendProperties
<1>3. DOMAIN ts = 1..(n + 1)
  BY <1>2, LenProperties
<1> HIDE DEF ts
<1>4. ASSUME NEW i \in 1..(n + 1) PROVE ReadsBackAt(ts, data, i)
  <2>1. CASE i \in 1..n
    <3>1. ReadsBackAt(ks, data, i) /\ ts[i] = ks[i]
      BY <1>1, <1>2, <2>1 DEF ReadsBack
    <3>2. i # 1 => i - 1 \in 1..n
      BY <1>1, <2>1
    <3>3. i # 1 => ts[i - 1] = ks[i - 1]
      BY <1>2, <3>2
    <3> QED BY <3>1, <3>3 DEF ReadsBackAt
  <2>2. CASE i = n + 1
    <3>1. ts[i] = t
      BY <1>2, <2>2
    <3>2. t.range.start = IF i = 1 THEN 0 ELSE End(ts[i - 1].range)
      <4>1. CASE n = 0
        <5>1. ks = <<>> /\ i = 1
          BY <2>2, <4>1, EmptySeq
        <5> QED BY <5>1 DEF EndOf
      <4>2. CASE n # 0
        <5>1. ks # <<>> /\ i # 1 /\ i - 1 = n /\ n \in 1..n
          BY <1>1, <2>2, <4>2, EmptySeq
        <5>2. ts[i - 1] = ks[n]
          BY <1>2, <5>1
        <5> QED BY <5>1, <5>2 DEF EndOf
      <4> QED BY <4>1, <4>2
    <3> QED BY <3>1, <3>2 DEF ReadsBackAt
  <2> QED BY <1>1, <2>1, <2>2
<1>5. ReadsBack(ts, data)
  BY <1>3, <1>4 DEF ReadsBack
<1>6. EndOf(ts) = End(t.range)
  BY <1>2 DEF EndOf
<1> QED BY <1>2, <1>5, <1>6 DEF ts

(* The last text ends within u32.                                          *)
LEMMA EndOfFits ==
    ASSUME NEW ks \in Seq(Text), NEW data, ReadsBack(ks, data)
    PROVE  EndOf(ks) \in 0..U32Max
<1>1. U32Max \in Nat
  BY BoundAssumption
<1>2. CASE ks = <<>>
  BY <1>1, <1>2 DEF EndOf
<1>3. CASE ks # <<>>
  <2>1. Len(ks) \in 1..Len(ks) /\ Len(ks) \in DOMAIN ks
    BY <1>3, EmptySeq, TextFacts
  <2>2. End(ks[Len(ks)].range) \in Nat /\ End(ks[Len(ks)].range) <= U32Max
    BY <2>1, TextFacts DEF ReadsBack, ReadsBackAt
  <2> QED BY <1>1, <1>3, <2>2 DEF EndOf
<1> QED BY <1>2, <1>3

(* The texts kept have the normalized bytes up to the end of the last.     *)
LEMMA KeptBytesIsEnd ==
    ASSUME kept \in Seq(Text), textData \in Seq(Out), ReadsBack(kept, textData)
    PROVE  KeptBytes = EndOf(kept)
<1> DEFINE n == Len(kept)
           ends == [k \in 0..n |-> IF k = 0 THEN 0 ELSE End(kept[k].range)]
           Body(f) == [k \in 0..Len(kept) |->
                         IF k = 0 THEN 0 ELSE f[k - 1] + Len(Normal(kept[k].source))]
           F == CHOOSE f : f = Body(f)
<1>1. n \in Nat /\ Len(textData) \in Nat /\ DOMAIN kept = 1..n
  BY LenProperties
<1>2. ASSUME NEW k \in 1..n
      PROVE  ends[k] = ends[k - 1] + Len(Normal(kept[k].source)) /\ ends[k - 1] \in Nat
  <2>1. ReadsBackAt(kept, textData, k)
    BY <1>1 DEF ReadsBack
  <2>2. PICK a : a = kept[k].range.start + 1
    OBVIOUS
  <2>3. PICK b : b = End(kept[k].range)
    OBVIOUS
  <2>4. /\ b = kept[k].range.start + kept[k].range.len
        /\ kept[k].range.start \in Nat /\ kept[k].range.len \in Nat
    BY <2>3, TextFacts
  <2>5. b <= Len(textData) /\ SubSeq(textData, a, b) = Normal(kept[k].source)
    BY <2>1, <2>2, <2>3 DEF ReadsBackAt
  <2>6. a \in 1..(Len(textData) + 1) /\ b \in (a - 1)..Len(textData)
    <3>1. PICK first \in Nat, len \in Nat : a = first + 1 /\ b = first + len
      BY <2>2, <2>4
    <3>2. a \in Nat /\ b \in Nat /\ a >= 1 /\ a - 1 <= b
      BY <3>1
    <3> QED BY <1>1, <2>5, <3>2
  <2>7. Len(Normal(kept[k].source)) = b - a + 1
    BY <2>5, <2>6, Slice
  <2>8. k \in 0..n /\ k - 1 \in 0..n /\ (k - 1 = 0 <=> k = 1) /\ k # 0
    BY <1>1
  <2>9. ends[k] = b /\ ends[k - 1] = IF k = 1 THEN 0 ELSE End(kept[k - 1].range)
    BY <2>3, <2>8
  <2>10. ends[k - 1] = kept[k].range.start
    BY <2>1, <2>9 DEF ReadsBackAt
  <2> HIDE DEF ends
  <2>11. PICK m : m = Len(Normal(kept[k].source))
    OBVIOUS
  <2>12. b = (a - 1) + m
    BY <1>1, <2>6, <2>7, <2>11
  <2>13. ends[k - 1] = a - 1 /\ a - 1 \in Nat
    BY <2>2, <2>4, <2>10
  <2> QED BY <2>9, <2>11, <2>12, <2>13
<1>3. ends = Body(ends)
  <2>1. ASSUME NEW k \in 0..n
        PROVE  ends[k] = IF k = 0 THEN 0 ELSE ends[k - 1] + Len(Normal(kept[k].source))
    <3>1. CASE k = 0
      BY <3>1
    <3>2. CASE k # 0
      <4>1. k \in 1..n
        BY <1>1, <3>2
      <4> HIDE DEF ends
      <4> QED BY <1>2, <3>2, <4>1
    <3> QED BY <3>1, <3>2
  <2>2. ends = [k \in 0..n |-> ends[k]]
    OBVIOUS
  <2> HIDE DEF ends
  <2> QED BY <2>1, <2>2
<1>4. F = Body(F)
  <2> HIDE DEF Body, ends
  <2> QED BY <1>3
<1>5. KeptBytes = F[n]
  BY DEF KeptBytes
<1> HIDE DEF F
<1>6. F[0] = 0 /\ \A k \in 1..n : F[k] = F[k - 1] + Len(Normal(kept[k].source))
  <2>1. \A k \in 0..Len(kept) : F[k] = IF k = 0 THEN 0 ELSE F[k - 1] + Len(Normal(kept[k].source))
    BY <1>4
  <2>2. 0 \in 0..Len(kept) /\ \A k \in 1..n : k \in 0..Len(kept) /\ k # 0
    BY <1>1
  <2> QED BY <2>1, <2>2
<1>7. ends[0] = 0
  BY <1>1
<1> DEFINE T == {k \in Nat : k <= n => F[k] = ends[k]}
<1>8. n \in T
  <2> HIDE DEF ends
  <2>1. 0 \in T
    BY <1>6, <1>7
  <2>2. ASSUME NEW k \in Nat, k \in T PROVE k + 1 \in T
    <3> SUFFICES ASSUME k + 1 <= n PROVE F[k + 1] = ends[k + 1]
      OBVIOUS
    <3>1. k + 1 \in 1..n /\ (k + 1) - 1 = k /\ k <= n
      BY <1>1
    <3> QED BY <1>2, <1>6, <2>2, <3>1
  <2> HIDE DEF T, n
  <2> QED BY <1>1, <2>1, <2>2, SetInduction
<1>9. ends[n] = EndOf(kept)
  <2>1. kept = <<>> <=> n = 0
    BY EmptySeq
  <2>2. n \in 0..n
    BY <1>1
  <2> QED BY <2>1, <2>2 DEF EndOf
<1> HIDE DEF ends
<1> QED BY <1>5, <1>8, <1>9

--------------------------------------------------------------------------------
(* The invariant. *)

Typed ==
    /\ limit \in Nat /\ textData \in Seq(Out) /\ source \in Seq(Bytes)
    /\ kind \in {"none", "name", "lyric"} /\ outcome \in {"reading", "TextBytes", "SizeOverflow"}
    /\ start \in 0..U32Max /\ kept \in Seq(Text)

(* What is there from st on, and what becomes of the bytes of s from p on, *)
(* are the normalized text.                                                *)
Completes(data, s, st, p) ==
    SubSeq(data, st + 1, Len(data)) \o NormalFrom(s)[p] = Normal(s)

(* The bytes of s from p up to q become this piece.                        *)
Becomes(s, p, q, piece) == NormalFrom(s)[p] = piece \o NormalFrom(s)[q]

(* The text s has been pushed up to p, and a malformed sequence is the one *)
(* at p.                                                                   *)
PushedTo(data, s, st, rest, broken, p) ==
    /\ rest = SubSeq(s, p, Len(s)) /\ st <= Len(data)
    /\ Completes(data, s, st, p)
    /\ broken # 0 => p <= Len(s) /\ CharsAt(s, p) = {} /\ broken = BrokenLen(s, p)

(* Between texts the arena ends where the last text kept does, or behind   *)
(* the text that did not fit u32.                                          *)
Idle ==
    kind = "none" =>
        /\ remaining = <<>> /\ invalid = 0 /\ start <= Len(textData)
        /\ outcome = "reading" => Len(textData) = EndOf(kept)
        /\ outcome # "reading" => /\ outcome = "SizeOverflow" /\ Len(textData) > U32Max
                                  /\ Len(textData) = EndOf(kept) + Len(Normal(source))

Busy ==
    kind # "none" =>
        /\ outcome # "SizeOverflow" /\ start = EndOf(kept)
        /\ outcome = "TextBytes" => EndOf(kept) + Len(Normal(source)) > limit
        /\ \E p \in 1..(Len(source) + 1) :
              PushedTo(textData, source, start, remaining, invalid, p)

IInv == Typed /\ Len(textData) <= limit /\ ReadsBack(kept, textData) /\ Idle /\ Busy

(* What becomes of a text, from its beginning.                             *)
LEMMA NormalFacts ==
    ASSUME NEW s \in Seq(Bytes)
    PROVE  /\ Normal(s) = NormalFrom(s)[1] /\ Normal(s) \in Seq(Out) /\ Len(Normal(s)) \in Nat
           /\ Len(s) \in Nat
<1>1. Len(s) \in Nat /\ 1 \in 1..(Len(s) + 1)
  BY LenProperties
<1>2. Normal(s) = NormalFrom(s)[1]
  BY DEF Normal
<1>3. NormalFrom(s)[1] \in Seq(Out)
  BY <1>1, NormalUnrolls
<1> QED BY <1>1, <1>2, <1>3, LenProperties

(* Appending the piece that comes next keeps the equation.                 *)
LEMMA PieceKeeps ==
    ASSUME NEW data \in Seq(Out), NEW s \in Seq(Bytes), NEW st \in 0..Len(data),
           NEW p \in 1..(Len(s) + 1), NEW q \in 1..(Len(s) + 1), NEW piece \in Seq(Out),
           Completes(data, s, st, p), Becomes(s, p, q, piece)
    PROVE  Completes(data \o piece, s, st, q)
<1>1. Len(data) \in Nat
  BY LenProperties
<1>2. PICK a : a = st + 1
  OBVIOUS
<1>3. a \in 1..(Len(data) + 1) /\ Len(data) \in (a - 1)..Len(data)
  BY <1>1, <1>2
<1>4. PICK written : written = SubSeq(data, a, Len(data))
  OBVIOUS
<1>5. written \in Seq(Out)
  BY <1>3, <1>4, Slice
<1>6. PICK rest \in Seq(Out) : rest = NormalFrom(s)[q]
  BY NormalUnrolls
<1>7. SubSeq(data \o piece, a, Len(data \o piece)) = written \o piece
  BY <1>3, <1>4, RestOfAppended
<1>8. written \o (piece \o rest) = Normal(s)
  BY <1>2, <1>4, <1>6 DEF Completes, Becomes
<1>9. (written \o piece) \o rest = Normal(s)
  BY <1>5, <1>8, Regroup
<1> QED BY <1>2, <1>6, <1>7, <1>9 DEF Completes

(* The bytes that are there, counted against those of the whole text.      *)
LEMMA CompletesCount ==
    ASSUME NEW data \in Seq(Out), NEW s \in Seq(Bytes), NEW st \in 0..Len(data),
           NEW q \in 1..(Len(s) + 1), Completes(data, s, st, q)
    PROVE  \E m \in Nat : m = Len(NormalFrom(s)[q]) /\ Len(Normal(s)) = (Len(data) + m) - st
<1>1. Len(data) \in Nat
  BY LenProperties
<1>2. PICK a : a = st + 1
  OBVIOUS
<1>3. a \in 1..(Len(data) + 1) /\ Len(data) \in (a - 1)..Len(data)
  BY <1>1, <1>2
<1>4. PICK written : written = SubSeq(data, a, Len(data))
  OBVIOUS
<1>5. written \in Seq(Out) /\ Len(written) = Len(data) - a + 1
  BY <1>3, <1>4, Slice
<1>6. PICK rest \in Seq(Out) : rest = NormalFrom(s)[q]
  BY NormalUnrolls
<1>7. Len(rest) \in Nat
  BY LenProperties
<1>8. Len(Normal(s)) = Len(written) + Len(rest)
  <2>1. written \o rest = Normal(s)
    BY <1>2, <1>4, <1>6 DEF Completes
  <2>2. Len(written \o rest) = Len(written) + Len(rest)
    BY <1>5, ConcatProperties
  <2> QED BY <2>1, <2>2
<1>9. Len(written) + Len(rest) = (Len(data) + Len(rest)) - st
  BY <1>1, <1>2, <1>3, <1>5, <1>7
<1> QED BY <1>6, <1>7, <1>8, <1>9

(* The rest behind the first n bytes of the rest is the rest from further  *)
(* on.                                                                     *)
LEMMA RestOfRest ==
    ASSUME NEW s \in Seq(Bytes), NEW p \in 1..(Len(s) + 1), NEW n \in 0..(Len(s) - p + 1)
    PROVE  LET r == SubSeq(s, p, Len(s))
           IN  /\ SubSeq(r, n + 1, Len(r)) = SubSeq(s, p + n, Len(s))
               /\ SubSeq(r, 1, n) = SubSeq(s, p, p + n - 1) /\ SubSeq(r, 1, n) \in Seq(Out)
               /\ Len(SubSeq(r, 1, n)) = n /\ Len(r) = Len(s) - p + 1
               /\ p + n \in 1..(Len(s) + 1)
<1> DEFINE r == SubSeq(s, p, Len(s))
<1>1. Len(s) \in Nat /\ Len(s) \in (p - 1)..Len(s)
  BY LenProperties
<1>2. r \in Seq(Bytes) /\ Len(r) = Len(s) - p + 1
  BY <1>1, Slice
<1>3. PICK a : a = n + 1
  OBVIOUS
<1>4. PICK m : m = Len(s) - p + 1
  OBVIOUS
<1>5. a \in 1..(Len(s) - p + 2) /\ m \in (a - 1)..(Len(s) - p + 1)
  BY <1>1, <1>3, <1>4
<1>6. SubSeq(r, a, m) = SubSeq(s, p + a - 1, p + m - 1)
  BY <1>5, SliceOfRest
<1>7. p + a - 1 = p + n /\ p + m - 1 = Len(s)
  BY <1>1, <1>3, <1>4
<1>8. 1 \in 1..(Len(s) - p + 2) /\ n \in (1 - 1)..(Len(s) - p + 1) /\ p + 1 - 1 = p
  BY <1>1
<1>9. SubSeq(r, 1, n) = SubSeq(s, p + 1 - 1, p + n - 1)
  BY <1>8, SliceOfRest
<1> HIDE DEF r
<1>10. 1 \in 1..(Len(r) + 1) /\ n \in (1 - 1)..Len(r)
  BY <1>1, <1>2
<1>11. SubSeq(r, 1, n) \in Seq(Bytes) /\ Len(SubSeq(r, 1, n)) = n - 1 + 1
  BY <1>2, <1>10, Slice
<1>12. SubSeq(r, 1, n) \in Seq(Out)
  BY <1>11, SeqMonotonic DEF Out
<1>13. n - 1 + 1 = n /\ p + n \in 1..(Len(s) + 1)
  BY <1>1
<1> QED BY <1>2, <1>3, <1>4, <1>6, <1>7, <1>8, <1>9, <1>11, <1>12, <1>13 DEF r

(* A parse begins with nothing.                                            *)
LEMMA InitInv == Init => IInv
<1> SUFFICES ASSUME Init PROVE IInv
  OBVIOUS
<1>1. limit \in Nat /\ 0 \in 0..U32Max
  BY BoundAssumption DEF Init
<1>2. Len(<<>>) = 0 /\ <<>> \in Seq(Out) /\ <<>> \in Seq(Bytes) /\ <<>> \in Seq(Text)
  BY EmptySeq
<1>3. Typed
  BY <1>1, <1>2 DEF Init, Typed
<1>4. Len(textData) <= limit
  BY <1>1, <1>2 DEF Init
<1>5. ReadsBack(kept, textData)
  BY <1>2, TextFacts DEF Init, ReadsBack
<1>6. Idle /\ Busy
  BY <1>2 DEF Init, Idle, Busy, EndOf
<1> QED BY <1>3, <1>4, <1>5, <1>6 DEF IInv

(* A text is refused when the pieces already there and the next one pass   *)
(* the limit.                                                              *)
LEMMA FailKeeps ==
    ASSUME IInv, kind # "none", Fail("TextBytes"), EndOf(kept) + Len(Normal(source)) > limit
    PROVE  IInv'
<1>1. outcome' = "TextBytes"
      /\ UNCHANGED <<limit, textData, kind, source, start, remaining, invalid, kept>>
  BY DEF Fail
<1>2. Typed'
  BY <1>1 DEF IInv, Typed
<1>3. (Len(textData) <= limit)' /\ ReadsBack(kept, textData)'
  BY <1>1 DEF IInv
<1>4. Idle' /\ Busy'
  BY <1>1 DEF IInv, Idle, Busy
<1> QED BY <1>2, <1>3, <1>4 DEF IInv

(* Begin: a text starts where the last one ends, with all of it to push;   *)
(* the arena is never too long for its start.                              *)
LEMMA BeginKeeps ==
    ASSUME IInv, NEW k \in {"name", "lyric"}, NEW s \in Payloads, Begin(k, s)
    PROVE  IInv'
<1>1. Typed /\ Len(textData) <= limit /\ ReadsBack(kept, textData) /\ Idle
  BY DEF IInv
<1>2. outcome = "reading" /\ kind = "none"
  BY DEF Begin
<1>3. Len(textData) = EndOf(kept) /\ EndOf(kept) \in 0..U32Max
  BY <1>1, <1>2, EndOfFits DEF Idle, Typed
<1>4. ~(Len(textData) > U32Max)
  BY <1>3, BoundAssumption
<1>5. /\ kind' = k /\ source' = s /\ start' = Len(textData) /\ remaining' = s /\ invalid' = 0
      /\ UNCHANGED <<limit, textData, kept, outcome>>
  BY <1>4 DEF Begin
<1>6. s \in Seq(Bytes)
  <2>1. PICK n \in 0..MaxBytes : s \in [1..n -> Bytes]
    BY DEF Payloads, BoundedSeq, SeqOf
  <2>2. n \in Nat
    BY BoundAssumption
  <2> QED BY <2>1, <2>2
<1>7. Typed'
  BY <1>1, <1>3, <1>5, <1>6 DEF Typed
<1>8. (Len(textData) <= limit)' /\ ReadsBack(kept, textData)' /\ Idle'
  BY <1>1, <1>5 DEF Idle
<1>9. PushedTo(textData, s, Len(textData), s, 0, 1)
  <2>1. SubSeq(s, 1, Len(s)) = s
    BY <1>6, SubSeqFull
  <2>2. Len(textData) \in Nat
    BY <1>1, LenProperties DEF Typed
  <2>3. SubSeq(textData, Len(textData) + 1, Len(textData)) = <<>>
    BY <2>2, SubSeqEmpty
  <2>4. <<>> \o NormalFrom(s)[1] = Normal(s)
    BY <1>6, NormalFacts, ConcatEmptySeq
  <2>5. Len(textData) <= Len(textData) /\ ~(0 # 0)
    BY <2>2
  <2> QED BY <2>1, <2>3, <2>4, <2>5 DEF PushedTo, Completes
<1>10. Busy'
  <2>1. 1 \in 1..(Len(s) + 1)
    BY <1>6, LenProperties
  <2>2. \E p \in 1..(Len(source') + 1) : PushedTo(textData', source', start', remaining', invalid', p)
    BY <1>5, <1>9, <2>1
  <2>3. outcome' = "reading" /\ start' = EndOf(kept')
    BY <1>2, <1>3, <1>5
  <2> QED BY <2>2, <2>3 DEF Busy
<1> QED BY <1>7, <1>8, <1>10 DEF IInv

(* Where a text that is being pushed is.                                   *)
LEMMA PushFacts ==
    ASSUME IInv, InPush
    PROVE  /\ Typed /\ Len(textData) <= limit /\ ReadsBack(kept, textData)
           /\ limit \in Nat /\ textData \in Seq(Out) /\ source \in Seq(Bytes) /\ kept \in Seq(Text)
           /\ kind \in {"name", "lyric"} /\ outcome = "reading"
           /\ Len(textData) \in Nat /\ Len(source) \in Nat /\ start = EndOf(kept)
           /\ start \in 0..Len(textData)
           /\ \E p \in 1..(Len(source) + 1) :
                 PushedTo(textData, source, start, remaining, invalid, p)
<1>1. /\ Typed /\ Len(textData) <= limit /\ ReadsBack(kept, textData) /\ Busy
      /\ kind # "none" /\ outcome = "reading"
  BY DEF IInv, InPush
<1>2. /\ limit \in Nat /\ textData \in Seq(Out) /\ source \in Seq(Bytes) /\ kept \in Seq(Text)
      /\ kind \in {"name", "lyric"} /\ start \in 0..U32Max
  BY <1>1 DEF Typed
<1>3. Len(textData) \in Nat /\ Len(source) \in Nat
  BY <1>2, LenProperties
<1>4. start = EndOf(kept)
  BY <1>1 DEF Busy
<1>5. PICK p \in 1..(Len(source) + 1) : PushedTo(textData, source, start, remaining, invalid, p)
  BY <1>1 DEF Busy
<1>6. start \in 0..Len(textData)
  BY <1>2, <1>3, <1>5, BoundAssumption DEF PushedTo
<1> QED BY <1>1, <1>2, <1>3, <1>4, <1>5, <1>6

(* The bytes up to q are looked at: their piece is appended, unless it     *)
(* does not fit the budget.                                                *)
PushPiece(piece, q) ==
    /\ FitsBudget(Len(piece)) /\ textData' = textData \o piece
    /\ remaining' = SubSeq(source, q, Len(source))
    /\ invalid' # 0 => q <= Len(source) /\ CharsAt(source, q) = {} /\ invalid' = BrokenLen(source, q)
    /\ UNCHANGED <<limit, kind, source, start, kept, outcome>>

(* A piece that does not fit the budget is refused with a text that does   *)
(* not fit; one that fits is appended, and the text is pushed further.     *)
LEMMA PushPieceKeeps ==
    ASSUME IInv, InPush, NEW p \in 1..(Len(source) + 1), NEW q \in 1..(Len(source) + 1),
           PushedTo(textData, source, start, remaining, invalid, p),
           NEW piece \in Seq(Out), Becomes(source, p, q, piece),
           (~FitsBudget(Len(piece)) /\ Fail("TextBytes")) \/ PushPiece(piece, q)
    PROVE  IInv'
<1>1. /\ Typed /\ Len(textData) <= limit /\ ReadsBack(kept, textData)
      /\ limit \in Nat /\ textData \in Seq(Out) /\ source \in Seq(Bytes) /\ kept \in Seq(Text)
      /\ kind \in {"name", "lyric"} /\ outcome = "reading"
      /\ Len(textData) \in Nat /\ Len(source) \in Nat /\ start = EndOf(kept)
      /\ start \in 0..Len(textData)
  BY PushFacts
<1>2. Completes(textData, source, start, p)
  BY DEF PushedTo
<1>3. PICK data : data = textData \o piece
  OBVIOUS
<1>4. Len(piece) \in Nat /\ data \in Seq(Out) /\ Len(data) = Len(textData) + Len(piece)
  BY <1>1, <1>3, ConcatProperties, LenProperties
<1>5. PICK st \in 0..Len(textData) : st = start
  BY <1>1
<1>6. Completes(data, source, st, q)
  BY <1>1, <1>2, <1>3, <1>5, PieceKeeps
<1>7. CASE ~FitsBudget(Len(piece)) /\ Fail("TextBytes")
  <2>1. Len(textData) + Len(piece) > limit
    BY <1>1, <1>4, <1>7 DEF FitsBudget
  <2>2. st \in 0..Len(data)
    BY <1>1, <1>4, <1>5
  <2>3. PICK m \in Nat : Len(Normal(source)) = (Len(data) + m) - st
    BY <1>1, <1>4, <1>6, <2>2, CompletesCount
  <2>4. PICK n : n = Len(Normal(source))
    OBVIOUS
  <2>5. st + n > limit
    <3>1. Len(data) \in Nat /\ limit \in Nat /\ Len(data) > limit
      BY <1>1, <1>4, <2>1
    <3>2. n = (Len(data) + m) - st
      BY <2>3, <2>4
    <3> QED BY <3>1, <3>2
  <2>6. EndOf(kept) + Len(Normal(source)) > limit
    BY <1>1, <1>5, <2>4, <2>5
  <2> QED BY <1>1, <1>7, <2>6, FailKeeps
<1>8. CASE PushPiece(piece, q)
  <2>0. /\ FitsBudget(Len(piece)) /\ textData' = data
        /\ remaining' = SubSeq(source, q, Len(source))
        /\ invalid' # 0 => /\ q <= Len(source) /\ CharsAt(source, q) = {}
                           /\ invalid' = BrokenLen(source, q)
        /\ UNCHANGED <<limit, kind, source, start, kept, outcome>>
    BY <1>3, <1>8 DEF PushPiece
  <2>1. Len(data) <= limit /\ start <= Len(data)
    BY <1>1, <1>4, <2>0 DEF FitsBudget
  <2>2. Typed'
    BY <1>1, <1>4, <2>0 DEF Typed
  <2>3. ReadsBack(kept, textData)'
    BY <1>1, <1>3, <2>0, ReadsBackGrows
  <2>4. PushedTo(data, source, start, remaining', invalid', q)
    BY <1>5, <1>6, <2>0, <2>1 DEF PushedTo
  <2>5. Idle' /\ Busy'
    <3>1. \E n \in 1..(Len(source') + 1) : PushedTo(textData', source', start', remaining', invalid', n)
      BY <2>0, <2>4
    <3>2. kind' # "none" /\ outcome' = "reading" /\ start' = EndOf(kept')
      BY <1>1, <2>0
    <3> QED BY <3>1, <3>2 DEF Idle, Busy
  <2>6. (Len(textData) <= limit)'
    BY <2>0, <2>1
  <2> QED BY <2>2, <2>3, <2>5, <2>6 DEF IInv
<1> QED BY <1>7, <1>8

(* PushValid: the valid run is what becomes of it, and behind it is the    *)
(* malformed sequence.                                                     *)
LEMMA PushValidKeeps ==
    ASSUME IInv, PushValid
    PROVE  IInv'
<1>1. InPush /\ invalid = 0
  BY DEF PushValid
<1>2. PICK v : v = ValidUpTo(remaining)
  OBVIOUS
<1>3. /\ v < Len(remaining)
      /\ \/ ~FitsBudget(v) /\ Fail("TextBytes")
         \/ /\ FitsBudget(v) /\ textData' = textData \o SubSeq(remaining, 1, v)
            /\ invalid' = ErrorLen(remaining)
            /\ remaining' = SubSeq(remaining, v + 1, Len(remaining))
            /\ UNCHANGED <<limit, kind, source, start, kept, outcome>>
  BY <1>2 DEF PushValid, Extend
<1>4. source \in Seq(Bytes) /\ Len(source) \in Nat
  BY <1>1, PushFacts
<1>5. PICK p \in 1..(Len(source) + 1) : PushedTo(textData, source, start, remaining, invalid, p)
  BY <1>1, PushFacts
<1>6. remaining = SubSeq(source, p, Len(source))
  BY <1>5 DEF PushedTo
<1>7. /\ v \in 0..(Len(source) - p + 1) /\ IsWhole(remaining, v)
      /\ v < Len(source) - p + 1 => CharsAt(source, p + v) = {}
  BY <1>2, <1>4, <1>6, NoCharBehindValid
<1>8. PICK q : q = p + v
  OBVIOUS
<1>9. PICK piece : piece = SubSeq(remaining, 1, v)
  OBVIOUS
<1>10. /\ SubSeq(remaining, v + 1, Len(remaining)) = SubSeq(source, q, Len(source))
       /\ piece = SubSeq(source, p, p + v - 1) /\ piece \in Seq(Out)
       /\ Len(piece) = v /\ Len(remaining) = Len(source) - p + 1
       /\ q \in 1..(Len(source) + 1)
  BY <1>4, <1>6, <1>7, <1>8, <1>9, RestOfRest
<1>11. Becomes(source, p, q, piece)
  BY <1>4, <1>6, <1>7, <1>8, <1>10, WholeIsNormal DEF Becomes
<1>12. v \in 0..(Len(source) - p) /\ q <= Len(source) /\ CharsAt(source, q) = {}
  BY <1>3, <1>4, <1>7, <1>8, <1>10
<1>13. ErrorLen(remaining) = BrokenLen(source, q)
  BY <1>2, <1>4, <1>6, <1>8, <1>12, BrokenInRest DEF ErrorLen
<1>14. (~FitsBudget(Len(piece)) /\ Fail("TextBytes")) \/ PushPiece(piece, q)
  BY <1>3, <1>9, <1>10, <1>12, <1>13 DEF PushPiece
<1> QED BY <1>1, <1>5, <1>10, <1>11, <1>14, PushPieceKeeps

(* PushReplacement: the piece at the malformed sequence is a replacement.  *)
LEMMA PushReplacementKeeps ==
    ASSUME IInv, PushReplacement
    PROVE  IInv'
<1>1. /\ InPush /\ invalid # 0
      /\ \/ ~FitsBudget(Len(Replacement)) /\ Fail("TextBytes")
         \/ /\ FitsBudget(Len(Replacement)) /\ textData' = textData \o Replacement
            /\ remaining' = SubSeq(remaining, invalid + 1, Len(remaining)) /\ invalid' = 0
            /\ UNCHANGED <<limit, kind, source, start, kept, outcome>>
  BY DEF PushReplacement, FitsReplacement, Extend
<1>2. source \in Seq(Bytes) /\ Len(source) \in Nat
  BY <1>1, PushFacts
<1>3. PICK p \in 1..(Len(source) + 1) : PushedTo(textData, source, start, remaining, invalid, p)
  BY <1>1, PushFacts
<1>4. /\ remaining = SubSeq(source, p, Len(source))
      /\ p \in 1..Len(source) /\ CharsAt(source, p) = {} /\ invalid = BrokenLen(source, p)
  BY <1>1, <1>2, <1>3 DEF PushedTo
<1>5. PICK n \in 0..(Len(source) - p + 1) : n = invalid
  BY <1>2, <1>4, BrokenFacts
<1>6. PICK q : q = p + n
  OBVIOUS
<1>7. SubSeq(remaining, n + 1, Len(remaining)) = SubSeq(source, q, Len(source)) /\ q \in 1..(Len(source) + 1)
  BY <1>2, <1>3, <1>4, <1>5, <1>6, RestOfRest
<1>8. Becomes(source, p, q, Replacement)
  <2>1. Piece(source, p) = Replacement /\ Taken(source, p) = n
    BY <1>4, <1>5 DEF Piece, Taken
  <2>2. NormalFrom(source)[p] = Piece(source, p) \o NormalFrom(source)[p + Taken(source, p)]
    BY <1>2, <1>4, NormalUnrolls
  <2> QED BY <1>6, <2>1, <2>2 DEF Becomes
<1>9. Replacement \in Seq(Out)
  BY DEF Replacement, Out
<1>10. (~FitsBudget(Len(Replacement)) /\ Fail("TextBytes")) \/ PushPiece(Replacement, q)
  BY <1>1, <1>5, <1>7 DEF PushPiece
<1> QED BY <1>1, <1>3, <1>7, <1>8, <1>9, <1>10, PushPieceKeeps

(* PushRest: what is left is valid and becomes itself; the text then reads *)
(* back, and is kept if u32 holds its end.                                 *)
LEMMA PushRestKeeps ==
    ASSUME IInv, PushRest
    PROVE  IInv'
<1>1. InPush /\ invalid = 0 /\ ValidUpTo(remaining) = Len(remaining)
  BY DEF PushRest
<1>2. /\ Typed /\ Len(textData) <= limit /\ ReadsBack(kept, textData)
      /\ limit \in Nat /\ textData \in Seq(Out) /\ source \in Seq(Bytes) /\ kept \in Seq(Text)
      /\ kind \in {"name", "lyric"} /\ outcome = "reading"
      /\ Len(textData) \in Nat /\ Len(source) \in Nat /\ start = EndOf(kept)
  BY <1>1, PushFacts
<1>3. PICK st \in 0..Len(textData) : st = start
  BY <1>1, PushFacts
<1>4. PICK p \in 1..(Len(source) + 1) : PushedTo(textData, source, start, remaining, invalid, p)
  BY <1>1, PushFacts
<1>5. remaining = SubSeq(source, p, Len(source)) /\ Completes(textData, source, st, p)
  BY <1>3, <1>4 DEF PushedTo
<1>6. PICK v : v = Len(source) - p + 1
  OBVIOUS
<1>7. v \in 0..(Len(source) - p + 1) /\ Len(source) \in (p - 1)..Len(source)
  BY <1>2, <1>6
<1>8. Len(remaining) = v /\ remaining \in Seq(Bytes) /\ remaining \in Seq(Out)
  <2>1. Len(remaining) = v /\ remaining \in Seq(Bytes)
    BY <1>2, <1>5, <1>6, <1>7, Slice
  <2> QED BY <2>1, SeqMonotonic DEF Out
<1>9. PICK q : q = Len(source) + 1
  OBVIOUS
<1>10. q \in 1..(Len(source) + 1) /\ p + v = q /\ p + v - 1 = Len(source)
  BY <1>2, <1>6, <1>9
<1>11. Becomes(source, p, q, remaining)
  <2>1. IsWhole(SubSeq(source, p, Len(source)), v)
    BY <1>1, <1>2, <1>5, <1>8, NoCharBehindValid
  <2>2. NormalFrom(source)[p] = SubSeq(source, p, p + v - 1) \o NormalFrom(source)[p + v]
    BY <1>2, <1>7, <2>1, WholeIsNormal
  <2> QED BY <1>5, <1>10, <2>2 DEF Becomes
<1>12. CASE ~FitsBudget(Len(remaining))
  <2>1. Fail("TextBytes")
    BY <1>12 DEF PushRest
  <2> QED BY <1>1, <1>4, <1>8, <1>10, <1>11, <1>12, <2>1, PushPieceKeeps
<1>13. CASE FitsBudget(Len(remaining))
  <2>1. PICK data : data = textData \o remaining
    OBVIOUS
  <2>2. data \in Seq(Out) /\ Len(data) = Len(textData) + Len(remaining) /\ Len(remaining) \in Nat
    BY <1>2, <1>8, <2>1, ConcatProperties, LenProperties
  <2>3. /\ textData' = data /\ kind' = "none" /\ remaining' = <<>>
        /\ UNCHANGED <<limit, source, start, invalid>>
    BY <1>13, <2>1 DEF PushRest, Extend
  <2>4. Len(data) <= limit /\ Len(data) \in Nat /\ st \in 0..Len(data)
    BY <1>2, <1>3, <1>13, <2>2 DEF FitsBudget
  <2>5. Completes(data, source, st, q)
    BY <1>2, <1>5, <1>8, <1>10, <1>11, <2>1, PieceKeeps
  <2>6. NormalFrom(source)[q] = <<>>
    BY <1>2, <1>9, NormalUnrolls
  <2>7. SubSeq(data, st + 1, Len(data)) = Normal(source)
    <3>1. PICK a : a = st + 1
      OBVIOUS
    <3>2. a \in 1..(Len(data) + 1) /\ Len(data) \in (a - 1)..Len(data)
      BY <2>4, <3>1
    <3>3. SubSeq(data, a, Len(data)) \in Seq(Out)
      BY <2>2, <3>2, Slice
    <3>4. SubSeq(data, a, Len(data)) \o <<>> = Normal(source)
      BY <2>5, <2>6, <3>1 DEF Completes
    <3> QED BY <3>1, <3>3, <3>4, ConcatEmptySeq
  <2>8. ReadsBack(kept, data)
    BY <1>2, <1>8, <2>1, ReadsBackGrows
  <2>9. (Len(textData) <= limit)' /\ Busy'
    BY <2>3, <2>4 DEF Busy
  <2>10. start <= Len(data) /\ invalid' = 0
    BY <1>1, <1>3, <2>3, <2>4
  <2>11. CASE Len(data) > U32Max
    <3>1. outcome' = "SizeOverflow" /\ kept' = kept
      BY <1>13, <2>3, <2>11 DEF PushRest
    <3>2. Len(data) = EndOf(kept) + Len(Normal(source))
      <4>1. PICK m \in Nat : m = Len(NormalFrom(source)[q]) /\ Len(Normal(source)) = (Len(data) + m) - st
        BY <1>2, <1>10, <2>2, <2>4, <2>5, CompletesCount
      <4>2. m = 0
        BY <2>6, <4>1, EmptySeq
      <4>3. Len(Normal(source)) = Len(data) - st
        BY <2>4, <4>1, <4>2
      <4>4. Len(data) = st + Len(Normal(source))
        BY <2>4, <4>3
      <4> QED BY <1>2, <1>3, <4>4
    <3>3. Typed'
      BY <1>2, <2>2, <2>3, <3>1 DEF Typed
    <3>4. Idle'
      BY <2>3, <2>10, <2>11, <3>1, <3>2 DEF Idle
    <3> QED BY <2>3, <2>8, <2>9, <3>1, <3>3, <3>4 DEF IInv
  <2>12. CASE ~(Len(data) > U32Max)
    <3>1. PICK n : n = Len(textData) + Len(remaining) - st
      OBVIOUS
    <3>2. PICK new : new = [kind |-> kind, range |-> [start |-> st, len |-> n], source |-> source]
      OBVIOUS
    <3>3. outcome' = outcome /\ kept' = Append(kept, new)
      BY <1>3, <1>13, <2>3, <2>12, <3>1, <3>2 DEF PushRest, TextRange
    <3>4. n \in Nat /\ st \in Nat /\ st + n = Len(data)
      BY <1>2, <2>2, <2>4, <3>1
    <3>5. new \in Text
      BY <1>2, <3>2, <3>4 DEF Text
    <3>6. /\ new.range.start = st /\ new.source = source /\ End(new.range) = Len(data)
      BY <3>2, <3>4 DEF End
    <3>7. new.range.start = EndOf(kept) /\ End(new.range) <= U32Max /\ End(new.range) <= Len(data)
          /\ SubSeq(data, new.range.start + 1, End(new.range)) = Normal(new.source)
      <4>1. Len(data) <= U32Max
        BY <2>4, <2>12, BoundAssumption
      <4>2. new.range.start = EndOf(kept)
        BY <1>2, <1>3, <3>6
      <4>3. End(new.range) <= U32Max /\ End(new.range) <= Len(data)
        BY <2>4, <3>6, <4>1
      <4>4. SubSeq(data, new.range.start + 1, End(new.range)) = Normal(new.source)
        BY <2>7, <3>6
      <4> QED BY <4>2, <4>3, <4>4
    <3>8. /\ Append(kept, new) \in Seq(Text) /\ ReadsBack(Append(kept, new), data)
          /\ EndOf(Append(kept, new)) = End(new.range)
      BY <1>2, <2>2, <2>8, <3>5, <3>7, ReadsBackAppend
    <3>9. Typed'
      BY <1>2, <2>2, <2>3, <3>3, <3>8 DEF Typed
    <3>10. Idle'
      BY <1>2, <2>3, <2>10, <3>3, <3>6, <3>8 DEF Idle
    <3> QED BY <2>3, <2>9, <3>3, <3>8, <3>9, <3>10 DEF IInv
  <2> QED BY <2>11, <2>12
<1> QED BY <1>12, <1>13

(* Every step keeps the invariant.                                         *)
LEMMA NextInv == IInv /\ [Next]_vars => IInv'
<1> SUFFICES ASSUME IInv, [Next]_vars PROVE IInv'
  OBVIOUS
<1>1. CASE \E k \in {"name", "lyric"}, s \in Payloads : Begin(k, s)
  BY <1>1, BeginKeeps
<1>2. CASE PushRest
  BY <1>2, PushRestKeeps
<1>3. CASE PushValid
  BY <1>3, PushValidKeeps
<1>4. CASE PushReplacement
  BY <1>4, PushReplacementKeeps
<1>5. CASE UNCHANGED vars
  BY <1>5 DEF vars, IInv, Typed, Idle, Busy
<1> QED BY <1>1, <1>2, <1>3, <1>4, <1>5 DEF Next

(* The invariant holds of every run.                                       *)
LEMMA Invariance == Spec => []IInv
BY InitInv, NextInv, PTL DEF Spec

--------------------------------------------------------------------------------
(* What follows from it. *)

(* What the invariant says of types.                                       *)
LEMMA InvGivesTypes == IInv => TypeOK
<1> SUFFICES ASSUME IInv PROVE TypeOK
  OBVIOUS
<1>1. Typed /\ Idle /\ Busy
  BY DEF IInv
<1>2. /\ kind \in {"none", "name", "lyric"} /\ outcome \in {"reading", "TextBytes", "SizeOverflow"}
      /\ start \in 0..U32Max /\ source \in Seq(Bytes) /\ Len(source) \in Nat
  BY <1>1, LenProperties DEF Typed
<1>3. CASE kind = "none"
  <2>1. remaining = <<>> /\ invalid = 0 /\ start <= Len(textData)
    BY <1>1, <1>3 DEF Idle
  <2>2. Len(remaining) = 0
    BY <2>1, EmptySeq
  <2> QED BY <1>2, <2>1, <2>2 DEF TypeOK
<1>4. CASE kind # "none"
  <2>1. PICK p \in 1..(Len(source) + 1) : PushedTo(textData, source, start, remaining, invalid, p)
    BY <1>1, <1>4 DEF Busy
  <2>2. /\ remaining = SubSeq(source, p, Len(source)) /\ start <= Len(textData)
        /\ invalid # 0 => p <= Len(source) /\ invalid = BrokenLen(source, p)
    BY <2>1 DEF PushedTo
  <2>3. Len(source) \in (p - 1)..Len(source)
    BY <1>2
  <2>4. Len(remaining) = Len(source) - p + 1
    BY <1>2, <2>2, <2>3, Slice
  <2>5. invalid \in 0..Len(remaining)
    <3>1. CASE invalid = 0
      BY <1>2, <2>4, <3>1
    <3>2. CASE invalid # 0
      <4>1. p \in 1..Len(source)
        BY <1>2, <2>2, <3>2
      <4>2. BrokenLen(source, p) \in 1..(Len(source) - p + 1)
        BY <1>2, <4>1, BrokenFacts
      <4> QED BY <1>2, <2>2, <2>4, <3>2, <4>2
    <3> QED BY <3>1, <3>2
  <2>6. Len(remaining) <= Len(source)
    BY <1>2, <2>4
  <2> QED BY <1>2, <2>2, <2>5, <2>6 DEF TypeOK
<1> QED BY <1>3, <1>4

(* What it says of the budget: the arena holds what was wanted so far.     *)
LEMMA InvGivesBudget == IInv => BudgetExact
<1> SUFFICES ASSUME IInv PROVE BudgetExact
  OBVIOUS
<1>1. Typed /\ Len(textData) <= limit /\ ReadsBack(kept, textData) /\ Idle /\ Busy
  BY DEF IInv
<1>2. KeptBytes = EndOf(kept)
  BY <1>1, KeptBytesIsEnd DEF Typed
<1>3. EndOf(kept) \in Nat
  BY <1>1, EndOfFits, BoundAssumption DEF Typed
<1>4. outcome = "TextBytes" => Wanted > limit
  BY <1>1, <1>2 DEF Wanted, Idle, Busy
<1>5. outcome = "reading" /\ kind = "none" => Wanted <= limit
  <2> SUFFICES ASSUME outcome = "reading", kind = "none" PROVE Wanted <= limit
    OBVIOUS
  <2>1. Len(textData) = EndOf(kept)
    BY <1>1 DEF Idle
  <2>2. Wanted = EndOf(kept) + 0
    BY <1>2 DEF Wanted
  <2> QED BY <1>1, <1>3, <2>1, <2>2
<1>6. outcome = "SizeOverflow" => Wanted <= limit /\ Wanted > U32Max
  <2> SUFFICES ASSUME outcome = "SizeOverflow" PROVE Wanted <= limit /\ Wanted > U32Max
    OBVIOUS
  <2>1. kind = "none"
    BY <1>1 DEF Busy
  <2>2. Len(textData) = EndOf(kept) + Len(Normal(source)) /\ Len(textData) > U32Max
    BY <1>1, <2>1 DEF Idle
  <2>3. Wanted = EndOf(kept) + Len(Normal(source))
    BY <1>2 DEF Wanted
  <2> QED BY <1>1, <2>2, <2>3
<1> QED BY <1>1, <1>4, <1>5, <1>6 DEF BudgetExact

(* The place in a text and the malformed sequence stay within the payload, *)
(* and a range starts within the arena and u32.                            *)
THEOREM TypeCorrect == Spec => []TypeOK
BY Invariance, InvGivesTypes, PTL

(* A text that push_text keeps reads back its payload with each malformed  *)
(* sequence replaced, whatever was kept before and after it, at a range    *)
(* that u32 holds.                                                         *)
THEOREM KeptTextsReadBack == Spec => []TextsReadBack
<1>1. IInv => TextsReadBack
  BY DEF IInv, ReadsBack, ReadsBackAt, TextsReadBack
<1> QED BY <1>1, Invariance, PTL

(* check_text_append refuses a text exactly when its normalized bytes do   *)
(* not fit the budget, and the budget is never passed.                     *)
THEOREM BudgetIsExact == Spec => []BudgetExact
BY Invariance, InvGivesBudget, PTL

================================================================================
