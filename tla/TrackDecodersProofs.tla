--------------------------- MODULE TrackDecodersProofs --------------------------
(***************************************************************************)
(* What the run of TrackDecoders checks holds for every file: the cursors  *)
(* stay in it, the second pass of parse_smf fits what the first counted,   *)
(* the three decoders agree, running status is that of the last channel    *)
(* event, every step reads, the stored records read back the file, with    *)
(* the heads of their chunks they account for every byte of it, and a      *)
(* Python caller sees what the score parser reads (SmfRecords).            *)
(*                                                                         *)
(* What a decoder reads next depends on its cursors, its running status    *)
(* and its header alone.  So a file has one walk: the positions met by     *)
(* iterating Onto from WalkStart, until one is finished or refused.  The   *)
(* invariant says that each decoder stands somewhere on that walk, with    *)
(* just the events read so far counted, stored or heard, and that a        *)
(* decoder that has answered came to its end, or stopped earlier for a     *)
(* reason of its own: the score parser at a meta event of a wrong length,  *)
(* either parser at what is too large for 32 bits.  A walk has one end, so *)
(* that all other answers are about the same position.                     *)
(*                                                                         *)
(* First come the readers of Cursor and the chunk and event readers (what  *)
(* each returns and that it reads on), then positions and the walk, then   *)
(* the invariant and the actions.  Last come the records of OwnedSmf: the  *)
(* ranges of the tracks, where the payload of a record lies, what is told  *)
(* of the records, and the bytes they stand for in the file.               *)
(***************************************************************************)
EXTENDS SmfRecords, OrderingProofs, SequenceTheorems, TLAPS

Byte == 0..255

(* What the three copies of SmfReaders come to is one reader of headers,   *)
(* chunk heads and events, which the proofs are about; that each copy is   *)
(* this reader is shown once (HeaderIs, ChunkIs, EventIs).                 *)

Expect(tag, read, at) ==
    Then(read, LAMBDA r : IF r.value = tag THEN r ELSE Error("ExpectedChunk", at))
HeaderBody(size, at) ==
    IF size.value < 6 THEN Error("HeaderTooShort", at)
    ELSE Then(TakeCursor(size.cursor, size.value), LAMBDA b : ScanFields(b.value, b.cursor))
CheckedHeader(c) ==
    Then(Expect(Mthd, ReadTag(c), AbsoluteOffset(c)), LAMBDA tag :
        Then(ReadU32(tag.cursor), LAMBDA size : HeaderBody(size, AbsoluteOffset(tag.cursor))))

SizedBody(tag) ==
    Then(tag, LAMBDA t : Then(ReadU32(t.cursor), LAMBDA size : TakeCursor(size.cursor, size.value)))
CheckedTag(c) == Expect(Mtrk, ReadTag(c), AbsoluteOffset(c))

ReadDataByte(c) == Then(ReadU8(c), LAMBDA b : ValidDataByte(b.value, AbsoluteOffset(c), b.cursor))
DataLength(status) == IF status \div 16 \in {12, 13} THEN 1 ELSE 2
ChannelData(c, first, status) ==
    Then(IF first = <<>> THEN ReadDataByte(c) ELSE Read(first[1], c), LAMBDA one :
        IF DataLength(status) = 1 THEN Body(0, <<one.value>>, 0, one.cursor)
        ELSE Then(ReadDataByte(one.cursor), LAMBDA two :
                 Body(0, <<one.value, two.value>>, 0, two.cursor)))
VariableData(c, status) ==
    Then(IF status = 255 THEN ReadU8(c) ELSE Read(0, c), LAMBDA type :
        Then(ReadVlq(type.cursor), LAMBDA length :
            Then(Take(length.cursor, length.value), LAMBDA payload :
                Body(type.value, payload.value, AbsoluteOffset(length.cursor), payload.cursor))))

RunningAfter(status) == IF status < 240 THEN status ELSE NoStatus
Finishes(from, delta, status, offset, body) ==
    Then(body, LAMBDA b :
        Read([event |-> Event(delta, status, offset, b.value, from, AbsoluteOffset(b.cursor)),
              running |-> RunningAfter(status)], b.cursor))
Dispatch(from, delta, status, first, offset, c) ==
    IF IsChannel(status)
    THEN Finishes(from, delta, status, offset, ChannelData(c, first, status))
    ELSE IF status \in {240, 247, 255}
    THEN Finishes(from, delta, status, offset, VariableData(c, status))
    ELSE Error("InvalidStatus", offset)
FirstByte(from, run, delta, offset, byte) ==
    IF byte.value >= 128 THEN Dispatch(from, delta, byte.value, <<>>, offset, byte.cursor)
    ELSE IF run # NoStatus THEN Dispatch(from, delta, run, <<byte.value>>, offset, byte.cursor)
    ELSE Error("RunningStatusMissing", offset)
ReadEvent(c, run) ==
    Then(ReadVlq(c), LAMBDA delta :
        Then(ReadU8(delta.cursor), LAMBDA byte :
            FirstByte(AbsoluteOffset(c), run, delta.value, AbsoluteOffset(delta.cursor), byte)))

(* A cursor inside its bytes. *)
IsCursor(c) ==
    /\ c \in [data : Seq(Byte), position : Nat, base : Nat]
    /\ c.position <= Len(c.data)

(* The same cursor, as far or farther. *)
Onward(c, d) == IsCursor(d) /\ d.data = c.data /\ d.base = c.base /\ d.position >= c.position

ReadErrors ==
    {"UnexpectedEnd", "VariableLengthQuantityTooLong", "InvalidDataByte", "ExpectedChunk",
     "InvalidFormat", "HeaderTooShort", "InvalidStatus", "RunningStatusMissing"}

IsError(e, at) ==
    /\ e = [ok |-> FALSE, kind |-> e.kind, offset |-> e.offset]
    /\ e.kind \in ReadErrors /\ e.offset \in Nat /\ at <= e.offset

(* A read from c goes on, or fails at c or behind. *)
ReadsOn(r, c) ==
    \/ r.ok = TRUE /\ Onward(c, r.cursor)
    \/ r.ok = FALSE /\ IsError(r, AbsoluteOffset(c))

Spells(digits, base, f) ==
    f = [n \in 0..Len(digits) |-> IF n = 0 THEN 0 ELSE f[n - 1] * base + digits[n]]

(* The value of digits is found one after the other.                       *)
LEMMA SpelledUnrolls ==
    ASSUME NEW digits \in Seq(Nat), NEW base \in Nat
    PROVE  \E f : Spelled(digits, base) = f[Len(digits)] /\ Spells(digits, base, f)
<1> DEFINE N == Len(digits)
<1>1. N \in Nat /\ \A n \in 1..N : digits[n] \in Nat
  BY LenProperties
<1>2. \E f : Spells(digits, base, f)
  <2> DEFINE T == {m \in Nat : \E f : f = [n \in 0..m |-> IF n = 0 THEN 0 ELSE f[n - 1] * base + digits[n]]}
  <2>1. 0 \in T
    <3> DEFINE f == [n \in 0..0 |-> 0]
    <3>1. f = [n \in 0..0 |-> IF n = 0 THEN 0 ELSE f[n - 1] * base + digits[n]]
      OBVIOUS
    <3> HIDE DEF f
    <3> QED BY <3>1
  <2>2. ASSUME NEW m \in Nat, m \in T
        PROVE  m + 1 \in T
    <3>1. PICK f : f = [n \in 0..m |-> IF n = 0 THEN 0 ELSE f[n - 1] * base + digits[n]]
      BY <2>2
    <3> DEFINE g == [n \in 0..(m + 1) |-> IF n = m + 1 THEN f[m] * base + digits[m + 1] ELSE f[n]]
               h == [n \in 0..(m + 1) |-> IF n = 0 THEN 0 ELSE g[n - 1] * base + digits[n]]
    <3>2. \A n \in 0..m : f[n] = IF n = 0 THEN 0 ELSE f[n - 1] * base + digits[n]
      BY <3>1
    <3>3. ASSUME NEW n \in 0..(m + 1)
          PROVE  g[n] = h[n]
      <4>1. CASE n = m + 1
        <5>1. n # 0 /\ n - 1 = m /\ m \in 0..(m + 1) /\ m # m + 1
          BY <4>1
        <5>2. g[m] = f[m]
          BY <5>1
        <5>3. g[n] = f[m] * base + digits[m + 1]
          BY <4>1
        <5>4. h[n] = g[n - 1] * base + digits[n]
          BY <5>1
        <5> QED BY <4>1, <5>1, <5>2, <5>3, <5>4
      <4>2. CASE n # m + 1 /\ n # 0
        <5>1. n \in 0..m /\ n - 1 \in 0..(m + 1) /\ n - 1 # m + 1
          BY <4>2
        <5>2. g[n - 1] = f[n - 1] /\ g[n] = f[n]
          BY <4>2, <5>1
        <5> QED BY <3>2, <4>2, <5>1, <5>2
      <4>3. CASE n = 0
        BY <3>2, <4>3
      <4> QED BY <4>1, <4>2, <4>3
    <3>4. g = h
      BY <3>3
    <3> HIDE DEF g
    <3> QED BY <3>4
  <2> HIDE DEF T
  <2>3. Nat \subseteq T
    BY <2>1, <2>2, SetInduction
  <2> QED BY <1>1, <2>3 DEF T, Spells
<1> DEFINE f == CHOOSE g : g = [n \in 0..Len(digits) |-> IF n = 0 THEN 0 ELSE g[n - 1] * base + digits[n]]
<1>3. Spelled(digits, base) = f[N]
  BY DEF Spelled
<1>4. Spells(digits, base, f)
  BY <1>2 DEF Spells
<1> QED BY <1>3, <1>4 DEF N

(* Digits spell a number.                                                  *)
LEMMA SpelledType ==
    ASSUME NEW digits \in Seq(Nat), NEW base \in Nat
    PROVE  Spelled(digits, base) \in Nat
<1> DEFINE N == Len(digits)
<1>1. N \in Nat /\ \A n \in 1..N : digits[n] \in Nat
  BY LenProperties
<1>2. PICK f : Spelled(digits, base) = f[N] /\ Spells(digits, base, f)
  BY SpelledUnrolls
<1>3. \A n \in 0..N : f[n] = IF n = 0 THEN 0 ELSE f[n - 1] * base + digits[n]
  BY <1>2 DEF Spells
<1> HIDE DEF N
<1> DEFINE T == {m \in Nat : m <= N => f[m] \in Nat}
<1>4. 0 \in T
  BY <1>1, <1>3
<1>5. ASSUME NEW m \in Nat, m \in T
      PROVE  m + 1 \in T
  <2> SUFFICES ASSUME m + 1 <= N
               PROVE  f[m + 1] \in Nat
    OBVIOUS
  <2>1. f[m] \in Nat /\ digits[m + 1] \in Nat /\ m + 1 \in 0..N /\ m + 1 # 0 /\ (m + 1) - 1 = m
    BY <1>1, <1>5
  <2>2. f[m + 1] = f[m] * base + digits[m + 1]
    BY <1>3, <2>1
  <2>3. \A x, z \in Nat : x * base + z \in Nat
    OBVIOUS
  <2> QED BY <2>1, <2>2, <2>3, Zenon
<1> HIDE DEF T
<1>6. Nat \subseteq T
  BY <1>4, <1>5, SetInduction
<1> QED BY <1>1, <1>2, <1>6 DEF T

(* take.                                                                   *)
LEMMA TakeReads ==
    ASSUME NEW c, IsCursor(c), NEW size \in Nat
    PROVE  LET r == Take(c, size)
           IN  /\ ReadsOn(r, c) /\ (r.ok = TRUE <=> size <= Remaining(c))
               /\ r.ok = TRUE =>
                     /\ r.value \in Seq(Byte) /\ Len(r.value) = size
                     /\ r.value = SubSeq(c.data, c.position + 1, c.position + size)
                     /\ r.cursor.position = c.position + size
<1> DEFINE r == Take(c, size)
<1>1. /\ c \in [data : Seq(Byte), position : Nat, base : Nat] /\ c.position \in Nat /\ c.base \in Nat
      /\ c.data \in Seq(Byte) /\ Len(c.data) \in Nat /\ c.position <= Len(c.data)
  BY LenProperties DEF IsCursor
<1>2. CASE size > Remaining(c)
  <2>1. r = [ok |-> FALSE, kind |-> "UnexpectedEnd", offset |-> AbsoluteOffset(c)]
    BY <1>2 DEF Take, Error
  <2>2. AbsoluteOffset(c) \in Nat
    BY <1>1 DEF AbsoluteOffset
  <2>3. ~(size <= Remaining(c)) /\ r.ok = FALSE
    BY <1>1, <1>2, <2>1 DEF Remaining
  <2> QED BY <2>1, <2>2, <2>3 DEF ReadsOn, IsError, ReadErrors
<1>3. CASE ~(size > Remaining(c))
  <2>1. c.position + size <= Len(c.data)
    BY <1>1, <1>3 DEF Remaining
  <2>2. r = [ok |-> TRUE, value |-> SubSeq(c.data, c.position + 1, c.position + size),
             cursor |-> [c EXCEPT !.position = c.position + size]]
    BY <1>3 DEF Take, Read
  <2>3. PICK d : d = [c EXCEPT !.position = c.position + size]
    OBVIOUS
  <2>4. d.data = c.data /\ d.base = c.base /\ d.position = c.position + size
        /\ d \in [data : Seq(Byte), position : Nat, base : Nat]
    BY <1>1, <2>3
  <2>5. Onward(c, d)
    BY <1>1, <2>1, <2>4 DEF Onward, IsCursor
  <2>6. PICK v : v = SubSeq(c.data, c.position + 1, c.position + size)
    OBVIOUS
  <2>7. v \in Seq(Byte) /\ Len(v) = size
    <3>1. \A i \in (c.position + 1)..(c.position + size) : c.data[i] \in Byte
      <4>1. \A i \in 1..Len(c.data) : c.data[i] \in Byte
        BY <1>1, LenProperties
      <4> QED BY <1>1, <2>1, <4>1
    <3>2. c.position + 1 \in Int /\ c.position + size \in Int
      BY <1>1
    <3>3. SubSeq(c.data, c.position + 1, c.position + size) \in Seq(Byte)
      BY <3>1, <3>2, SubSeqProperties
    <3>4. Len(SubSeq(c.data, c.position + 1, c.position + size)) = size
      BY <1>1, <2>1
    <3> QED BY <2>6, <3>3, <3>4
  <2>8. r.ok = TRUE /\ r.value = v /\ r.cursor = d
    <3>1. r = [ok |-> TRUE, value |-> v, cursor |-> d]
      BY <2>2, <2>3, <2>6
    <3> HIDE DEF r
    <3> QED BY <3>1
  <2>9. size <= Remaining(c)
    BY <1>1, <2>1 DEF Remaining
  <2> QED BY <2>4, <2>5, <2>6, <2>7, <2>8, <2>9 DEF ReadsOn
<1> QED BY <1>2, <1>3

(* A byte.                                                                 *)
LEMMA U8Reads ==
    ASSUME NEW c, IsCursor(c)
    PROVE  LET r == ReadU8(c)
           IN  /\ ReadsOn(r, c)
               /\ r.ok = TRUE => r.value \in Byte /\ r.cursor.position = c.position + 1
<1> DEFINE r == ReadU8(c)
<1>1. /\ c \in [data : Seq(Byte), position : Nat, base : Nat] /\ c.position \in Nat /\ c.base \in Nat
      /\ c.data \in Seq(Byte) /\ Len(c.data) \in Nat /\ c.position <= Len(c.data)
  BY LenProperties DEF IsCursor
<1>2. CASE Remaining(c) = 0
  <2>1. r = [ok |-> FALSE, kind |-> "UnexpectedEnd", offset |-> AbsoluteOffset(c)]
    BY <1>2 DEF ReadU8, Error
  <2>2. AbsoluteOffset(c) \in Nat
    BY <1>1 DEF AbsoluteOffset
  <2> QED BY <2>1, <2>2 DEF ReadsOn, IsError, ReadErrors
<1>3. CASE Remaining(c) # 0
  <2>1. c.position + 1 <= Len(c.data)
    BY <1>1, <1>3 DEF Remaining
  <2>2. r = [ok |-> TRUE, value |-> c.data[c.position + 1],
             cursor |-> [c EXCEPT !.position = c.position + 1]]
    BY <1>3 DEF ReadU8, Read
  <2>3. PICK d : d = [c EXCEPT !.position = c.position + 1]
    OBVIOUS
  <2>4. d.data = c.data /\ d.base = c.base /\ d.position = c.position + 1
        /\ d \in [data : Seq(Byte), position : Nat, base : Nat]
    BY <1>1, <2>3
  <2>5. Onward(c, d)
    BY <1>1, <2>1, <2>4 DEF Onward, IsCursor
  <2>6. c.data[c.position + 1] \in Byte
    BY <1>1, <2>1
  <2>7. r.ok = TRUE /\ r.value = c.data[c.position + 1] /\ r.cursor = d
    BY <2>2, <2>3
  <2> QED BY <2>4, <2>5, <2>6, <2>7 DEF ReadsOn
<1> QED BY <1>2, <1>3

(* A byte of a channel message.                                            *)
LEMMA DataByteReads ==
    ASSUME NEW c, IsCursor(c)
    PROVE  LET r == ReadDataByte(c)
           IN  /\ ReadsOn(r, c)
               /\ r.ok = TRUE => /\ r.value \in 0..127 /\ r.value \in Byte
                                 /\ r.cursor.position = c.position + 1
<1> DEFINE b == ReadU8(c)
           r == ReadDataByte(c)
<1>1. /\ ReadsOn(b, c)
      /\ b.ok = TRUE => b.value \in Byte /\ b.cursor.position = c.position + 1
  BY U8Reads
<1>2. r = IF b.ok THEN IF b.value < 128 THEN Read(b.value, b.cursor)
                       ELSE Error("InvalidDataByte", AbsoluteOffset(c))
          ELSE b
  BY DEF ReadDataByte, ValidDataByte, Then
<1> HIDE DEF b, r
<1>3. CASE b.ok = TRUE /\ ~(b.value < 128)
  <2>1. r = [ok |-> FALSE, kind |-> "InvalidDataByte", offset |-> AbsoluteOffset(c)]
    BY <1>2, <1>3 DEF Error
  <2>2. AbsoluteOffset(c) \in Nat
    BY DEF AbsoluteOffset, IsCursor
  <2> QED BY <2>1, <2>2 DEF ReadsOn, IsError, ReadErrors, r
<1>4. CASE b.ok = TRUE /\ b.value < 128
  <2>1. r = [ok |-> TRUE, value |-> b.value, cursor |-> b.cursor]
    BY <1>2, <1>4 DEF Read
  <2>2. r.ok = TRUE /\ r.value = b.value /\ r.cursor = b.cursor
    BY <2>1
  <2>3. b.value \in 0..127
    BY <1>1, <1>4 DEF Byte
  <2> QED BY <1>1, <1>4, <2>2, <2>3 DEF ReadsOn, r
<1>5. CASE b.ok = FALSE
  BY <1>1, <1>2, <1>5 DEF ReadsOn, r
<1> QED BY <1>1, <1>3, <1>4, <1>5 DEF ReadsOn

(* A big-endian integer.                                                   *)
LEMMA IntegerReads ==
    ASSUME NEW c, IsCursor(c), NEW width \in Nat
    PROVE  LET r == ReadInteger(c, width)
           IN  /\ ReadsOn(r, c) /\ (r.ok = TRUE <=> width <= Remaining(c))
               /\ r.ok = TRUE => r.value \in Nat /\ r.cursor.position = c.position + width
<1> DEFINE b == Take(c, width)
           r == ReadInteger(c, width)
<1>1. /\ ReadsOn(b, c) /\ (b.ok = TRUE <=> width <= Remaining(c))
      /\ b.ok = TRUE => b.value \in Seq(Byte) /\ b.cursor.position = c.position + width
  BY TakeReads
<1>2. r = IF b.ok THEN Read(BigEndian(b.value), b.cursor) ELSE b
  BY DEF ReadInteger, Then
<1> HIDE DEF b, r
<1>3. CASE b.ok = TRUE
  <2>1. b.value \in Seq(Nat)
    <3>1. b.value \in Seq(Byte) /\ Byte \subseteq Nat
      BY <1>1, <1>3 DEF Byte
    <3> QED BY <3>1, SeqMonotonic
  <2>2. BigEndian(b.value) \in Nat
    BY <2>1, SpelledType DEF BigEndian
  <2>3. r = [ok |-> TRUE, value |-> BigEndian(b.value), cursor |-> b.cursor]
    BY <1>2, <1>3 DEF Read
  <2>4. r.ok = TRUE /\ r.value = BigEndian(b.value) /\ r.cursor = b.cursor
    BY <2>3
  <2> QED BY <1>1, <1>3, <2>2, <2>4 DEF ReadsOn, r
<1>4. CASE b.ok = FALSE
  BY <1>1, <1>2, <1>4 DEF ReadsOn, r
<1> QED BY <1>1, <1>3, <1>4 DEF ReadsOn

(* A variable-length quantity has a byte at least.                         *)
LEMMA VlqReads ==
    ASSUME NEW c, IsCursor(c)
    PROVE  LET r == ReadVlq(c)
           IN  /\ ReadsOn(r, c)
               /\ r.ok = TRUE => r.value \in Nat /\ r.cursor.position > c.position
<1> DEFINE r == ReadVlq(c)
           Digit(i) == c.data[c.position + i]
           available == IF Remaining(c) < VlqMax THEN Remaining(c) ELSE VlqMax
           last == {i \in 1..available : Digit(i) < 128}
           first == CHOOSE i \in last : \A j \in last : i <= j
           digits == [i \in 1..first |-> Digit(i) % 128]
<1>1. /\ c \in [data : Seq(Byte), position : Nat, base : Nat] /\ c.position \in Nat /\ c.base \in Nat
      /\ c.data \in Seq(Byte) /\ Len(c.data) \in Nat /\ c.position <= Len(c.data)
  BY LenProperties DEF IsCursor
<1>2. available \in Nat /\ c.position + available <= Len(c.data)
  BY <1>1 DEF Remaining, VlqMax
<1>3. r = IF last # {} THEN Read(Spelled(digits, 128), [c EXCEPT !.position = c.position + first])
          ELSE IF available < VlqMax THEN Error("UnexpectedEnd", AbsoluteOffset(c) + available)
          ELSE Error("VariableLengthQuantityTooLong", AbsoluteOffset(c))
  BY DEF ReadVlq
<1>4. last \subseteq 1..available
  OBVIOUS
<1>5. AbsoluteOffset(c) \in Nat
  BY <1>1 DEF AbsoluteOffset
<1> HIDE DEF r, available
<1>6. CASE last # {}
  <2>1. last \subseteq Nat
    BY <1>2, <1>4
  <2> HIDE DEF last
  <2>2. \E i \in last : \A j \in last : i <= j
    BY <1>6, <2>1, LeastNumber
  <2>3. first \in last
    BY <2>2
  <2> HIDE DEF first
  <2>4. first \in 1..available
    BY <1>4, <2>3
  <2>5. digits \in Seq(Nat)
    <3>1. \A i \in 1..first : Digit(i) % 128 \in Nat
      <4>1. ASSUME NEW i \in 1..first
            PROVE  Digit(i) % 128 \in Nat
        <5>1. c.position + i \in 1..Len(c.data)
          BY <1>1, <1>2, <2>4
        <5>2. Digit(i) \in 0..255
          <6>1. \A j \in 1..Len(c.data) : c.data[j] \in Byte
            BY <1>1, LenProperties
          <6> QED BY <5>1, <6>1 DEF Byte
        <5> HIDE DEF Digit
        <5> QED BY <5>2
      <4> QED BY <4>1
    <3>2. first \in Nat
      BY <1>2, <2>4
    <3> HIDE DEF Digit
    <3> QED BY <3>1, <3>2
  <2> HIDE DEF digits
  <2>6. Spelled(digits, 128) \in Nat
    BY <2>5, SpelledType
  <2>7. PICK d : d = [c EXCEPT !.position = c.position + first]
    OBVIOUS
  <2>8. /\ d.data = c.data /\ d.base = c.base /\ d.position = c.position + first
        /\ d \in [data : Seq(Byte), position : Nat, base : Nat]
    BY <1>1, <1>2, <2>4, <2>7
  <2>9. Onward(c, d) /\ d.position > c.position
    BY <1>1, <1>2, <2>4, <2>8 DEF Onward, IsCursor
  <2>10. r.ok = TRUE /\ r.value = Spelled(digits, 128) /\ r.cursor = d
    <3>1. r = [ok |-> TRUE, value |-> Spelled(digits, 128), cursor |-> d]
      BY <1>3, <1>6, <2>7 DEF Read
    <3> QED BY <3>1
  <2> QED BY <2>6, <2>9, <2>10 DEF ReadsOn, r
<1>7. CASE last = {}
  <2> HIDE DEF last
  <2>1. CASE available < VlqMax
    <3>1. r = [ok |-> FALSE, kind |-> "UnexpectedEnd", offset |-> AbsoluteOffset(c) + available]
      BY <1>3, <1>7, <2>1 DEF Error
    <3>2. AbsoluteOffset(c) + available \in Nat /\ AbsoluteOffset(c) <= AbsoluteOffset(c) + available
      BY <1>2, <1>5
    <3> QED BY <3>1, <3>2 DEF ReadsOn, IsError, ReadErrors, r
  <2>2. CASE ~(available < VlqMax)
    <3>1. r = [ok |-> FALSE, kind |-> "VariableLengthQuantityTooLong", offset |-> AbsoluteOffset(c)]
      BY <1>3, <1>7, <2>2 DEF Error
    <3> QED BY <1>5, <3>1 DEF ReadsOn, IsError, ReadErrors, r
  <2> QED BY <2>1, <2>2
<1> QED BY <1>6, <1>7

(* A cursor over the next bytes.                                           *)
LEMMA TakeCursorReads ==
    ASSUME NEW c, IsCursor(c), NEW size \in Nat
    PROVE  LET r == TakeCursor(c, size)
           IN  /\ ReadsOn(r, c)
               /\ r.ok = TRUE =>
                     /\ IsCursor(r.value) /\ r.value.position = 0
                     /\ r.value.base = AbsoluteOffset(c) /\ Len(r.value.data) = size
                     /\ r.value.data = SubSeq(c.data, c.position + 1, c.position + size)
                     /\ r.cursor.position = c.position + size
                     /\ Take(c, size).ok = TRUE /\ Take(c, size).cursor = r.cursor
<1> DEFINE b == Take(c, size)
           r == TakeCursor(c, size)
<1>1. /\ ReadsOn(b, c)
      /\ b.ok = TRUE => /\ b.value \in Seq(Byte) /\ Len(b.value) = size
                        /\ b.value = SubSeq(c.data, c.position + 1, c.position + size)
                        /\ b.cursor.position = c.position + size
  BY TakeReads
<1>2. r = IF b.ok THEN Read(CursorAt(b.value, AbsoluteOffset(c)), b.cursor) ELSE b
  BY DEF TakeCursor, Then
<1>3. AbsoluteOffset(c) \in Nat
  BY DEF AbsoluteOffset, IsCursor
<1>4. CASE b.ok = TRUE
  <2> HIDE DEF b, r
  <2>1. PICK v : v = CursorAt(b.value, AbsoluteOffset(c))
    OBVIOUS
  <2>2. v = [data |-> b.value, position |-> 0, base |-> AbsoluteOffset(c)]
    BY <2>1 DEF CursorAt
  <2>3. IsCursor(v) /\ v.position = 0 /\ v.data = b.value /\ v.base = AbsoluteOffset(c)
    <3>1. Len(b.value) \in Nat
      BY <1>1, <1>4, LenProperties
    <3> QED BY <1>1, <1>3, <1>4, <2>2, <3>1 DEF IsCursor
  <2>4. r = [ok |-> TRUE, value |-> v, cursor |-> b.cursor]
    BY <1>2, <1>4, <2>1 DEF Read
  <2>5. r.ok = TRUE /\ r.value = v /\ r.cursor = b.cursor
    BY <2>4
  <2> QED BY <1>1, <1>4, <2>3, <2>5 DEF ReadsOn, b, r
<1>5. CASE b.ok = FALSE
  <2> HIDE DEF b, r
  <2> QED BY <1>1, <1>2, <1>5 DEF ReadsOn, r
<1> QED BY <1>1, <1>4, <1>5 DEF ReadsOn

--------------------------------------------------------------------------------

Headers == [format : Nat, tracks : Nat, division : Nat]
Statuses == 128..239 \cup {240, 247, 255}
Runs == {NoStatus} \cup 128..239

(* What is on from there is on from here.                                  *)
LEMMA ReadsFarther ==
    ASSUME NEW c, IsCursor(c), NEW d, Onward(c, d), NEW r, ReadsOn(r, d)
    PROVE  ReadsOn(r, c)
<1>1. /\ c.position \in Nat /\ c.base \in Nat /\ d.position \in Nat /\ d.position >= c.position
      /\ d.base = c.base /\ d.data = c.data /\ AbsoluteOffset(c) <= AbsoluteOffset(d)
      /\ AbsoluteOffset(c) \in Nat /\ AbsoluteOffset(d) \in Nat
  BY DEF Onward, IsCursor, AbsoluteOffset
<1>2. CASE r.ok = TRUE /\ Onward(d, r.cursor)
  <2>1. r.cursor.position \in Nat
    BY <1>2 DEF Onward, IsCursor
  <2>2. Onward(c, r.cursor)
    BY <1>1, <1>2, <2>1 DEF Onward
  <2> QED BY <1>2, <2>2 DEF ReadsOn
<1>3. CASE r.ok = FALSE /\ IsError(r, AbsoluteOffset(d))
  <2>1. IsError(r, AbsoluteOffset(c))
    BY <1>1, <1>3 DEF IsError
  <2> QED BY <1>3, <2>1 DEF ReadsOn
<1> QED BY <1>2, <1>3 DEF ReadsOn

(* An error at a place behind c.                                           *)
LEMMA ErrorReads ==
    ASSUME NEW c, NEW kind \in ReadErrors, NEW at \in Nat, AbsoluteOffset(c) <= at
    PROVE  ReadsOn(Error(kind, at), c) /\ Error(kind, at).ok = FALSE
<1>1. Error(kind, at) = [ok |-> FALSE, kind |-> kind, offset |-> at]
  BY DEF Error
<1> QED BY <1>1 DEF ReadsOn, IsError

(* A tag that is expected is one that is there.                            *)
LEMMA ExpectReads ==
    ASSUME NEW c, IsCursor(c), NEW tag
    PROVE  LET r == Expect(tag, ReadTag(c), AbsoluteOffset(c))
           IN  /\ ReadsOn(r, c)
               /\ r.ok = TRUE => r = Take(c, 4) /\ r.cursor.position = c.position + 4
<1> DEFINE b == Take(c, 4)
           r == Expect(tag, ReadTag(c), AbsoluteOffset(c))
<1>1. ReadsOn(b, c) /\ (b.ok = TRUE => b.cursor.position = c.position + 4)
  BY TakeReads
<1>2. r = IF b.ok THEN (IF b.value = tag THEN b ELSE Error("ExpectedChunk", AbsoluteOffset(c))) ELSE b
  BY DEF Expect, Then, ReadTag
<1>3. AbsoluteOffset(c) \in Nat /\ AbsoluteOffset(c) <= AbsoluteOffset(c)
  BY DEF AbsoluteOffset, IsCursor
<1>4. ReadsOn(Error("ExpectedChunk", AbsoluteOffset(c)), c) /\ Error("ExpectedChunk", AbsoluteOffset(c)).ok = FALSE
  BY <1>3, ErrorReads DEF ReadErrors
<1> HIDE DEF b, r
<1>5. CASE b.ok = TRUE /\ b.value # tag
  BY <1>2, <1>4, <1>5 DEF r
<1>6. CASE ~(b.ok = TRUE /\ b.value # tag)
  BY <1>1, <1>2, <1>6 DEF ReadsOn, r, b
<1> QED BY <1>5, <1>6

(* The fields of a header of six bytes or more.                            *)
LEMMA FieldsRead ==
    ASSUME NEW b, IsCursor(b), b.position = 0, Len(b.data) >= 6, NEW d
    PROVE  LET r == ScanFields(b, d)
           IN  \/ r.ok = TRUE /\ r.cursor = d /\ r.value \in Headers
               \/ r = Error("InvalidFormat", b.base)
<1> DEFINE format == ReadU16(b)
           tracks == ReadU16(format.cursor)
           division == ReadU16(tracks.cursor)
           r == ScanFields(b, d)
<1>1. Len(b.data) \in Nat /\ b.data \in Seq(Byte)
  BY LenProperties DEF IsCursor
<1>2. /\ format.ok = TRUE /\ format.value \in Nat /\ format.cursor.position = 2
      /\ Onward(b, format.cursor)
  <2>1. 2 <= Remaining(b)
    BY <1>1 DEF Remaining
  <2>2. /\ ReadsOn(ReadInteger(b, 2), b) /\ ReadInteger(b, 2).ok = TRUE
        /\ ReadInteger(b, 2).value \in Nat /\ ReadInteger(b, 2).cursor.position = b.position + 2
    BY <2>1, IntegerReads
  <2> QED BY <2>2 DEF ReadU16, ReadsOn
<1> HIDE DEF format
<1>3. /\ tracks.ok = TRUE /\ tracks.value \in Nat /\ tracks.cursor.position = 4
      /\ Onward(b, tracks.cursor)
  <2>1. 2 <= Remaining(format.cursor) /\ IsCursor(format.cursor)
    BY <1>1, <1>2 DEF Remaining, Onward
  <2>2. /\ ReadsOn(tracks, format.cursor) /\ tracks.ok = TRUE
        /\ tracks.value \in Nat /\ tracks.cursor.position = format.cursor.position + 2
    BY <2>1, IntegerReads DEF ReadU16
  <2> HIDE DEF tracks
  <2> QED BY <1>2, <2>2 DEF ReadsOn, Onward
<1> HIDE DEF tracks
<1>4. division.value \in Nat
  <2>1. 2 <= Remaining(tracks.cursor) /\ IsCursor(tracks.cursor)
    BY <1>1, <1>3 DEF Remaining, Onward
  <2> QED BY <2>1, IntegerReads DEF ReadU16
<1>5. r = IF format.value > 2 THEN Error("InvalidFormat", b.base)
          ELSE Read([format |-> format.value, tracks |-> tracks.value,
                     division |-> division.value], d)
  <2>1. division.ok = TRUE
    <3>1. 2 <= Remaining(tracks.cursor) /\ IsCursor(tracks.cursor)
      BY <1>1, <1>3 DEF Remaining, Onward
    <3> QED BY <3>1, IntegerReads DEF ReadU16
  <2> QED BY <1>2, <1>3, <2>1 DEF ScanFields, Then, format, tracks
<1> HIDE DEF division, r
<1>6. CASE format.value > 2
  BY <1>5, <1>6 DEF r
<1>7. CASE ~(format.value > 2)
  <2>1. PICK h : h = [format |-> format.value, tracks |-> tracks.value, division |-> division.value]
    OBVIOUS
  <2>2. h \in Headers
    BY <1>2, <1>3, <1>4, <2>1 DEF Headers
  <2>3. r = [ok |-> TRUE, value |-> h, cursor |-> d]
    BY <1>5, <1>7, <2>1 DEF Read
  <2>4. r.ok = TRUE /\ r.value = h /\ r.cursor = d
    BY <2>3
  <2> QED BY <2>2, <2>4 DEF r
<1> QED BY <1>6, <1>7

(* The body of a header behind its size.                                   *)
LEMMA HeaderBodyReads ==
    ASSUME NEW c, IsCursor(c), NEW size, Onward(c, size.cursor), size.value \in Nat,
           NEW at \in Nat, AbsoluteOffset(c) <= at
    PROVE  LET r == HeaderBody(size, at)
           IN  /\ ReadsOn(r, c)
               /\ r.ok = TRUE => /\ r.value \in Headers
                                 /\ r.cursor.position = size.cursor.position + size.value
                                 /\ Take(size.cursor, size.value).ok = TRUE
                                 /\ Take(size.cursor, size.value).cursor = r.cursor
<1> DEFINE b == TakeCursor(size.cursor, size.value)
           f == ScanFields(b.value, b.cursor)
           r == HeaderBody(size, at)
<1>1. /\ ReadsOn(b, size.cursor)
      /\ b.ok = TRUE =>
            /\ IsCursor(b.value) /\ b.value.position = 0
            /\ b.value.base = AbsoluteOffset(size.cursor) /\ Len(b.value.data) = size.value
            /\ b.cursor.position = size.cursor.position + size.value
            /\ Take(size.cursor, size.value).ok = TRUE
            /\ Take(size.cursor, size.value).cursor = b.cursor
  BY TakeCursorReads DEF Onward
<1>2. r = IF size.value < 6 THEN Error("HeaderTooShort", at) ELSE IF b.ok THEN f ELSE b
  BY DEF HeaderBody, Then
<1>3. CASE size.value < 6
  <2>1. r = Error("HeaderTooShort", at)
    BY <1>2, <1>3
  <2>2. ReadsOn(Error("HeaderTooShort", at), c) /\ Error("HeaderTooShort", at).ok = FALSE
    BY ErrorReads DEF ReadErrors
  <2> QED BY <2>1, <2>2
<1>4. CASE ~(size.value < 6) /\ b.ok = FALSE
  <2> HIDE DEF b
  <2>1. ReadsOn(b, c)
    <3> QED BY <1>1, ReadsFarther
  <2>2. r = b
    BY <1>2, <1>4
  <2> QED BY <1>4, <2>1, <2>2 DEF b
<1>5. CASE ~(size.value < 6) /\ b.ok = TRUE
  <2> HIDE DEF b
  <2>1. r = f
    BY <1>2, <1>5
  <2>2. Len(b.value.data) >= 6
    BY <1>1, <1>5
  <2>3. \/ f.ok = TRUE /\ f.cursor = b.cursor /\ f.value \in Headers
        \/ f = Error("InvalidFormat", b.value.base)
    BY <1>1, <1>5, <2>2, FieldsRead
  <2> HIDE DEF f, r
  <2>4. CASE f.ok = TRUE /\ f.cursor = b.cursor /\ f.value \in Headers
    <3>1. Onward(size.cursor, b.cursor)
      BY <1>1, <1>5 DEF ReadsOn
    <3>2. Onward(c, b.cursor)
      <4>1. c.position \in Int /\ size.cursor.position \in Nat /\ b.cursor.position \in Nat
        BY <3>1 DEF Onward, IsCursor
      <4> QED BY <3>1, <4>1 DEF Onward
    <3> QED BY <1>1, <1>5, <2>1, <2>4, <3>2 DEF ReadsOn, b, r
  <2>5. CASE f = Error("InvalidFormat", b.value.base)
    <3>1. b.value.base \in Nat /\ AbsoluteOffset(c) <= b.value.base
      BY <1>1, <1>5 DEF IsCursor, Onward, AbsoluteOffset
    <3>2. ReadsOn(f, c) /\ f.ok = FALSE
      BY <2>5, <3>1, ErrorReads DEF ReadErrors
    <3> QED BY <2>1, <3>2 DEF r
  <2> QED BY <2>3, <2>4, <2>5
<1>6. b.ok = TRUE \/ b.ok = FALSE
  BY <1>1 DEF ReadsOn
<1> QED BY <1>3, <1>4, <1>5, <1>6

(* The header as scan_smf and the score parser check it, and as parse_smf  *)
(* skips it.                                                               *)
LEMMA HeaderReads ==
    ASSUME NEW c, IsCursor(c)
    PROVE  LET r == CheckedHeader(c)
           IN  /\ ReadsOn(r, c)
               /\ r.ok = TRUE =>
                     /\ r.value \in Headers /\ r.cursor.position > c.position
                     /\ \A h : OwnedHeader(c, h) = Read(h, r.cursor)
<1> DEFINE tag == Expect(Mthd, ReadTag(c), AbsoluteOffset(c))
           size == ReadU32(tag.cursor)
           at == AbsoluteOffset(tag.cursor)
           body == HeaderBody(size, at)
           r == CheckedHeader(c)
<1>1. /\ ReadsOn(tag, c)
      /\ tag.ok = TRUE => tag = Take(c, 4) /\ tag.cursor.position = c.position + 4
  BY ExpectReads
<1>2. r = IF tag.ok THEN (IF size.ok THEN body ELSE size) ELSE tag
  BY DEF CheckedHeader, Then
<1>3. CASE tag.ok = FALSE
  <2> HIDE DEF tag
  <2>1. r = tag
    BY <1>2, <1>3
  <2> QED BY <1>1, <1>3, <2>1
<1>4. CASE tag.ok = TRUE
  <2> HIDE DEF tag
  <2>1. Onward(c, tag.cursor) /\ IsCursor(tag.cursor) /\ c.position \in Nat
    BY <1>1, <1>4 DEF ReadsOn, Onward, IsCursor
  <2>2. /\ ReadsOn(size, tag.cursor)
        /\ size.ok = TRUE => size.value \in Nat /\ size.cursor.position = tag.cursor.position + 4
    BY <2>1, IntegerReads DEF ReadU32
  <2>3. CASE size.ok = FALSE
    <3> HIDE DEF size
    <3>1. r = size
      BY <1>2, <1>4, <2>3
    <3>2. ReadsOn(size, c)
      BY <2>1, <2>2, ReadsFarther
    <3> QED BY <2>3, <3>1, <3>2
  <2>4. CASE size.ok = TRUE
    <3>1. \A h : OwnedHeader(c, h) =
             IF Take(c, 4).ok
             THEN LET s == ReadU32(Take(c, 4).cursor)
                  IN  IF s.ok THEN (LET b == Take(s.cursor, s.value)
                                    IN  IF b.ok THEN Read(h, b.cursor) ELSE b)
                      ELSE s
             ELSE Take(c, 4)
      BY DEF OwnedHeader, Then
    <3>2. Take(size.cursor, size.value).ok = TRUE =>
             \A h : OwnedHeader(c, h) = Read(h, Take(size.cursor, size.value).cursor)
      BY <1>1, <1>4, <2>4, <3>1
    <3> HIDE DEF size
    <3>3. r = body
      BY <1>2, <1>4, <2>4
    <3>4. Onward(c, size.cursor) /\ size.cursor.position = c.position + 8
      <4>1. Onward(tag.cursor, size.cursor)
        BY <2>2, <2>4 DEF ReadsOn
      <4>2. tag.cursor.position = c.position + 4 /\ size.cursor.position = tag.cursor.position + 4
        BY <1>1, <1>4, <2>2, <2>4
      <4> QED BY <2>1, <4>1, <4>2 DEF Onward
    <3>5. at \in Nat /\ AbsoluteOffset(c) <= at
      BY <2>1 DEF Onward, AbsoluteOffset, IsCursor
    <3> HIDE DEF at
    <3>6. /\ ReadsOn(body, c)
          /\ body.ok = TRUE => /\ body.value \in Headers
                               /\ body.cursor.position = size.cursor.position + size.value
                               /\ Take(size.cursor, size.value).ok = TRUE
                               /\ Take(size.cursor, size.value).cursor = body.cursor
      BY <2>2, <2>4, <3>4, <3>5, HeaderBodyReads
    <3> HIDE DEF body, r
    <3>7. ASSUME body.ok = TRUE
          PROVE  /\ body.cursor.position > c.position
                 /\ \A h : OwnedHeader(c, h) = Read(h, body.cursor)
      BY <2>1, <2>2, <2>4, <3>2, <3>4, <3>6, <3>7
    <3> QED BY <3>3, <3>6, <3>7 DEF r
  <2> QED BY <2>2, <2>3, <2>4 DEF ReadsOn
<1> QED BY <1>1, <1>3, <1>4 DEF ReadsOn

(* The bytes of a chunk, with its tag looked at or not.                    *)
LEMMA BodyReads ==
    ASSUME NEW c, IsCursor(c)
    PROVE  LET r == SizedBody(CheckedTag(c))
           IN  /\ ReadsOn(r, c)
               /\ r.ok = TRUE =>
                     /\ IsCursor(r.value) /\ r.value.position = 0
                     /\ r.cursor.position = c.position + 8 + Len(r.value.data)
                     /\ r.value.base = AbsoluteOffset(c) + 8
                     /\ r.value.data = SubSeq(c.data, c.position + 9, c.position + 8 + Len(r.value.data))
                     /\ SizedBody(Take(c, 4)) = r
<1> DEFINE tag == CheckedTag(c)
           size == ReadU32(tag.cursor)
           body == TakeCursor(size.cursor, size.value)
           r == SizedBody(tag)
<1>1. /\ ReadsOn(tag, c)
      /\ tag.ok = TRUE => tag = Take(c, 4) /\ tag.cursor.position = c.position + 4
  BY ExpectReads DEF CheckedTag
<1> HIDE DEF tag
<1>2. r = IF tag.ok THEN (IF size.ok THEN body ELSE size) ELSE tag
  BY DEF SizedBody, Then
<1>3. CASE tag.ok = FALSE
  <2>1. r = tag
    BY <1>2, <1>3
  <2> QED BY <1>1, <1>3, <2>1 DEF tag
<1>4. CASE tag.ok = TRUE
  <2>1. Onward(c, tag.cursor) /\ IsCursor(tag.cursor) /\ c.position \in Nat /\ c.base \in Nat
    BY <1>1, <1>4 DEF ReadsOn, Onward, IsCursor
  <2>2. /\ ReadsOn(size, tag.cursor)
        /\ size.ok = TRUE => size.value \in Nat /\ size.cursor.position = tag.cursor.position + 4
    BY <2>1, IntegerReads DEF ReadU32
  <2> HIDE DEF size
  <2>3. CASE size.ok = FALSE
    <3>1. r = size
      BY <1>2, <1>4, <2>3
    <3>2. ReadsOn(size, c)
      BY <2>1, <2>2, ReadsFarther
    <3> QED BY <2>3, <3>1, <3>2 DEF tag
  <2>4. CASE size.ok = TRUE
    <3>1. SizedBody(Take(c, 4)) = r
      BY <1>1, <1>4
    <3>2. r = body
      BY <1>2, <1>4, <2>4
    <3>3. /\ Onward(c, size.cursor) /\ size.cursor.position = c.position + 8 /\ IsCursor(size.cursor)
          /\ size.cursor.data = c.data /\ AbsoluteOffset(size.cursor) = AbsoluteOffset(c) + 8
      <4>1. Onward(tag.cursor, size.cursor)
        BY <2>2, <2>4 DEF ReadsOn
      <4>2. tag.cursor.position = c.position + 4 /\ size.cursor.position = tag.cursor.position + 4
        BY <1>1, <1>4, <2>2, <2>4
      <4> QED BY <2>1, <4>1, <4>2 DEF Onward, AbsoluteOffset
    <3>4. /\ ReadsOn(body, size.cursor)
          /\ body.ok = TRUE =>
                /\ IsCursor(body.value) /\ body.value.position = 0
                /\ body.value.base = AbsoluteOffset(size.cursor) /\ Len(body.value.data) = size.value
                /\ body.value.data = SubSeq(size.cursor.data, size.cursor.position + 1,
                                            size.cursor.position + size.value)
                /\ body.cursor.position = size.cursor.position + size.value
      <4>1. IsCursor(size.cursor) /\ size.value \in Nat
        BY <2>2, <2>4, <3>3
      <4>2. PICK d, n : d = size.cursor /\ n = size.value /\ IsCursor(d) /\ n \in Nat
        BY <4>1
      <4>3. LET b == TakeCursor(d, n)
            IN  /\ ReadsOn(b, d)
                /\ b.ok = TRUE =>
                      /\ IsCursor(b.value) /\ b.value.position = 0
                      /\ b.value.base = AbsoluteOffset(d) /\ Len(b.value.data) = n
                      /\ b.value.data = SubSeq(d.data, d.position + 1, d.position + n)
                      /\ b.cursor.position = d.position + n
        BY <4>2, TakeCursorReads
      <4> QED BY <4>2, <4>3
    <3> HIDE DEF body, r
    <3>5. ReadsOn(body, c)
      BY <3>3, <3>4, ReadsFarther
    <3>6. ASSUME body.ok = TRUE
          PROVE  /\ body.cursor.position = c.position + 8 + Len(body.value.data)
                 /\ body.value.base = AbsoluteOffset(c) + 8
                 /\ body.value.data = SubSeq(c.data, c.position + 9, c.position + 8 + Len(body.value.data))
      <4>1. size.cursor.position + 1 = c.position + 9
        BY <2>1, <3>3
      <4> QED BY <3>3, <3>4, <3>6, <4>1
    <3> QED BY <3>1, <3>2, <3>4, <3>5, <3>6 DEF r, tag
  <2> QED BY <2>2, <2>3, <2>4 DEF ReadsOn
<1> QED BY <1>1, <1>3, <1>4 DEF ReadsOn

Bodies == [type : Byte, bytes : Seq(Byte), at : Nat]
Events == [delta : Nat, status : Statuses, type : Byte, data : Seq(Byte),
           from : Nat, offset : Nat, at : Nat, to : Nat]

(* The payload that ends where d is, in the bytes of c. *)
Payload(c, bytes, at, d) ==
    /\ c.base <= at /\ at + Len(bytes) = AbsoluteOffset(d)
    /\ bytes = SubSeq(c.data, at - c.base + 1, at - c.base + Len(bytes))

(* What is known of an event that was read from c. *)
EventRead(c, r) ==
    LET e == r.value.event
    IN  /\ e \in Events
        /\ e.from = AbsoluteOffset(c) /\ e.from <= e.offset /\ e.offset < e.to
        /\ e.to = AbsoluteOffset(r.cursor)
        /\ r.value.running = RunningAfter(e.status)
        /\ ~IsChannel(e.status) => Payload(c, e.data, e.at, r.cursor)

(* A cursor that has not moved.                                            *)
LEMMA StayReads ==
    ASSUME NEW c, IsCursor(c), NEW v
    PROVE  ReadsOn(Read(v, c), c)
<1>1. Read(v, c) = [ok |-> TRUE, value |-> v, cursor |-> c]
  BY DEF Read
<1>2. Onward(c, c)
  BY DEF Onward, IsCursor
<1> QED BY <1>1, <1>2 DEF ReadsOn

(* The data bytes of a channel message.                                    *)
LEMMA ChannelReads ==
    ASSUME NEW c, IsCursor(c), NEW first, first = <<>> \/ (\E b \in Byte : first = <<b>>), NEW status
    PROVE  LET r == ChannelData(c, first, status)
           IN  ReadsOn(r, c) /\ (r.ok = TRUE => r.value \in Bodies)
<1> DEFINE one == IF first = <<>> THEN ReadDataByte(c) ELSE Read(first[1], c)
           two == ReadDataByte(one.cursor)
           Data(bytes, after) == Body(0, bytes, 0, after)
           r == ChannelData(c, first, status)
<1>1. r = IF one.ok THEN (IF DataLength(status) = 1 THEN Data(<<one.value>>, one.cursor)
                          ELSE IF two.ok THEN Data(<<one.value, two.value>>, two.cursor) ELSE two)
          ELSE one
  BY DEF ChannelData, Then
<1>2. ReadsOn(one, c) /\ (one.ok = TRUE => one.value \in Byte)
  <2>1. CASE first = <<>>
    BY <2>1, DataByteReads
  <2>2. CASE first # <<>>
    <3>1. PICK b \in Byte : b = first[1]
      BY <2>2
    <3>2. ReadsOn(Read(b, c), c)
      BY StayReads, Zenon
    <3>3. Read(b, c).value = b
      BY DEF Read
    <3> QED BY <2>2, <3>1, <3>2, <3>3
  <2> QED BY <2>1, <2>2
<1> HIDE DEF one
<1>3. ASSUME NEW d, Onward(c, d), NEW bytes \in Seq(Byte)
      PROVE  /\ ReadsOn(Data(bytes, d), c) /\ Data(bytes, d).value \in Bodies
  <2>1. PICK v \in Bodies : v = [type |-> 0, bytes |-> bytes, at |-> 0]
    <3>1. 0 \in Byte
      BY DEF Byte
    <3> QED BY <3>1 DEF Bodies
  <2>2. IsCursor(d)
    BY <1>3 DEF Onward
  <2>5. ReadsOn(Read(v, d), d)
    BY <2>2, StayReads, Zenon
  <2>4. ReadsOn(Read(v, d), d) /\ Read(v, d).value = v
    BY <2>5 DEF Read
  <2>3. ReadsOn(Data(bytes, d), d) /\ Data(bytes, d).value \in Bodies
    BY <2>1, <2>4 DEF Body
  <2> HIDE DEF Data
  <2> QED BY <1>3, <2>3, ReadsFarther
<1>4. CASE one.ok = FALSE
  <2>1. r = one
    BY <1>1, <1>4
  <2> QED BY <1>2, <1>4, <2>1
<1>5. CASE one.ok = TRUE /\ DataLength(status) = 1
  <2>1. r = Data(<<one.value>>, one.cursor)
    BY <1>1, <1>5
  <2>2. Onward(c, one.cursor) /\ <<one.value>> \in Seq(Byte)
    BY <1>2, <1>5 DEF ReadsOn
  <2> HIDE DEF Data, r
  <2>3. ReadsOn(r, c) /\ r.value \in Bodies
    BY <1>3, <2>1, <2>2
  <2> QED BY <2>3 DEF r
<1>6. CASE one.ok = TRUE /\ DataLength(status) # 1
  <2>1. Onward(c, one.cursor) /\ IsCursor(one.cursor)
    BY <1>2, <1>6 DEF ReadsOn, Onward
  <2>2. ReadsOn(two, one.cursor) /\ (two.ok = TRUE => two.value \in Byte)
    BY <2>1, DataByteReads
  <2> HIDE DEF two
  <2>3. ReadsOn(two, c)
    BY <2>1, <2>2, ReadsFarther
  <2>4. CASE two.ok = FALSE
    <3>1. r = two
      BY <1>1, <1>6, <2>4
    <3> QED BY <2>3, <2>4, <3>1
  <2>5. CASE two.ok = TRUE
    <3>1. r = Data(<<one.value, two.value>>, two.cursor)
      BY <1>1, <1>6, <2>5
    <3>2. Onward(c, two.cursor) /\ <<one.value, two.value>> \in Seq(Byte)
      BY <1>2, <1>6, <2>2, <2>3, <2>5 DEF ReadsOn
    <3> HIDE DEF Data, r
    <3>3. ReadsOn(r, c) /\ r.value \in Bodies
      BY <1>3, <3>1, <3>2
    <3> QED BY <3>3 DEF r
  <2> QED BY <2>2, <2>4, <2>5 DEF ReadsOn
<1> QED BY <1>2, <1>4, <1>5, <1>6 DEF ReadsOn

(* The bytes of a meta or SysEx event.                                     *)
LEMMA VariableReads ==
    ASSUME NEW c, IsCursor(c), NEW status
    PROVE  LET r == VariableData(c, status)
           IN  /\ ReadsOn(r, c)
               /\ r.ok = TRUE => /\ r.value \in Bodies
                                 /\ Payload(c, r.value.bytes, r.value.at, r.cursor)
<1> DEFINE type == IF status = 255 THEN ReadU8(c) ELSE Read(0, c)
           length == ReadVlq(type.cursor)
           payload == Take(length.cursor, length.value)
           whole == Read([type |-> type.value, bytes |-> payload.value,
                          at |-> AbsoluteOffset(length.cursor)], payload.cursor)
           r == VariableData(c, status)
<1>1. r = IF type.ok THEN (IF length.ok THEN (IF payload.ok THEN whole ELSE payload) ELSE length)
          ELSE type
  BY DEF VariableData, Then, Body
<1>2. ReadsOn(type, c) /\ (type.ok = TRUE => type.value \in Byte)
  <2>1. 0 \in Byte
    BY DEF Byte
  <2>2. CASE status = 255
    BY <2>2, U8Reads
  <2>3. CASE status # 255
    <3>1. ReadsOn(Read(0, c), c)
      BY StayReads, Zenon
    <3>2. Read(0, c).value = 0
      BY DEF Read
    <3> QED BY <2>1, <2>3, <3>1, <3>2
  <2> QED BY <2>2, <2>3
<1> HIDE DEF type
<1>3. CASE type.ok = FALSE
  <2>1. r = type
    BY <1>1, <1>3
  <2> QED BY <1>2, <1>3, <2>1
<1>4. CASE type.ok = TRUE
  <2>1. Onward(c, type.cursor) /\ IsCursor(type.cursor)
    BY <1>2, <1>4 DEF ReadsOn, Onward
  <2>2. ReadsOn(length, type.cursor) /\ (length.ok = TRUE => length.value \in Nat)
    BY <2>1, VlqReads
  <2> HIDE DEF length
  <2>3. ReadsOn(length, c)
    BY <2>1, <2>2, ReadsFarther
  <2>4. CASE length.ok = FALSE
    <3>1. r = length
      BY <1>1, <1>4, <2>4
    <3> QED BY <2>3, <2>4, <3>1
  <2>5. CASE length.ok = TRUE
    <3>1. Onward(c, length.cursor) /\ IsCursor(length.cursor)
      BY <2>3, <2>5 DEF ReadsOn, Onward
    <3>2. PICK d, n : d = length.cursor /\ n = length.value /\ n \in Nat /\ IsCursor(d) /\ Onward(c, d)
      BY <2>2, <2>5, <3>1
    <3>3. /\ ReadsOn(payload, d)
          /\ payload.ok = TRUE =>
                /\ payload.value \in Seq(Byte) /\ Len(payload.value) = n
                /\ payload.value = SubSeq(d.data, d.position + 1, d.position + n)
                /\ payload.cursor.position = d.position + n
      BY <3>2, TakeReads
    <3> HIDE DEF payload
    <3>4. ReadsOn(payload, c)
      BY <3>2, <3>3, ReadsFarther
    <3>5. CASE payload.ok = FALSE
      <4>1. r = payload
        BY <1>1, <1>4, <2>5, <3>5
      <4> QED BY <3>4, <3>5, <4>1
    <3>6. CASE payload.ok = TRUE
      <4>1. PICK v : v = [type |-> type.value, bytes |-> payload.value, at |-> AbsoluteOffset(d)]
        OBVIOUS
      <4>2. r = Read(v, payload.cursor)
        BY <1>1, <1>4, <2>5, <3>2, <3>6, <4>1
      <4>3. IsCursor(payload.cursor) /\ Onward(c, payload.cursor) /\ Onward(d, payload.cursor)
        BY <3>3, <3>4, <3>6 DEF ReadsOn, Onward
      <4>4. ReadsOn(r, payload.cursor) /\ r.value = v /\ r.cursor = payload.cursor
        <5>1. PICK p : p = payload.cursor /\ IsCursor(p)
          BY <4>3
        <5>3. ReadsOn(Read(v, p), p)
          BY <5>1, StayReads, Zenon
        <5>2. ReadsOn(Read(v, p), p) /\ Read(v, p).value = v /\ Read(v, p).cursor = p
          BY <5>3 DEF Read
        <5> HIDE DEF r
        <5> QED BY <4>2, <5>1, <5>2
      <4>5. ReadsOn(r, c)
        BY <4>3, <4>4, ReadsFarther
      <4>6. /\ c.base \in Nat /\ d.position \in Nat /\ AbsoluteOffset(d) = c.base + d.position
            /\ AbsoluteOffset(payload.cursor) = c.base + d.position + n
            /\ d.data = c.data
        <5>1. c.base \in Nat /\ d.position \in Nat /\ d.base = c.base /\ d.data = c.data
          BY <3>2 DEF Onward, IsCursor
        <5>2. payload.cursor.base = c.base
          BY <4>3 DEF Onward
        <5>3. payload.cursor.position = d.position + n
          BY <3>3, <3>6
        <5>4. n \in Nat
          BY <3>2
        <5> QED BY <5>1, <5>2, <5>3, <5>4 DEF AbsoluteOffset
      <4>7. v \in Bodies /\ v.at = AbsoluteOffset(d) /\ v.bytes = payload.value
        BY <1>2, <1>4, <3>3, <3>6, <4>1, <4>6 DEF Bodies
      <4>8. Payload(c, v.bytes, v.at, payload.cursor)
        <5>1. v.at - c.base = d.position /\ c.base <= v.at /\ v.at + n = AbsoluteOffset(payload.cursor)
          BY <3>2, <4>6, <4>7
        <5> QED BY <3>3, <3>6, <4>6, <4>7, <5>1 DEF Payload
      <4> HIDE DEF r
      <4> QED BY <4>4, <4>5, <4>7, <4>8 DEF r
    <3> QED BY <3>3, <3>5, <3>6 DEF ReadsOn
  <2> QED BY <2>2, <2>4, <2>5 DEF ReadsOn
<1> QED BY <1>2, <1>3, <1>4 DEF ReadsOn

(* A byte behind a delta time, and the body that is read behind it.        *)
BodyRead(c, d, offset, status, body) ==
    /\ IsCursor(c) /\ Onward(c, d) /\ ReadsOn(body, d)
    /\ offset \in Nat /\ AbsoluteOffset(c) <= offset /\ offset < AbsoluteOffset(d)
    /\ body.ok = TRUE => /\ body.value \in Bodies
                         /\ ~IsChannel(status) =>
                               Payload(d, body.value.bytes, body.value.at, body.cursor)

IsRead(c, r) ==
    /\ ReadsOn(r, c)
    /\ r.ok = TRUE => EventRead(c, r) /\ r.cursor.position > c.position

(* An event whose body was read.                                           *)
LEMMA FinishesReads ==
    ASSUME NEW c, NEW d, NEW offset, NEW status \in Statuses, NEW body, NEW delta \in Nat,
           BodyRead(c, d, offset, status, body)
    PROVE  IsRead(c, Finishes(AbsoluteOffset(c), delta, status, offset, body))
<1> DEFINE from == AbsoluteOffset(c)
           e == Event(delta, status, offset, body.value, from, AbsoluteOffset(body.cursor))
           r == Finishes(from, delta, status, offset, body)
<1>1. r = IF body.ok THEN Read([event |-> e, running |-> RunningAfter(status)], body.cursor) ELSE body
  BY DEF Finishes, Then
<1>2. IsCursor(c) /\ Onward(c, d) /\ ReadsOn(body, d)
  BY DEF BodyRead
<1>3. ReadsOn(body, c)
  BY <1>2, ReadsFarther
<1>4. CASE body.ok = FALSE
  <2>1. r = body
    BY <1>1, <1>4
  <2> HIDE DEF r
  <2> QED BY <1>3, <1>4, <2>1 DEF IsRead, r
<1>5. CASE body.ok = TRUE
  <2>1. PICK p, v : p = body.cursor /\ v = [event |-> e, running |-> RunningAfter(status)]
    OBVIOUS
  <2>2. r = Read(v, p)
    BY <1>1, <1>5, <2>1
  <2>3. r.ok = TRUE /\ r.value = v /\ r.cursor = p
    BY <2>2 DEF Read
  <2>4. Onward(c, p) /\ Onward(d, p)
    BY <1>2, <1>3, <1>5, <2>1 DEF ReadsOn
  <2>5. /\ c.position \in Nat /\ c.base \in Nat /\ d.position \in Nat /\ p.position \in Nat
        /\ d.base = c.base /\ p.base = c.base /\ p.position >= d.position
        /\ d.data = c.data
        /\ AbsoluteOffset(c) = c.base + c.position /\ AbsoluteOffset(d) = c.base + d.position
        /\ AbsoluteOffset(p) = c.base + p.position
    BY <1>2, <2>4 DEF Onward, IsCursor, AbsoluteOffset
  <2>6. /\ offset \in Nat /\ c.base + c.position <= offset /\ offset < c.base + d.position
        /\ body.value \in Bodies
    BY <1>5, <2>5 DEF BodyRead
  <2>7. p.position > c.position /\ offset < AbsoluteOffset(p) /\ from <= offset
    BY <2>5, <2>6
  <2>8. /\ e.delta = delta /\ e.status = status /\ e.type = body.value.type /\ e.data = body.value.bytes
        /\ e.from = from /\ e.offset = offset /\ e.at = body.value.at /\ e.to = AbsoluteOffset(p)
    BY <2>1 DEF Event
  <2>9. e \in Events
    <3>1. body.value.type \in Byte /\ body.value.bytes \in Seq(Byte) /\ body.value.at \in Nat
      BY <2>6 DEF Bodies
    <3>2. from \in Nat /\ AbsoluteOffset(p) \in Nat
      BY <2>5
    <3>3. e = [delta |-> delta, status |-> status, type |-> body.value.type, data |-> body.value.bytes,
               from |-> from, offset |-> offset, at |-> body.value.at, to |-> AbsoluteOffset(p)]
      BY <2>1 DEF Event
    <3> HIDE DEF e, from
    <3> QED BY <2>6, <3>1, <3>2, <3>3 DEF Events
  <2>10. ~IsChannel(status) => Payload(c, body.value.bytes, body.value.at, p)
    <3>1. ASSUME ~IsChannel(status)
          PROVE  Payload(d, body.value.bytes, body.value.at, p)
      BY <1>5, <2>1, <3>1 DEF BodyRead
    <3> QED BY <2>5, <3>1 DEF Payload
  <2>11. v.event = e /\ v.running = RunningAfter(status)
    BY <2>1
  <2> HIDE DEF e, r, from
  <2>12. EventRead(c, r)
    <3>1. r.value.event = e /\ r.value.running = RunningAfter(e.status) /\ r.cursor = p
      BY <2>3, <2>8, <2>11
    <3>2. e.from = AbsoluteOffset(c) /\ e.from <= e.offset /\ e.offset < e.to /\ e.to = AbsoluteOffset(p)
      BY <2>7, <2>8 DEF from
    <3>3. ~IsChannel(e.status) => Payload(c, e.data, e.at, p)
      BY <2>8, <2>10
    <3> QED BY <2>9, <3>1, <3>2, <3>3 DEF EventRead
  <2> QED BY <2>3, <2>4, <2>7, <2>12 DEF IsRead, ReadsOn, r, from
<1> QED BY <1>2, <1>4, <1>5 DEF ReadsOn

(* An event under its status.                                              *)
LEMMA DispatchReads ==
    ASSUME NEW c, IsCursor(c), NEW d, Onward(c, d), NEW offset \in Nat,
           AbsoluteOffset(c) <= offset, offset < AbsoluteOffset(d),
           NEW status \in 128..255, NEW delta \in Nat,
           NEW first, first = <<>> \/ (\E b \in Byte : first = <<b>>)
    PROVE  IsRead(c, Dispatch(AbsoluteOffset(c), delta, status, first, offset, d))
<1> DEFINE r == Dispatch(AbsoluteOffset(c), delta, status, first, offset, d)
           channel == ChannelData(d, first, status)
           variable == VariableData(d, status)
<1>1. IsCursor(d)
  BY DEF Onward
<1>2. CASE IsChannel(status)
  <2>1. r = Finishes(AbsoluteOffset(c), delta, status, offset, channel)
    BY <1>2 DEF Dispatch
  <2>2. ReadsOn(channel, d) /\ (channel.ok = TRUE => channel.value \in Bodies)
    BY <1>1, ChannelReads
  <2> HIDE DEF channel, r
  <2>3. BodyRead(c, d, offset, status, channel)
    BY <1>2, <2>2 DEF BodyRead
  <2>4. status \in Statuses
    BY <1>2 DEF IsChannel, Statuses
  <2> QED BY <2>1, <2>3, <2>4, FinishesReads DEF r
<1>3. CASE ~IsChannel(status) /\ status \in {240, 247, 255}
  <2>1. r = Finishes(AbsoluteOffset(c), delta, status, offset, variable)
    BY <1>3 DEF Dispatch
  <2>2. /\ ReadsOn(variable, d)
        /\ variable.ok = TRUE => /\ variable.value \in Bodies
                                 /\ Payload(d, variable.value.bytes, variable.value.at, variable.cursor)
    BY <1>1, VariableReads
  <2> HIDE DEF variable, r
  <2>3. BodyRead(c, d, offset, status, variable)
    BY <2>2 DEF BodyRead
  <2>4. status \in Statuses
    BY <1>3 DEF Statuses
  <2> QED BY <2>1, <2>3, <2>4, FinishesReads DEF r
<1>4. CASE ~IsChannel(status) /\ status \notin {240, 247, 255}
  <2>1. r = Error("InvalidStatus", offset)
    BY <1>4 DEF Dispatch
  <2>2. ReadsOn(r, c) /\ r.ok = FALSE
    BY <2>1, ErrorReads DEF ReadErrors
  <2> HIDE DEF r
  <2> QED BY <2>2 DEF IsRead, r
<1> QED BY <1>2, <1>3, <1>4

(* An event, wherever a decoder is in a chunk.                             *)
LEMMA EventReads ==
    ASSUME NEW c, IsCursor(c), NEW run \in Runs
    PROVE  IsRead(c, ReadEvent(c, run))
<1> DEFINE delta == ReadVlq(c)
           byte == ReadU8(delta.cursor)
           offset == AbsoluteOffset(delta.cursor)
           rest == FirstByte(AbsoluteOffset(c), run, delta.value, offset, byte)
           r == ReadEvent(c, run)
<1>1. r = IF delta.ok THEN (IF byte.ok THEN rest ELSE byte) ELSE delta
  BY DEF ReadEvent, Then
<1>2. /\ ReadsOn(delta, c)
      /\ delta.ok = TRUE => delta.value \in Nat /\ delta.cursor.position > c.position
  BY VlqReads
<1>3. CASE delta.ok = FALSE
  <2> HIDE DEF delta
  <2>1. r = delta
    BY <1>1, <1>3
  <2> QED BY <1>2, <1>3, <2>1 DEF IsRead
<1>4. CASE delta.ok = TRUE
  <2>1. Onward(c, delta.cursor) /\ IsCursor(delta.cursor)
    BY <1>2, <1>4 DEF ReadsOn, Onward
  <2>2. /\ ReadsOn(byte, delta.cursor)
        /\ byte.ok = TRUE => byte.value \in Byte /\ byte.cursor.position = delta.cursor.position + 1
    BY <2>1, U8Reads
  <2>3. ReadsOn(byte, c)
    <3> HIDE DEF byte, delta
    <3> QED BY <2>1, <2>2, ReadsFarther
  <2>4. CASE byte.ok = FALSE
    <3> HIDE DEF byte
    <3>1. r = byte
      BY <1>1, <1>4, <2>4
    <3> QED BY <2>3, <2>4, <3>1 DEF IsRead
  <2>5. CASE byte.ok = TRUE
    <3>1. r = rest
      BY <1>1, <1>4, <2>5
    <3>2. rest = IF byte.value >= 128
                 THEN Dispatch(AbsoluteOffset(c), delta.value, byte.value, <<>>, offset, byte.cursor)
                 ELSE IF run # NoStatus
                 THEN Dispatch(AbsoluteOffset(c), delta.value, run, <<byte.value>>, offset, byte.cursor)
                 ELSE Error("RunningStatusMissing", offset)
      BY DEF FirstByte
    <3> HIDE DEF byte, delta, rest, r
    <3>3. /\ Onward(c, byte.cursor) /\ byte.value \in Byte /\ delta.value \in Nat
          /\ byte.cursor.position = delta.cursor.position + 1
      BY <1>2, <1>4, <2>2, <2>3, <2>5 DEF ReadsOn
    <3>4. offset \in Nat /\ AbsoluteOffset(c) <= offset /\ offset < AbsoluteOffset(byte.cursor)
      BY <2>1, <3>3 DEF Onward, IsCursor, AbsoluteOffset
    <3>5. PICK d, o, n, b : /\ d = byte.cursor /\ o = offset /\ n = delta.value /\ b = byte.value
                            /\ Onward(c, d) /\ o \in Nat /\ n \in Nat /\ b \in Byte
                            /\ AbsoluteOffset(c) <= o /\ o < AbsoluteOffset(d)
      BY <3>3, <3>4
    <3>6. CASE b >= 128
      <4>1. b \in 128..255
        BY <3>5, <3>6 DEF Byte
      <4>2. IsRead(c, Dispatch(AbsoluteOffset(c), n, b, <<>>, o, d))
        BY <3>5, <4>1, DispatchReads
      <4>3. r = Dispatch(AbsoluteOffset(c), n, b, <<>>, o, d)
        BY <3>1, <3>2, <3>5, <3>6
      <4> QED BY <4>2, <4>3 DEF r
    <3>7. CASE ~(b >= 128) /\ run # NoStatus
      <4>1. run \in 128..255
        BY <3>7 DEF Runs
      <4>2. IsRead(c, Dispatch(AbsoluteOffset(c), n, run, <<b>>, o, d))
        BY <3>5, <4>1, DispatchReads
      <4>3. r = Dispatch(AbsoluteOffset(c), n, run, <<b>>, o, d)
        BY <3>1, <3>2, <3>5, <3>7
      <4> QED BY <4>2, <4>3 DEF r
    <3>8. CASE ~(b >= 128) /\ run = NoStatus
      <4>1. r = Error("RunningStatusMissing", o)
        BY <3>1, <3>2, <3>5, <3>8
      <4>2. ReadsOn(r, c) /\ r.ok = FALSE
        BY <3>5, <4>1, ErrorReads DEF ReadErrors
      <4> QED BY <4>2 DEF IsRead, r
    <3> QED BY <3>6, <3>7, <3>8
  <2> QED BY <2>2, <2>4, <2>5 DEF ReadsOn
<1> QED BY <1>2, <1>3, <1>4 DEF ReadsOn

(* The running status a decoder keeps is one of a channel message.         *)
LEMMA RunningKept ==
    ASSUME NEW c, NEW r, EventRead(c, r)
    PROVE  /\ r.value.running \in Runs
           /\ r.value.running # NoStatus => r.value.event.status = r.value.running
<1> DEFINE e == r.value.event
<1>1. e \in Events /\ r.value.running = RunningAfter(e.status)
  BY DEF EventRead
<1> HIDE DEF e
<1>2. e.status \in Statuses
  BY <1>1 DEF Events
<1>3. r.value.running = IF e.status < 240 THEN e.status ELSE 0
  BY <1>1 DEF RunningAfter, NoStatus
<1> QED BY <1>2, <1>3 DEF Statuses, Runs, NoStatus, e

(* The header is checked alike by scan_smf and by the score parser.        *)
LEMMA HeaderIs ==
    ASSUME NEW c
    PROVE  ScanHeader(c) = CheckedHeader(c) /\ ScoreHeader(c) = CheckedHeader(c)
<1> DEFINE tag == ReadTag(c)
           size == ReadU32(tag.cursor)
           checked == IF tag.ok THEN IF tag.value # Mthd THEN Error("ExpectedChunk", AbsoluteOffset(c))
                                     ELSE IF size.ok THEN HeaderBody(size, AbsoluteOffset(tag.cursor))
                                     ELSE size
                      ELSE tag
<1>1. \A kind, at : Error(kind, at).ok = FALSE
  BY DEF Error
<1>2. CheckedHeader(c) = checked
  BY <1>1 DEF CheckedHeader, Expect, Then
<1>3. \A body, outside : ScoreFields(body, outside) = ScanFields(body, outside)
  BY DEF ScoreFields, ScanFields
<1>4. ScanHeader(c) = checked
  BY DEF ScanHeader, HeaderBody, Then
<1>5. ScoreHeader(c) = checked
  <2> DEFINE b == TakeCursor(size.cursor, size.value)
             at == AbsoluteOffset(tag.cursor)
             body == IF size.value < 6 THEN Error("HeaderTooShort", at)
                     ELSE IF b.ok THEN ScoreFields(b.value, b.cursor) ELSE b
  <2>1. HeaderBody(size, at) = body
    BY <1>3 DEF HeaderBody, Then
  <2>2. ScoreHeader(c) = IF tag.ok THEN IF tag.value # Mthd THEN Error("ExpectedChunk", AbsoluteOffset(c))
                                        ELSE IF size.ok THEN body ELSE size
                         ELSE tag
    BY DEF ScoreHeader, Then
  <2> QED BY <2>1, <2>2
<1> QED BY <1>2, <1>4, <1>5

(* So is the head of a chunk; the second walk does not look at the tag.    *)
LEMMA ChunkIs ==
    ASSUME NEW c
    PROVE  /\ ScanChunk(c) = SizedBody(CheckedTag(c)) /\ ScoreChunk(c) = SizedBody(CheckedTag(c))
           /\ OwnedChunk(c) = SizedBody(Take(c, 4))
<1> DEFINE tag == ReadTag(c)
           size == ReadU32(tag.cursor)
           checked == IF tag.ok THEN IF tag.value # Mtrk THEN Error("ExpectedChunk", AbsoluteOffset(c))
                                     ELSE IF size.ok THEN TakeCursor(size.cursor, size.value) ELSE size
                      ELSE tag
<1>1. \A kind, at : Error(kind, at).ok = FALSE
  BY DEF Error
<1>2. SizedBody(CheckedTag(c)) = checked
  BY <1>1 DEF SizedBody, CheckedTag, Expect, Then
<1>3. ScanChunk(c) = checked
  BY DEF ScanChunk, Then
<1>4. ScoreChunk(c) = checked
  BY DEF ScoreChunk, Then
<1>5. OwnedChunk(c) = SizedBody(Take(c, 4))
  BY DEF OwnedChunk, SizedBody, Then
<1> QED BY <1>2, <1>3, <1>4, <1>5

(* Two elements, put together in either way.                               *)
LEMMA PairIs ==
    ASSUME NEW u, NEW v
    PROVE  Append(<<u>>, v) = <<u, v>> /\ <<u>> \o <<v>> = <<u, v>>
<1> DEFINE S == {u, v}
<1>1. u \in S /\ v \in S
  OBVIOUS
<1> HIDE DEF S
<1>2. <<u>> \in Seq(S) /\ <<u, v>> \in Seq(S) /\ Len(<<u>>) = 1 /\ Len(<<u, v>>) = 2
  BY <1>1
<1>3. /\ Append(<<u>>, v) \in Seq(S) /\ Len(Append(<<u>>, v)) = Len(<<u>>) + 1
      /\ \A i \in 1..Len(<<u>>) : Append(<<u>>, v)[i] = <<u>>[i]
      /\ Append(<<u>>, v)[Len(<<u>>) + 1] = v
  BY <1>1, <1>2, AppendProperties
<1>4. PICK a \in Seq(S) : a = Append(<<u>>, v)
  BY <1>3
<1>5. Len(a) = 2 /\ a[1] = u /\ a[2] = v
  <2>1. Len(<<u>>) = 1 /\ <<u>>[1] = u
    OBVIOUS
  <2> QED BY <1>3, <1>4, <2>1
<1>6. PICK b \in Seq(S) : b = <<u, v>> /\ Len(b) = 2 /\ b[1] = u /\ b[2] = v
  BY <1>2
<1>7. Len(a) = Len(b) /\ \A i \in 1..Len(a) : a[i] = b[i]
  BY <1>5, <1>6
<1>8. a = b
  BY <1>7, SeqEqual, Zenon
<1>9. Append(<<u>>, v) = <<u>> \o <<v>>
  BY <1>1, <1>2, AppendIsConcat
<1> QED BY <1>4, <1>6, <1>8, <1>9

(* The data bytes of a channel message, behind none or one that was read.  *)
LEMMA ChannelIs ==
    ASSUME NEW c, IsCursor(c), NEW first, first = <<>> \/ (\E b \in 0..127 : first = <<b>>), NEW status
    PROVE  /\ ScanChannelData(c, first, DataLength(status)) = ChannelData(c, first, status)
           /\ OwnedChannelData(c, first, DataLength(status)) = ChannelData(c, first, status)
           /\ ScoreChannelData(c, first, status) = ChannelData(c, first, status)
<1> DEFINE one == ReadDataByte(c)
           two == ReadDataByte(one.cursor)
           Data(bytes, after) == Body(0, bytes, 0, after)
<1>1. DataLength(status) \in {1, 2} /\ (status \div 16 \in {12, 13} <=> DataLength(status) = 1)
  BY DEF DataLength
<1>2. /\ \A v, d : Read(v, d).ok = TRUE /\ Read(v, d).value = v /\ Read(v, d).cursor = d
      /\ \A kind, at : Error(kind, at).ok = FALSE
  BY DEF Read, Error
<1>3. \A d : ScanDataByte(d) = ReadDataByte(d) /\ ScoreDataByte(d) = ReadDataByte(d)
  BY DEF ScanDataByte, ScoreDataByte, ReadDataByte
<1>4. \A d, data : OwnedFilled(Read(data, d), DataLength(status)) =
          IF Len(data) >= DataLength(status) THEN Read(data, d)
          ELSE IF ReadDataByte(d).ok
          THEN Read(Append(data, ReadDataByte(d).value), ReadDataByte(d).cursor) ELSE ReadDataByte(d)
  <2> SUFFICES ASSUME NEW d, NEW data
               PROVE  OwnedFilled(Read(data, d), DataLength(status)) =
                          IF Len(data) >= DataLength(status) THEN Read(data, d)
                          ELSE IF ReadDataByte(d).ok
                          THEN Read(Append(data, ReadDataByte(d).value), ReadDataByte(d).cursor)
                          ELSE ReadDataByte(d)
    OBVIOUS
  <2> DEFINE b == ReadU8(d)
             v == ValidDataByte(b.value, AbsoluteOffset(d), b.cursor)
  <2>1. ReadDataByte(d) = IF b.ok THEN v ELSE b
    BY DEF ReadDataByte, Then
  <2>2. OwnedFilled(Read(data, d), DataLength(status)) =
            IF Len(data) >= DataLength(status) THEN Read(data, d)
            ELSE IF b.ok THEN (IF v.ok THEN Read(Append(data, v.value), v.cursor) ELSE v) ELSE b
    BY <1>2 DEF OwnedFilled, Then
  <2> HIDE DEF b, v
  <2> QED BY <2>1, <2>2
<1>5. CASE first = <<>>
  <2>1. ChannelData(c, first, status) =
            IF one.ok THEN (IF DataLength(status) = 1 THEN Data(<<one.value>>, one.cursor)
                            ELSE IF two.ok THEN Data(<<one.value, two.value>>, two.cursor) ELSE two)
            ELSE one
    BY <1>5 DEF ChannelData, Then
  <2>2. ScoreChannelData(c, first, status) =
            IF one.ok THEN (IF DataLength(status) = 1 THEN Data(<<one.value>>, one.cursor)
                            ELSE IF two.ok THEN Data(<<one.value, two.value>>, two.cursor) ELSE two)
            ELSE one
    BY <1>1, <1>3, <1>5 DEF ScoreChannelData, Then
  <2>3. ScanChannelData(c, first, DataLength(status)) =
            LET rest == ScanMissing(c, DataLength(status))
            IN  IF rest.ok THEN Data(<<>> \o rest.value, rest.cursor) ELSE rest
    <3>1. DataLength(status) - Len(first) = DataLength(status)
      BY <1>1, <1>5
    <3> QED BY <1>2, <1>5, <3>1 DEF ScanChannelData, Then
  <2>4. ScanMissing(c, DataLength(status)) =
            IF one.ok THEN (IF DataLength(status) = 1 THEN Read(<<one.value>>, one.cursor)
                            ELSE IF two.ok THEN Read(<<one.value, two.value>>, two.cursor) ELSE two)
            ELSE one
    BY <1>1, <1>3 DEF ScanMissing, Then
  <2>5. OwnedChannelData(c, first, DataLength(status)) =
            LET a == OwnedFilled(Read(<<>>, c), DataLength(status))
                b == OwnedFilled(a, DataLength(status))
            IN  IF a.ok THEN (IF b.ok THEN Data(b.value, b.cursor) ELSE b) ELSE a
    BY <1>2, <1>5 DEF OwnedChannelData, Then
  <2>6. OwnedFilled(Read(<<>>, c), DataLength(status)) =
            IF one.ok THEN Read(<<one.value>>, one.cursor) ELSE one
    <3>1. ~(Len(<<>>) >= DataLength(status)) /\ Append(<<>>, one.value) = <<one.value>>
      BY <1>1
    <3>2. OwnedFilled(Read(<<>>, c), DataLength(status)) =
              IF Len(<<>>) >= DataLength(status) THEN Read(<<>>, c)
              ELSE IF one.ok THEN Read(Append(<<>>, one.value), one.cursor) ELSE one
      BY <1>4
    <3> HIDE DEF one
    <3> QED BY <3>1, <3>2
  <2>7. OwnedFilled(Read(<<one.value>>, one.cursor), DataLength(status)) =
            IF DataLength(status) = 1 THEN Read(<<one.value>>, one.cursor)
            ELSE IF two.ok THEN Read(<<one.value, two.value>>, two.cursor) ELSE two
    <3>1. (Len(<<one.value>>) >= DataLength(status) <=> DataLength(status) = 1)
      BY <1>1
    <3>3. Append(<<one.value>>, two.value) = <<one.value, two.value>>
      BY PairIs
    <3>2. OwnedFilled(Read(<<one.value>>, one.cursor), DataLength(status)) =
              IF Len(<<one.value>>) >= DataLength(status) THEN Read(<<one.value>>, one.cursor)
              ELSE IF two.ok THEN Read(Append(<<one.value>>, two.value), two.cursor) ELSE two
      BY <1>4
    <3> HIDE DEF one, two
    <3> QED BY <3>1, <3>2, <3>3
  <2> HIDE DEF one, two, Data
  <2>8. \A v : <<>> \o <<v>> = <<v>>
    OBVIOUS
  <2>9. \A v, w : <<>> \o <<v, w>> = <<v, w>>
    OBVIOUS
  <2>10. ScanChannelData(c, first, DataLength(status)) = ChannelData(c, first, status)
    BY <1>1, <1>2, <2>1, <2>3, <2>4, <2>8, <2>9
  <2>11. OwnedChannelData(c, first, DataLength(status)) = ChannelData(c, first, status)
    BY <1>1, <1>2, <2>1, <2>5, <2>6, <2>7
  <2> QED BY <2>1, <2>2, <2>10, <2>11
<1>6. CASE first # <<>>
  <2>1. PICK b \in 0..127 : first = <<b>>
    BY <1>6
  <2> DEFINE more == ReadDataByte(c)
             valid == ValidDataByte(first[1], AbsoluteOffset(c) - 1, c)
  <2>2. first[1] = b /\ b < 128 /\ Len(first) = 1
    BY <2>1
  <2>3. valid = Read(b, c)
    BY <2>2 DEF ValidDataByte
  <2>4. ChannelData(c, first, status) =
            IF DataLength(status) = 1 THEN Data(<<b>>, c)
            ELSE IF more.ok THEN Data(<<b, more.value>>, more.cursor) ELSE more
    BY <1>2, <1>6, <2>2 DEF ChannelData, Then
  <2>5. ScoreChannelData(c, first, status) =
            IF DataLength(status) = 1 THEN Data(<<b>>, c)
            ELSE IF more.ok THEN Data(<<b, more.value>>, more.cursor) ELSE more
    BY <1>1, <1>2, <1>3, <1>6, <2>3 DEF ScoreChannelData, Then
  <2>6. ScanChannelData(c, first, DataLength(status)) =
            LET rest == ScanMissing(c, DataLength(status) - 1)
            IN  IF rest.ok THEN Data(<<b>> \o rest.value, rest.cursor) ELSE rest
    BY <1>2, <1>6, <2>1, <2>2, <2>3 DEF ScanChannelData, Then
  <2>7. ScanMissing(c, DataLength(status) - 1) =
            IF DataLength(status) = 1 THEN Read(<<>>, c)
            ELSE IF more.ok THEN Read(<<more.value>>, more.cursor) ELSE more
    BY <1>1, <1>3 DEF ScanMissing, Then
  <2>8. OwnedChannelData(c, first, DataLength(status)) =
            LET x == OwnedFilled(Read(<<b>>, c), DataLength(status))
                y == OwnedFilled(x, DataLength(status))
            IN  IF x.ok THEN (IF y.ok THEN Data(y.value, y.cursor) ELSE y) ELSE x
    BY <1>2, <1>6, <2>3 DEF OwnedChannelData, Then
  <2>9. OwnedFilled(Read(<<b>>, c), DataLength(status)) =
            IF DataLength(status) = 1 THEN Read(<<b>>, c)
            ELSE IF more.ok THEN Read(<<b, more.value>>, more.cursor) ELSE more
    <3>1. (Len(<<b>>) >= DataLength(status) <=> DataLength(status) = 1)
      BY <1>1
    <3>3. Append(<<b>>, more.value) = <<b, more.value>>
      BY PairIs
    <3>2. OwnedFilled(Read(<<b>>, c), DataLength(status)) =
              IF Len(<<b>>) >= DataLength(status) THEN Read(<<b>>, c)
              ELSE IF more.ok THEN Read(Append(<<b>>, more.value), more.cursor) ELSE more
      BY <1>4
    <3> HIDE DEF more
    <3> QED BY <3>1, <3>2, <3>3
  <2>10. /\ DataLength(status) = 1 =>
              OwnedFilled(Read(<<b>>, c), DataLength(status)) = Read(<<b>>, c)
         /\ DataLength(status) = 2 =>
              OwnedFilled(Read(<<b, more.value>>, more.cursor), DataLength(status)) =
                  Read(<<b, more.value>>, more.cursor)
    <3>1. Len(<<b, more.value>>) = 2
      OBVIOUS
    <3>2. OwnedFilled(Read(<<b, more.value>>, more.cursor), DataLength(status)) =
              IF Len(<<b, more.value>>) >= DataLength(status) THEN Read(<<b, more.value>>, more.cursor)
              ELSE IF ReadDataByte(more.cursor).ok
              THEN Read(Append(<<b, more.value>>, ReadDataByte(more.cursor).value),
                        ReadDataByte(more.cursor).cursor)
              ELSE ReadDataByte(more.cursor)
      BY <1>4
    <3> HIDE DEF more
    <3> QED BY <2>9, <3>1, <3>2
  <2> HIDE DEF more, Data
  <2>11. <<b>> \o <<>> = <<b>>
    OBVIOUS
  <2>12. <<b>> \o <<more.value>> = <<b, more.value>>
    BY PairIs
  <2>13. ScanChannelData(c, first, DataLength(status)) = ChannelData(c, first, status)
    <3>1. CASE DataLength(status) = 1
      <4>1. ScanMissing(c, DataLength(status) - 1).ok = TRUE /\ ScanMissing(c, DataLength(status) - 1).value = <<>>
            /\ ScanMissing(c, DataLength(status) - 1).cursor = c
        BY <1>2, <2>7, <3>1
      <4> QED BY <2>4, <2>6, <2>11, <3>1, <4>1
    <3>2. CASE DataLength(status) = 2 /\ more.ok
      <4>1. /\ ScanMissing(c, DataLength(status) - 1).ok = TRUE
            /\ ScanMissing(c, DataLength(status) - 1).value = <<more.value>>
            /\ ScanMissing(c, DataLength(status) - 1).cursor = more.cursor
        BY <1>2, <2>7, <3>2
      <4>2. PICK rest : rest = ScanMissing(c, DataLength(status) - 1)
        OBVIOUS
      <4>3. <<b>> \o rest.value = <<b, more.value>> /\ rest.ok = TRUE /\ rest.cursor = more.cursor
        BY <2>12, <4>1, <4>2, Zenon
      <4>4. ScanChannelData(c, first, DataLength(status)) = Data(<<b>> \o rest.value, rest.cursor)
        BY <2>6, <4>2, <4>3, Zenon
      <4>5. ScanChannelData(c, first, DataLength(status)) = Data(<<b, more.value>>, more.cursor)
        BY <4>3, <4>4, Zenon
      <4>6. ChannelData(c, first, status) = Data(<<b, more.value>>, more.cursor)
        BY <2>4, <3>2
      <4> QED BY <4>5, <4>6, Zenon
    <3>3. CASE DataLength(status) = 2 /\ ~more.ok
      BY <2>4, <2>6, <2>7, <3>3
    <3> QED BY <1>1, <3>1, <3>2, <3>3
  <2>14. OwnedChannelData(c, first, DataLength(status)) = ChannelData(c, first, status)
    BY <1>1, <1>2, <2>4, <2>8, <2>9, <2>10
  <2> QED BY <2>4, <2>5, <2>13, <2>14
<1> QED BY <1>5, <1>6

(* The body of an event, of whose first byte nothing is left or one data   *)
(* byte under a channel status.                                            *)
BodyIn(c, offset, status, first) ==
    IF IsChannel(status) THEN ChannelData(c, first, status)
    ELSE IF status \in {240, 247, 255} THEN VariableData(c, status)
    ELSE Error("InvalidStatus", offset)

LEMMA BodyIs ==
    ASSUME NEW c, IsCursor(c), NEW offset, NEW status \in 128..255,
           NEW first, \/ first = <<>>
                      \/ IsChannel(status) /\ (\E b \in 0..127 : first = <<b>>)
    PROVE  LET body == Keeping(BodyIn(c, offset, status, first), RunningAfter(status))
           IN  /\ ScanBody(c, offset, status, first, RunningAfter(status)) = body
               /\ OwnedBody(c, offset, status, first, RunningAfter(status)) = body
               /\ ScoreBody(c, offset, status, first, RunningAfter(status)) = body
<1> DEFINE in == BodyIn(c, offset, status, first)
           body == Keeping(in, RunningAfter(status))
           length == IF status \div 16 \in {12, 13} THEN 1 ELSE 2
<1>1. CASE IsChannel(status)
  <2>1. /\ ScanChannelData(c, first, length) = in
        /\ OwnedChannelData(c, first, length) = in
        /\ ScoreChannelData(c, first, status) = in
    BY <1>1, ChannelIs DEF BodyIn, DataLength
  <2> HIDE DEF in
  <2>2. /\ ScanBody(c, offset, status, first, RunningAfter(status)) = Keeping(in, RunningAfter(status))
        /\ OwnedBody(c, offset, status, first, RunningAfter(status)) = Keeping(in, RunningAfter(status))
        /\ ScoreBody(c, offset, status, first, RunningAfter(status)) = Keeping(in, RunningAfter(status))
    <3> status # 255 /\ status \notin {240, 247}
      BY <1>1 DEF IsChannel
    <3>1. ScanBody(c, offset, status, first, RunningAfter(status)) =
              Keeping(ScanChannelData(c, first, length), RunningAfter(status))
      BY <1>1 DEF ScanBody
    <3>2. OwnedBody(c, offset, status, first, RunningAfter(status)) =
              Keeping(OwnedChannelData(c, first, length), RunningAfter(status))
      BY <1>1 DEF OwnedBody
    <3>3. ScoreBody(c, offset, status, first, RunningAfter(status)) =
              Keeping(ScoreChannelData(c, first, status), RunningAfter(status))
      BY <1>1 DEF ScoreBody
    <3> HIDE DEF length
    <3> QED BY <2>1, <3>1, <3>2, <3>3
  <2> QED BY <2>2 DEF in
<1>2. CASE ~IsChannel(status) /\ status \in {240, 247, 255}
  <2>1. first = <<>> /\ ~(status < 240) /\ RunningAfter(status) = NoStatus
    BY <1>2 DEF RunningAfter
  <2>2. in = VariableData(c, status)
    BY <1>2 DEF BodyIn
  <2>3. /\ \A v, d : Read(v, d).ok = TRUE /\ Read(v, d).value = v /\ Read(v, d).cursor = d
    BY DEF Read
  <2>4. CASE status = 255
    <3>1. /\ in = Then(ReadU8(c), LAMBDA type : ScanPayload(type.cursor, type.value))
          /\ in = Then(ReadU8(c), LAMBDA type : OwnedPayload(type.cursor, type.value))
          /\ in = ScoreMeta(c)
      BY <2>2, <2>4 DEF VariableData, ScanPayload, OwnedPayload, ScoreMeta, Then
    <3> HIDE DEF in
    <3>2. ScanBody(c, offset, status, first, NoStatus) =
              Keeping(Then(ReadU8(c), LAMBDA type : ScanPayload(type.cursor, type.value)), NoStatus)
      BY <1>2, <2>1, <2>4 DEF ScanBody
    <3>3. OwnedBody(c, offset, status, first, NoStatus) =
              Keeping(Then(ReadU8(c), LAMBDA type : OwnedPayload(type.cursor, type.value)), NoStatus)
      BY <1>2, <2>1, <2>4 DEF OwnedBody
    <3>4. ScoreBody(c, offset, status, first, NoStatus) = Keeping(ScoreMeta(c), NoStatus)
      BY <1>2, <2>1, <2>4 DEF ScoreBody
    <3> QED BY <2>1, <3>1, <3>2, <3>3, <3>4 DEF in
  <2>5. CASE status # 255
    <3>1. in = ScanPayload(c, 0) /\ in = OwnedPayload(c, 0) /\ in = ScoreSysEx(c)
      BY <2>2, <2>3, <2>5 DEF VariableData, ScanPayload, OwnedPayload, ScoreSysEx, Then
    <3> HIDE DEF in
    <3>2. status \in {240, 247} /\ ~(status = 255 /\ first = <<>>)
      BY <1>2, <2>5
    <3>3. ScanBody(c, offset, status, first, NoStatus) = Keeping(ScanPayload(c, 0), NoStatus)
      BY <1>2, <2>1, <3>2 DEF ScanBody
    <3>4. OwnedBody(c, offset, status, first, NoStatus) = Keeping(OwnedPayload(c, 0), NoStatus)
      BY <1>2, <2>1, <3>2 DEF OwnedBody
    <3>5. ScoreBody(c, offset, status, first, NoStatus) = Keeping(ScoreSysEx(c), NoStatus)
      BY <1>2, <2>1, <3>2 DEF ScoreBody
    <3> QED BY <2>1, <3>1, <3>3, <3>4, <3>5 DEF in
  <2> QED BY <2>4, <2>5
<1>3. CASE ~IsChannel(status) /\ status \notin {240, 247, 255}
  <2>1. in = Error("InvalidStatus", offset) /\ body = Error("InvalidStatus", offset)
    BY <1>3 DEF BodyIn, Keeping, Then, Error
  <2>2. status # 255 /\ status \notin {240, 247}
    BY <1>3
  <2> HIDE DEF in, body
  <2>3. /\ ScanBody(c, offset, status, first, RunningAfter(status)) = Error("InvalidStatus", offset)
        /\ OwnedBody(c, offset, status, first, RunningAfter(status)) = Error("InvalidStatus", offset)
        /\ ScoreBody(c, offset, status, first, RunningAfter(status)) = Error("InvalidStatus", offset)
    BY <1>3, <2>2 DEF ScanBody, OwnedBody, ScoreBody
  <2> QED BY <2>1, <2>3 DEF body, in
<1> QED BY <1>1, <1>2, <1>3

(* What is made of a body and a running status.                            *)
LEMMA CompletedIs ==
    ASSUME NEW c, NEW delta, NEW byte, NEW status, NEW first
    PROVE  LET offset == AbsoluteOffset(delta.cursor)
               body == BodyIn(byte.cursor, offset, status, first)
           IN  Completed(c, delta, status, Keeping(body, RunningAfter(status))) =
                   Dispatch(AbsoluteOffset(c), delta.value, status, first, offset, byte.cursor)
<1> DEFINE offset == AbsoluteOffset(delta.cursor)
           body == BodyIn(byte.cursor, offset, status, first)
           run == RunningAfter(status)
           kept == Keeping(body, run)
           done == Finishes(AbsoluteOffset(c), delta.value, status, offset, body)
           r == Completed(c, delta, status, kept)
           d == Dispatch(AbsoluteOffset(c), delta.value, status, first, offset, byte.cursor)
<1>1. r = done
  <2>1. CASE body.ok
    <3>1. kept = Read([body |-> body.value, running |-> run], body.cursor)
      BY <2>1 DEF Keeping, Then
    <3>2. kept.ok /\ kept.value.body = body.value /\ kept.value.running = run /\ kept.cursor = body.cursor
      BY <3>1 DEF Read
    <3>3. r = Read([event |-> Event(delta.value, status, offset, kept.value.body, AbsoluteOffset(c),
                                    AbsoluteOffset(kept.cursor)),
                    running |-> kept.value.running], kept.cursor)
      BY <3>2 DEF Completed, Then
    <3>4. done = Read([event |-> Event(delta.value, status, offset, body.value, AbsoluteOffset(c),
                                       AbsoluteOffset(body.cursor)),
                       running |-> run], body.cursor)
      BY <2>1 DEF Finishes, Then
    <3> QED BY <3>2, <3>3, <3>4
  <2>2. CASE ~body.ok
    <3>1. kept = body
      BY <2>2 DEF Keeping, Then
    <3>2. done = body
      BY <2>2 DEF Finishes, Then
    <3>3. r = body
      BY <2>2, <3>1 DEF Completed, Then
    <3> QED BY <3>2, <3>3
  <2> QED BY <2>1, <2>2
<1>2. done = d
  <2>1. CASE IsChannel(status) \/ status \in {240, 247, 255}
    BY <2>1 DEF Dispatch, BodyIn
  <2>2. CASE ~(IsChannel(status) \/ status \in {240, 247, 255})
    BY <2>2 DEF Dispatch, BodyIn, Finishes, Then, Error
  <2> QED BY <2>1, <2>2
<1> QED BY <1>1, <1>2

(* An event is read alike by all three.                                    *)
LEMMA EventIs ==
    ASSUME NEW c, IsCursor(c), NEW run \in Runs
    PROVE  /\ ScanEvent(c, run) = ReadEvent(c, run)
           /\ OwnedEvent(c, run) = ReadEvent(c, run)
           /\ ScoreEvent(c, run) = ReadEvent(c, run)
<1> DEFINE delta == ReadVlq(c)
           byte == ReadU8(delta.cursor)
           offset == AbsoluteOffset(delta.cursor)
           isData == byte.value < 128
           status == IF isData THEN run ELSE byte.value
           kept == IF ~isData /\ byte.value < 240 THEN byte.value ELSE run
           first == IF isData THEN <<byte.value>> ELSE <<>>
           missing == Error("RunningStatusMissing", offset)
           Through(b) == IF delta.ok
                         THEN IF byte.ok
                              THEN IF isData /\ run = NoStatus THEN missing ELSE Completed(c, delta, status, b)
                              ELSE byte
                         ELSE delta
<1>1. /\ ScanEvent(c, run) = Through(ScanBody(byte.cursor, offset, status, first, kept))
      /\ OwnedEvent(c, run) = Through(OwnedBody(byte.cursor, offset, status, first, kept))
      /\ ScoreEvent(c, run) = Through(ScoreBody(byte.cursor, offset, status, first, kept))
  BY DEF ScanEvent, OwnedEvent, ScoreEvent, Then
<1>2. ReadEvent(c, run) =
          IF delta.ok
          THEN IF byte.ok THEN FirstByte(AbsoluteOffset(c), run, delta.value, offset, byte) ELSE byte
          ELSE delta
  BY DEF ReadEvent, Then
<1>3. CASE ~delta.ok \/ ~byte.ok \/ (isData /\ run = NoStatus)
  <2>1. delta.ok /\ byte.ok => FirstByte(AbsoluteOffset(c), run, delta.value, offset, byte) = missing
    <3>1. ASSUME delta.ok, byte.ok
          PROVE  byte.value < 128 /\ ~(byte.value >= 128) /\ run = NoStatus
      <4>1. IsCursor(delta.cursor)
        BY <3>1, VlqReads DEF ReadsOn, Onward
      <4> HIDE DEF delta
      <4>2. byte.value \in Byte
        BY <3>1, <4>1, U8Reads DEF ReadsOn
      <4> QED BY <1>3, <3>1, <4>2 DEF Byte
    <3> HIDE DEF delta, byte
    <3> QED BY <3>1 DEF FirstByte
  <2> HIDE DEF delta, byte, missing, status, kept, first, offset
  <2> QED BY <1>1, <1>2, <1>3, <2>1
<1>4. CASE delta.ok /\ byte.ok /\ ~(isData /\ run = NoStatus)
  <2>1. IsCursor(delta.cursor)
    BY <1>4, VlqReads DEF ReadsOn, Onward
  <2>2. byte.value \in Byte /\ IsCursor(byte.cursor)
    <3> HIDE DEF delta
    <3> QED BY <1>4, <2>1, U8Reads DEF ReadsOn, Onward
  <2> HIDE DEF delta, byte
  <2>3. /\ status \in 128..255
        /\ first = <<>> \/ (IsChannel(status) /\ \E b \in 0..127 : first = <<b>>)
    <3>1. CASE isData
      <4>1. run \in 128..239 /\ byte.value \in 0..127
        BY <1>4, <2>2, <3>1 DEF Byte, Runs
      <4>2. status = run /\ first = <<byte.value>>
        BY <3>1
      <4> HIDE DEF status, first
      <4>3. IsChannel(status)
        BY <4>1, <4>2 DEF IsChannel
      <4> QED BY <4>1, <4>2, <4>3
    <3>2. CASE ~isData
      <4>1. byte.value \in 128..255
        BY <2>2, <3>2 DEF Byte
      <4> QED BY <3>2, <4>1
    <3> QED BY <3>1, <3>2
  <2>4. ~(byte.value \in 240..255) => kept = RunningAfter(status)
    BY <1>4, <2>2 DEF Byte, Runs, RunningAfter
  <2>5. FirstByte(AbsoluteOffset(c), run, delta.value, offset, byte) =
            Dispatch(AbsoluteOffset(c), delta.value, status, first, offset, byte.cursor)
    <3>1. CASE isData
      <4>1. ~(byte.value >= 128) /\ run # NoStatus
        BY <1>4, <2>2, <3>1 DEF Byte
      <4> QED BY <3>1, <4>1 DEF FirstByte
    <3>2. CASE ~isData
      <4>1. byte.value >= 128
        BY <2>2, <3>2 DEF Byte
      <4> QED BY <3>2, <4>1 DEF FirstByte
    <3> QED BY <3>1, <3>2
  <2>6. \A k : byte.value \in 240..255 =>
            /\ ScanBody(byte.cursor, offset, status, first, k) =
                   ScanBody(byte.cursor, offset, status, first, RunningAfter(status))
            /\ OwnedBody(byte.cursor, offset, status, first, k) =
                   OwnedBody(byte.cursor, offset, status, first, RunningAfter(status))
            /\ ScoreBody(byte.cursor, offset, status, first, k) =
                   ScoreBody(byte.cursor, offset, status, first, RunningAfter(status))
    <3> SUFFICES ASSUME byte.value \in 240..255, NEW k
                 PROVE  /\ ScanBody(byte.cursor, offset, status, first, k) =
                               ScanBody(byte.cursor, offset, status, first, RunningAfter(status))
                        /\ OwnedBody(byte.cursor, offset, status, first, k) =
                               OwnedBody(byte.cursor, offset, status, first, RunningAfter(status))
                        /\ ScoreBody(byte.cursor, offset, status, first, k) =
                               ScoreBody(byte.cursor, offset, status, first, RunningAfter(status))
      OBVIOUS
    <3>1. ~IsChannel(status)
      BY DEF IsChannel
    <3> HIDE DEF status, first, offset
    <3> QED BY <3>1 DEF ScanBody, OwnedBody, ScoreBody
  <2>7. PICK d, o, s, f, n : /\ d = byte.cursor /\ o = offset /\ s = status /\ f = first /\ n = delta.value
                             /\ IsCursor(d) /\ s \in 128..255
                             /\ f = <<>> \/ (IsChannel(s) /\ \E b \in 0..127 : f = <<b>>)
    BY <2>2, <2>3
  <2> DEFINE body == Keeping(BodyIn(d, o, s, f), RunningAfter(s))
  <2>8. /\ ScanBody(d, o, s, f, RunningAfter(s)) = body
        /\ OwnedBody(d, o, s, f, RunningAfter(s)) = body
        /\ ScoreBody(d, o, s, f, RunningAfter(s)) = body
    <3>1. f = <<>> \/ (IsChannel(s) /\ (\E b \in 0..127 : f = <<b>>))
      BY <2>7
    <3>2. IsCursor(d) /\ s \in 128..255 /\ (f = <<>> \/ (IsChannel(s) /\ (\E b \in 0..127 : f = <<b>>)))
      BY <2>7
    <3> QED BY <3>2, BodyIs, Zenon
  <2>9. Completed(c, delta, s, body) = Dispatch(AbsoluteOffset(c), n, s, f, o, d)
    <3>1. Completed(c, delta, s, Keeping(BodyIn(byte.cursor, AbsoluteOffset(delta.cursor), s, f),
                                         RunningAfter(s))) =
              Dispatch(AbsoluteOffset(c), delta.value, s, f, AbsoluteOffset(delta.cursor), byte.cursor)
      BY CompletedIs
    <3> QED BY <2>7, <3>1
  <2> HIDE DEF body, status, first, offset, kept, isData, missing
  <2>10. /\ ScanBody(byte.cursor, offset, status, first, kept) = body
         /\ OwnedBody(byte.cursor, offset, status, first, kept) = body
         /\ ScoreBody(byte.cursor, offset, status, first, kept) = body
    BY <2>4, <2>6, <2>7, <2>8
  <2>11. Through(body) = Dispatch(AbsoluteOffset(c), n, s, f, o, d)
    BY <1>4, <2>7, <2>9
  <2> QED BY <1>1, <1>2, <1>4, <2>5, <2>7, <2>10, <2>11
<1> QED BY <1>3, <1>4

--------------------------------------------------------------------------------

Cursors == {c \in [data : Seq(Byte), position : Nat, base : Nat] : c.position <= Len(c.data)}

(* The events whose payload stands in the file where they say. *)
FileEvents(f) ==
    {e \in Events : ~IsChannel(e.status) => /\ e.data = SubSeq(f, e.at + 1, e.at + Len(e.data))
                                            /\ e.at + Len(e.data) = e.to}

Stages == {"header", "chunk", "events", "finished", "refused"}

(* How far a decoder is in a file: its cursors, what it has read, and the  *)
(* error it stopped with.                                                  *)
Position(f) ==
    [stage : Stages, outer : Cursors, track : Nat, cursor : Cursors, running : Runs,
     header : Headers, events : Seq(FileEvents(f)), payload : Nat,
     kind : ReadErrors \cup {""}, offset : Nat]

InBytes(f, w) ==
    /\ w.outer.data = f /\ w.outer.base = 0
    /\ w.cursor.data = SubSeq(f, w.cursor.base + 1, w.cursor.base + Len(w.cursor.data))
    /\ w.stage = "events" => w.cursor.base + Len(w.cursor.data) = AbsoluteOffset(w.outer)
    /\ w.stage \in {"header", "chunk", "finished"} => Remaining(w.cursor) = 0
InTracks(w) ==
    /\ w.track \in 1..(w.header.tracks + 1)
    /\ w.stage = "events" => w.track <= w.header.tracks
    /\ w.stage = "finished" => w.track = w.header.tracks + 1
    /\ w.stage = "header" => w.track = 1
    /\ w.stage = "refused" => w.kind # ""

Positions(f) == {w \in Position(f) : InBytes(f, w) /\ InTracks(w)}

(* The place in the file a decoder has come to. *)
At(w) ==
    CASE w.stage = "refused" -> w.offset
      [] w.stage = "events" -> AbsoluteOffset(w.cursor)
      [] OTHER -> AbsoluteOffset(w.outer)

WalkStart(f) ==
    [stage |-> "header", outer |-> CursorAt(f, 0), track |-> 1, cursor |-> NoChunk,
     running |-> NoStatus, header |-> NoHeader, events |-> <<>>, payload |-> 0,
     kind |-> "", offset |-> 0]

Refused(w, r) == [w EXCEPT !.stage = "refused", !.kind = r.kind, !.offset = r.offset]
PastHeader(w, r) == [w EXCEPT !.stage = "chunk", !.outer = r.cursor, !.header = r.value]
InChunk(w, r) ==
    [w EXCEPT !.stage = "events", !.outer = r.cursor, !.cursor = r.value, !.running = NoStatus]
PastEvent(w, r) ==
    [w EXCEPT !.cursor = r.cursor, !.running = r.value.running,
              !.events = Append(@, r.value.event),
              !.payload = @ + One(~IsChannel(r.value.event.status)) * Len(r.value.event.data)]
PastChunk(w) == [w EXCEPT !.stage = "chunk", !.track = @ + 1]
Finished(w) == [w EXCEPT !.stage = "finished"]

(* What a decoder reads next, and where that brings it. *)
HeaderOf(w) == CheckedHeader(w.outer)
BodyOf(w) == SizedBody(CheckedTag(w.outer))
EventOf(w) == ReadEvent(w.cursor, w.running)

Onto(w) ==
    CASE w.stage = "header" ->
            IF HeaderOf(w).ok THEN PastHeader(w, HeaderOf(w)) ELSE Refused(w, HeaderOf(w))
      [] w.stage = "chunk" /\ w.track <= w.header.tracks ->
            IF BodyOf(w).ok THEN InChunk(w, BodyOf(w)) ELSE Refused(w, BodyOf(w))
      [] w.stage = "chunk" /\ w.track > w.header.tracks -> Finished(w)
      [] w.stage = "events" /\ Remaining(w.cursor) # 0 ->
            IF EventOf(w).ok THEN PastEvent(w, EventOf(w)) ELSE Refused(w, EventOf(w))
      [] w.stage = "events" /\ Remaining(w.cursor) = 0 -> PastChunk(w)
      [] OTHER -> w

(* Nothing that was read is lost, and the place only moves on. *)
Farther(w, x) ==
    /\ Len(w.events) <= Len(x.events) /\ w.payload <= x.payload /\ At(w) <= At(x)
    /\ w.stage # "header" => x.header = w.header /\ x.stage # "header"

Follows(f, w, x) == x \in Positions(f) /\ Farther(w, x)

(* What a position is made of.                                             *)
LEMMA PositionFields ==
    ASSUME NEW f, NEW w \in Positions(f)
    PROVE  /\ w.stage \in Stages /\ w.track \in Nat /\ w.running \in Runs /\ w.header \in Headers
           /\ w.header.tracks \in Nat
           /\ w.events \in Seq(FileEvents(f)) /\ Len(w.events) \in Nat
           /\ w.payload \in Nat /\ w.offset \in Nat /\ w.kind \in ReadErrors \cup {""}
           /\ IsCursor(w.outer) /\ IsCursor(w.cursor) /\ At(w) \in Nat
           /\ InBytes(f, w) /\ InTracks(w)
<1>1. /\ w \in Position(f) /\ InBytes(f, w) /\ InTracks(w)
  BY DEF Positions
<1>2. /\ w.stage \in Stages /\ w.track \in Nat /\ w.running \in Runs /\ w.header \in Headers
      /\ w.events \in Seq(FileEvents(f)) /\ w.payload \in Nat /\ w.offset \in Nat
      /\ w.kind \in ReadErrors \cup {""} /\ w.outer \in Cursors /\ w.cursor \in Cursors
  BY <1>1 DEF Position
<1>3. IsCursor(w.outer) /\ IsCursor(w.cursor)
  BY <1>2 DEF Cursors, IsCursor
<1>4. AbsoluteOffset(w.outer) \in Nat /\ AbsoluteOffset(w.cursor) \in Nat
  BY <1>3 DEF IsCursor, AbsoluteOffset
<1>5. At(w) \in Nat
  BY <1>2, <1>4 DEF At
<1>6. Len(w.events) \in Nat /\ w.header.tracks \in Nat
  BY <1>2, LenProperties DEF Headers
<1> QED BY <1>1, <1>2, <1>3, <1>5, <1>6

(* A decoder that stops keeps what it has read.                            *)
LEMMA RefusedFollows ==
    ASSUME NEW f, NEW w \in Positions(f), NEW r, IsError(r, At(w)), w.stage # "refused"
    PROVE  Follows(f, w, Refused(w, r))
<1> DEFINE x == Refused(w, r)
<1>1. /\ w \in Position(f) /\ InBytes(f, w) /\ InTracks(w)
  BY DEF Positions
<1>2. r.kind \in ReadErrors /\ r.offset \in Nat /\ At(w) <= r.offset
  BY DEF IsError
<1>3. /\ x \in Position(f) /\ x.stage = "refused" /\ x.kind = r.kind /\ x.offset = r.offset
      /\ x.outer = w.outer /\ x.cursor = w.cursor /\ x.track = w.track /\ x.header = w.header
      /\ x.events = w.events /\ x.payload = w.payload
  BY <1>1, <1>2 DEF Position, Refused, Stages
<1> HIDE DEF x
<1>4. InBytes(f, x) /\ InTracks(x)
  <2>1. r.kind # ""
    BY <1>2 DEF ReadErrors
  <2> QED BY <1>1, <1>3, <2>1 DEF InBytes, InTracks
<1>5. At(x) = r.offset
  BY <1>3 DEF At
<1>6. Len(w.events) \in Nat /\ w.payload \in Nat
  BY PositionFields
<1> QED BY <1>2, <1>3, <1>4, <1>5, <1>6 DEF Follows, Farther, Positions, x

(* The header of the file is read.                                         *)
LEMMA HeaderFollows ==
    ASSUME NEW f, NEW w \in Positions(f), w.stage = "header", HeaderOf(w).ok = TRUE
    PROVE  Follows(f, w, PastHeader(w, HeaderOf(w)))
<1> DEFINE r == HeaderOf(w)
           x == PastHeader(w, r)
<1>1. /\ w \in Position(f) /\ InBytes(f, w) /\ InTracks(w) /\ IsCursor(w.outer)
  BY PositionFields DEF Positions
<1>2. Onward(w.outer, r.cursor) /\ r.value \in Headers
  BY <1>1, HeaderReads DEF HeaderOf, ReadsOn
<1> HIDE DEF r
<1>3. r.cursor \in Cursors
  BY <1>2 DEF Onward, IsCursor, Cursors
<1>4. /\ x \in Position(f) /\ x.stage = "chunk" /\ x.outer = r.cursor /\ x.header = r.value
      /\ x.cursor = w.cursor /\ x.track = w.track
      /\ x.events = w.events /\ x.payload = w.payload
  BY <1>1, <1>2, <1>3 DEF Position, PastHeader, Stages
<1> HIDE DEF x
<1>5. InBytes(f, x)
  BY <1>1, <1>2, <1>4 DEF InBytes, Onward
<1>6. InTracks(x)
  <2>1. x.track = 1 /\ x.header.tracks \in Nat
    BY <1>1, <1>2, <1>4 DEF InTracks, Headers
  <2> QED BY <1>4, <2>1 DEF InTracks
<1>7. At(w) <= At(x)
  <2>1. At(x) = AbsoluteOffset(r.cursor) /\ At(w) = AbsoluteOffset(w.outer)
    BY <1>4 DEF At
  <2> QED BY <1>1, <1>2, <2>1 DEF Onward, IsCursor, AbsoluteOffset
<1>8. Len(w.events) \in Nat /\ w.payload \in Nat
  BY PositionFields
<1> QED BY <1>4, <1>5, <1>6, <1>7, <1>8 DEF Follows, Farther, Positions, x, r

(* j bytes behind the first i of the n bytes behind the first b of f. *)
Within(f, b, n, i, j) ==
    /\ f \in Seq(Byte) /\ b \in Nat /\ n \in Nat /\ i \in Nat /\ j \in Nat
    /\ b + n <= Len(f) /\ i + j <= n

SamePart(f, b, n, i, j) ==
    SubSeq(SubSeq(f, b + 1, b + n), i + 1, i + j) = SubSeq(f, b + i + 1, b + i + j)

(* A part of a part of a file is a part of the file.                       *)
LEMMA PartOfPart ==
    ASSUME NEW f, NEW b, NEW n, NEW i, NEW j, Within(f, b, n, i, j)
    PROVE  SamePart(f, b, n, i, j)
<1> DEFINE s == SubSeq(f, b + 1, b + n)
           u == SubSeq(s, i + 1, i + j)
           v == SubSeq(f, b + i + 1, b + i + j)
<1>1. /\ Len(f) \in Nat /\ (\A k \in 1..Len(f) : f[k] \in Byte)
      /\ f \in Seq(Byte) /\ b \in Nat /\ n \in Nat /\ i \in Nat /\ j \in Nat
      /\ b + n <= Len(f) /\ i + j <= n
  BY LenProperties DEF Within
<1>2. s \in Seq(Byte) /\ Len(s) = n /\ \A k \in 1..n : s[k] = f[b + k]
  <2>1. \A k \in (b + 1)..(b + n) : f[k] \in Byte
    BY <1>1
  <2>2. s \in Seq(Byte)
    BY <1>1, <2>1, SubSeqProperties
  <2>3. Len(s) = n
    BY <1>1
  <2>4. \A k \in 1..n : s[k] = f[b + k]
    BY <1>1
  <2> QED BY <2>2, <2>3, <2>4
<1> HIDE DEF s
<1>3. u \in Seq(Byte) /\ Len(u) = j /\ \A k \in 1..j : u[k] = s[i + k]
  <2>1. \A k \in (i + 1)..(i + j) : s[k] \in Byte
    <3>1. \A k \in 1..n : s[k] \in Byte
      BY <1>2, LenProperties
    <3> QED BY <1>1, <3>1
  <2>2. u \in Seq(Byte)
    BY <1>1, <2>1, SubSeqProperties
  <2> QED BY <1>1, <1>2, <2>2
<1>4. v \in Seq(Byte) /\ Len(v) = j /\ \A k \in 1..j : v[k] = f[b + i + k]
  <2>1. \A k \in (b + i + 1)..(b + i + j) : f[k] \in Byte
    BY <1>1
  <2>2. v \in Seq(Byte)
    BY <1>1, <2>1, SubSeqProperties
  <2> QED BY <1>1, <2>2
<1> HIDE DEF u, v
<1>5. \A k \in 1..j : u[k] = v[k]
  <2> SUFFICES ASSUME NEW k \in 1..j
               PROVE  u[k] = v[k]
    OBVIOUS
  <2>1. i + k \in 1..n /\ b + (i + k) = b + i + k
    BY <1>1
  <2> QED BY <1>2, <1>3, <1>4, <2>1
<1>6. u = v
  BY <1>3, <1>4, <1>5, SeqEqual
<1> QED BY <1>6 DEF s, u, v, SamePart

(* The chunk of a track is entered.                                        *)
LEMMA ChunkFollows ==
    ASSUME NEW f, NEW w \in Positions(f), w.stage = "chunk", w.track <= w.header.tracks,
           BodyOf(w).ok = TRUE
    PROVE  Follows(f, w, InChunk(w, BodyOf(w)))
<1> DEFINE r == BodyOf(w)
           x == InChunk(w, r)
           c == w.outer
<1>1. /\ w \in Position(f) /\ InBytes(f, w) /\ InTracks(w) /\ IsCursor(w.outer)
  BY PositionFields DEF Positions
<1>2. /\ Onward(c, r.cursor) /\ IsCursor(r.value) /\ r.value.position = 0
      /\ r.cursor.position = c.position + 8 + Len(r.value.data)
      /\ r.value.base = AbsoluteOffset(c) + 8
      /\ r.value.data = SubSeq(c.data, c.position + 9, c.position + 8 + Len(r.value.data))
  BY <1>1, BodyReads DEF BodyOf, ReadsOn
<1> HIDE DEF r
<1>3. r.cursor \in Cursors /\ r.value \in Cursors /\ Len(r.value.data) \in Nat
  BY <1>2, LenProperties DEF Onward, IsCursor, Cursors
<1>4. /\ x \in Position(f) /\ x.stage = "events" /\ x.outer = r.cursor /\ x.header = w.header
      /\ x.cursor = r.value /\ x.track = w.track
      /\ x.events = w.events /\ x.payload = w.payload
  <2>1. NoStatus \in Runs
    BY DEF Runs
  <2> QED BY <1>1, <1>2, <1>3, <2>1 DEF Position, InChunk, Stages
<1> HIDE DEF x
<1>5. /\ c.position \in Nat /\ c.base = 0 /\ AbsoluteOffset(c) = c.position /\ c.data = f
  BY <1>1 DEF InBytes, IsCursor, AbsoluteOffset
<1>6. InBytes(f, x)
  <2>1. r.cursor.data = f /\ r.cursor.base = 0
    BY <1>2, <1>5 DEF Onward
  <2>2. r.value.base + 1 = c.position + 9
    BY <1>2, <1>5
  <2>3. r.value.base + Len(r.value.data) = c.position + 8 + Len(r.value.data)
    BY <1>2, <1>3, <1>5
  <2>4. AbsoluteOffset(r.cursor) = c.position + 8 + Len(r.value.data)
    BY <1>2, <1>3, <1>5, <2>1 DEF AbsoluteOffset
  <2> QED BY <1>2, <1>4, <1>5, <2>1, <2>2, <2>3, <2>4 DEF InBytes
<1>7. InTracks(x)
  BY <1>1, <1>4 DEF InTracks
<1>8. At(w) <= At(x)
  <2>1. At(x) = AbsoluteOffset(r.value) /\ At(w) = AbsoluteOffset(w.outer)
    BY <1>4 DEF At
  <2> QED BY <1>2, <1>5, <2>1 DEF AbsoluteOffset
<1>9. Len(w.events) \in Nat /\ w.payload \in Nat
  BY PositionFields
<1> QED BY <1>4, <1>6, <1>7, <1>8, <1>9 DEF Follows, Farther, Positions, x, r

(* An event of a chunk is one of the file.                                 *)
LEMMA EventInFile ==
    ASSUME NEW f, NEW w \in Positions(f), w.stage = "events", EventOf(w).ok = TRUE
    PROVE  LET r == EventOf(w)
           IN  /\ r.value.event \in FileEvents(f) /\ Onward(w.cursor, r.cursor)
               /\ r.cursor.position > w.cursor.position
               /\ r.value.event.from = AbsoluteOffset(w.cursor)
               /\ r.value.event.to = AbsoluteOffset(r.cursor)
               /\ r.value.event.offset < AbsoluteOffset(r.cursor)
               /\ r.value.running \in Runs
               /\ r.value.running # NoStatus => r.value.event.status = r.value.running
<1> DEFINE r == EventOf(w)
           e == r.value.event
           c == w.cursor
<1>1. IsCursor(c) /\ w.running \in Runs /\ InBytes(f, w) /\ IsCursor(w.outer)
  BY PositionFields
<1>2. IsRead(c, r) /\ r.ok = TRUE
  BY <1>1, EventReads DEF EventOf
<1> HIDE DEF r
<1>3. EventRead(c, r) /\ Onward(c, r.cursor) /\ r.cursor.position > c.position
  BY <1>2 DEF IsRead, ReadsOn
<1>4. /\ r.value.running \in Runs
      /\ r.value.running # NoStatus => r.value.event.status = r.value.running
  BY <1>3, RunningKept
<1>5. /\ e \in Events /\ e.from = AbsoluteOffset(c) /\ e.offset < e.to /\ e.to = AbsoluteOffset(r.cursor)
      /\ ~IsChannel(e.status) => Payload(c, e.data, e.at, r.cursor)
  BY <1>3 DEF EventRead
<1> HIDE DEF e
<1>6. ASSUME ~IsChannel(e.status)
      PROVE  e.data = SubSeq(f, e.at + 1, e.at + Len(e.data)) /\ e.at + Len(e.data) = e.to
  <2>1. /\ c.base \in Nat /\ c.position \in Nat /\ Len(c.data) \in Nat /\ r.cursor.position \in Nat
        /\ r.cursor.position <= Len(c.data) /\ r.cursor.base = c.base
    BY <1>1, <1>3, LenProperties DEF IsCursor, Onward
  <2>2. f \in Seq(Byte) /\ Len(f) \in Nat /\ w.outer.position \in Nat /\ w.outer.position <= Len(f)
        /\ AbsoluteOffset(w.outer) = w.outer.position
    BY <1>1, LenProperties DEF InBytes, IsCursor, AbsoluteOffset
  <2>3. c.base + Len(c.data) <= Len(f)
    BY <1>1, <2>1, <2>2 DEF InBytes
  <2>4. e.at \in Nat /\ e.data \in Seq(Byte) /\ Len(e.data) \in Nat
    BY <1>5, LenProperties DEF Events
  <2>5. /\ c.base <= e.at /\ e.at + Len(e.data) = c.base + r.cursor.position
        /\ e.data = SubSeq(c.data, e.at - c.base + 1, e.at - c.base + Len(e.data))
    BY <1>5, <1>6, <2>1 DEF Payload, AbsoluteOffset
  <2>11. PICK b, n, i, j : b = c.base /\ n = Len(c.data) /\ i = e.at - c.base /\ j = Len(e.data)
    OBVIOUS
  <2>12. i \in Nat /\ b + i = e.at /\ i + j <= n
    <3>1. PICK a, q : a = e.at /\ q = r.cursor.position
      OBVIOUS
    <3>2. /\ a \in Nat /\ q \in Nat /\ b \in Nat /\ n \in Nat /\ j \in Nat
          /\ i = a - b /\ q <= n
      BY <2>1, <2>4, <2>11, <3>1
    <3>3. b <= a /\ a + j = b + q
      BY <2>5, <2>11, <3>1
    <3> QED BY <3>1, <3>2, <3>3
  <2>13. b + n <= Len(f)
    BY <2>3, <2>11
  <2>6. Within(f, b, n, i, j)
    BY <2>1, <2>2, <2>4, <2>11, <2>12, <2>13 DEF Within
  <2>7. SubSeq(SubSeq(f, b + 1, b + n), i + 1, i + j) = SubSeq(f, b + i + 1, b + i + j)
    <3>1. SamePart(f, b, n, i, j)
      BY <2>6, PartOfPart, Zenon
    <3> QED BY <3>1 DEF SamePart
  <2>8. c.data = SubSeq(f, b + 1, b + n)
    BY <1>1, <2>11 DEF InBytes
  <2>9. e.data = SubSeq(c.data, i + 1, i + j)
    BY <2>5, <2>11
  <2>10. e.data = SubSeq(f, b + i + 1, b + i + j)
    BY <2>7, <2>8, <2>9
  <2>14. e.at + Len(e.data) = e.to
    BY <1>5, <2>1, <2>5 DEF AbsoluteOffset
  <2>15. e.data = SubSeq(f, e.at + 1, e.at + Len(e.data))
    BY <2>11, <2>12, <2>10
  <2> QED BY <2>14, <2>15
<1>7. e \in FileEvents(f)
  BY <1>5, <1>6 DEF FileEvents
<1> QED BY <1>3, <1>4, <1>5, <1>7 DEF e, r

(* One of none counts as none.                                             *)
LEMMA CountedLength ==
    ASSUME NEW b \in BOOLEAN, NEW n \in Nat
    PROVE  One(b) * n = IF b THEN n ELSE 0
<1> QED BY DEF One

(* An event is read.                                                       *)
LEMMA EventFollows ==
    ASSUME NEW f, NEW w \in Positions(f), w.stage = "events", EventOf(w).ok = TRUE
    PROVE  Follows(f, w, PastEvent(w, EventOf(w)))
<1> DEFINE r == EventOf(w)
           e == r.value.event
           x == PastEvent(w, r)
<1>1. /\ w \in Position(f) /\ InBytes(f, w) /\ InTracks(w) /\ IsCursor(w.cursor)
      /\ w.events \in Seq(FileEvents(f)) /\ Len(w.events) \in Nat /\ w.payload \in Nat
  BY PositionFields DEF Positions
<1>2. /\ e \in FileEvents(f) /\ Onward(w.cursor, r.cursor) /\ r.value.running \in Runs
  BY EventInFile
<1> HIDE DEF r
<1>3. r.cursor \in Cursors
  BY <1>2 DEF Onward, IsCursor, Cursors
<1>4. Len(e.data) \in Nat /\ IsChannel(e.status) \in BOOLEAN
  BY <1>2, LenProperties DEF FileEvents, Events, IsChannel
<1>5. PICK p : p = w.payload + One(~IsChannel(e.status)) * Len(e.data) /\ p \in Nat /\ w.payload <= p
  <2>1. PICK b \in BOOLEAN, n \in Nat : b = (~IsChannel(e.status)) /\ n = Len(e.data)
    BY <1>4
  <2>2. One(b) * n \in Nat
    BY CountedLength
  <2>3. PICK m \in Nat : m = One(~IsChannel(e.status)) * Len(e.data)
    BY <2>1, <2>2
  <2>4. w.payload + m \in Nat /\ w.payload <= w.payload + m
    BY <1>1
  <2> QED BY <2>3, <2>4
<1>6. PICK s : s = Append(w.events, e) /\ s \in Seq(FileEvents(f)) /\ Len(w.events) <= Len(s)
  <2>1. PICK b, S, q : b = e /\ S = FileEvents(f) /\ q = w.events /\ b \in S /\ q \in Seq(S)
    BY <1>1, <1>2
  <2>2. Append(q, b) \in Seq(S) /\ Len(Append(q, b)) = Len(q) + 1
    BY <2>1, AppendProperties
  <2>3. Len(q) \in Nat
    BY <1>1, <2>1
  <2>4. Len(q) <= Len(Append(q, b))
    BY <2>2, <2>3
  <2> QED BY <2>1, <2>2, <2>4
<1>7. x = [w EXCEPT !.cursor = r.cursor, !.running = r.value.running, !.events = s, !.payload = p]
  BY <1>5, <1>6 DEF PastEvent
<1> HIDE DEF x, e
<1>8. /\ x \in Position(f) /\ x.stage = "events" /\ x.outer = w.outer /\ x.header = w.header
      /\ x.cursor = r.cursor /\ x.track = w.track
      /\ x.events = s /\ x.payload = p
  BY <1>1, <1>2, <1>3, <1>5, <1>6, <1>7 DEF Position
<1>9. InBytes(f, x)
  BY <1>1, <1>2, <1>8 DEF InBytes, Onward
<1>10. InTracks(x)
  BY <1>1, <1>8 DEF InTracks
<1>11. At(w) <= At(x)
  <2>1. At(x) = AbsoluteOffset(r.cursor) /\ At(w) = AbsoluteOffset(w.cursor)
    BY <1>8 DEF At
  <2> QED BY <1>1, <1>2, <2>1 DEF Onward, IsCursor, AbsoluteOffset
<1> QED BY <1>5, <1>6, <1>8, <1>9, <1>10, <1>11 DEF Follows, Farther, Positions, x, r

(* A chunk is read to its end.                                             *)
LEMMA CloseFollows ==
    ASSUME NEW f, NEW w \in Positions(f), w.stage = "events", Remaining(w.cursor) = 0
    PROVE  Follows(f, w, PastChunk(w))
<1> DEFINE x == PastChunk(w)
<1>1. /\ w \in Position(f) /\ InBytes(f, w) /\ InTracks(w) /\ IsCursor(w.cursor)
      /\ Len(w.events) \in Nat /\ w.payload \in Nat /\ w.track \in Nat /\ w.header.tracks \in Nat
  BY PositionFields DEF Positions
<1>2. /\ x \in Position(f) /\ x.stage = "chunk" /\ x.outer = w.outer /\ x.header = w.header
      /\ x.cursor = w.cursor /\ x.track = w.track + 1
      /\ x.events = w.events /\ x.payload = w.payload
  <2>1. PICK t \in Nat : t = w.track + 1
    BY <1>1
  <2>2. x = [w EXCEPT !.stage = "chunk", !.track = t]
    BY <2>1 DEF PastChunk
  <2> QED BY <1>1, <2>1, <2>2 DEF Position, Stages
<1> HIDE DEF x
<1>3. InBytes(f, x) /\ InTracks(x)
  BY <1>1, <1>2 DEF InBytes, InTracks
<1>4. At(w) <= At(x)
  <2>1. At(x) = AbsoluteOffset(w.outer) /\ At(w) = AbsoluteOffset(w.cursor)
    BY <1>2 DEF At
  <2>2. Len(w.cursor.data) \in Nat /\ w.cursor.position \in Nat /\ w.cursor.base \in Nat
    BY <1>1, LenProperties DEF IsCursor
  <2> QED BY <1>1, <2>1, <2>2 DEF InBytes, IsCursor, AbsoluteOffset
<1> QED BY <1>1, <1>2, <1>3, <1>4 DEF Follows, Farther, Positions, x

(* Every declared track is read.                                           *)
LEMMA FinishFollows ==
    ASSUME NEW f, NEW w \in Positions(f), w.stage = "chunk", w.track > w.header.tracks
    PROVE  Follows(f, w, Finished(w))
<1> DEFINE x == Finished(w)
<1>1. /\ w \in Position(f) /\ InBytes(f, w) /\ InTracks(w) /\ IsCursor(w.cursor)
      /\ Len(w.events) \in Nat /\ w.payload \in Nat /\ w.track \in Nat /\ w.header.tracks \in Nat
      /\ At(w) \in Nat
  BY PositionFields DEF Positions
<1>2. /\ x \in Position(f) /\ x.stage = "finished" /\ x.outer = w.outer /\ x.header = w.header
      /\ x.cursor = w.cursor /\ x.track = w.track
      /\ x.events = w.events /\ x.payload = w.payload
  BY <1>1 DEF Position, Finished, Stages
<1> HIDE DEF x
<1>3. InBytes(f, x) /\ InTracks(x)
  BY <1>1, <1>2 DEF InBytes, InTracks
<1>4. At(x) = At(w)
  BY <1>2 DEF At
<1> QED BY <1>1, <1>2, <1>3, <1>4 DEF Follows, Farther, Positions, x

(* Every step of a walk over a file goes on in it.                         *)
LEMMA OntoFollows ==
    ASSUME NEW f, NEW w \in Positions(f)
    PROVE  Follows(f, w, Onto(w))
<1>1. /\ w.stage \in Stages /\ w.track \in Nat /\ w.running \in Runs /\ w.header.tracks \in Nat
      /\ IsCursor(w.outer) /\ IsCursor(w.cursor) /\ At(w) \in Nat
      /\ Len(w.events) \in Nat /\ w.payload \in Nat
  BY PositionFields
<1>2. CASE w.stage = "header"
  <2>1. ReadsOn(HeaderOf(w), w.outer) /\ At(w) = AbsoluteOffset(w.outer)
    BY <1>1, <1>2, HeaderReads DEF HeaderOf, At
  <2>2. CASE HeaderOf(w).ok = TRUE
    BY <1>2, <2>2, HeaderFollows DEF Onto
  <2>3. CASE HeaderOf(w).ok = FALSE
    <3>1. IsError(HeaderOf(w), At(w))
      BY <2>1, <2>3 DEF ReadsOn
    <3>2. Onto(w) = Refused(w, HeaderOf(w))
      BY <1>2, <2>3 DEF Onto
    <3> QED BY <1>2, <3>1, <3>2, RefusedFollows
  <2> QED BY <2>1, <2>2, <2>3 DEF ReadsOn
<1>3. CASE w.stage = "chunk" /\ w.track <= w.header.tracks
  <2>1. ReadsOn(BodyOf(w), w.outer) /\ At(w) = AbsoluteOffset(w.outer)
    BY <1>1, <1>3, BodyReads DEF BodyOf, At
  <2>2. CASE BodyOf(w).ok = TRUE
    <3>1. Onto(w) = InChunk(w, BodyOf(w))
      BY <1>1, <1>3, <2>2 DEF Onto
    <3> QED BY <1>3, <2>2, <3>1, ChunkFollows
  <2>3. CASE BodyOf(w).ok = FALSE
    <3>1. IsError(BodyOf(w), At(w))
      BY <2>1, <2>3 DEF ReadsOn
    <3>2. Onto(w) = Refused(w, BodyOf(w))
      BY <1>1, <1>3, <2>3 DEF Onto
    <3> QED BY <1>3, <3>1, <3>2, RefusedFollows
  <2> QED BY <2>1, <2>2, <2>3 DEF ReadsOn
<1>4. CASE w.stage = "chunk" /\ w.track > w.header.tracks
  <2>1. Onto(w) = Finished(w)
    BY <1>1, <1>4 DEF Onto
  <2> QED BY <1>4, <2>1, FinishFollows
<1>5. CASE w.stage = "events" /\ Remaining(w.cursor) # 0
  <2>1. ReadsOn(EventOf(w), w.cursor) /\ At(w) = AbsoluteOffset(w.cursor)
    BY <1>1, <1>5, EventReads DEF EventOf, At, IsRead
  <2>2. CASE EventOf(w).ok = TRUE
    BY <1>5, <2>2, EventFollows DEF Onto
  <2>3. CASE EventOf(w).ok = FALSE
    <3>1. IsError(EventOf(w), At(w))
      BY <2>1, <2>3 DEF ReadsOn
    <3>2. Onto(w) = Refused(w, EventOf(w))
      BY <1>5, <2>3 DEF Onto
    <3> QED BY <1>5, <3>1, <3>2, RefusedFollows
  <2> QED BY <2>1, <2>2, <2>3 DEF ReadsOn
<1>6. CASE w.stage = "events" /\ Remaining(w.cursor) = 0
  <2>1. Onto(w) = PastChunk(w)
    BY <1>6 DEF Onto
  <2> QED BY <1>6, <2>1, CloseFollows
<1>7. CASE w.stage \in {"finished", "refused"}
  <2>1. Onto(w) = w
    BY <1>7 DEF Onto
  <2> QED BY <1>1, <1>7, <2>1 DEF Follows, Farther
<1> QED BY <1>1, <1>2, <1>3, <1>4, <1>5, <1>6, <1>7 DEF Stages

--------------------------------------------------------------------------------

(* The first m steps of an iteration. *)
Path(S, step, start0, h, m) ==
    /\ h \in [0..m -> S] /\ h[0] = start0
    /\ \A n \in 0..m : n # 0 => h[n] = step[h[n - 1]]

Iterates(S, step, start0, g) ==
    g \in [Nat -> S] /\ g[0] = start0 /\ \A n \in Nat : g[n + 1] = step[g[n]]

(* A function can be iterated for ever.                                    *)
LEMMA IterationExists ==
    ASSUME NEW S, NEW start0 \in S, NEW step \in [S -> S]
    PROVE  \E g : Iterates(S, step, start0, g)
<1>1. \A m \in Nat : \E h : Path(S, step, start0, h, m)
  <2> DEFINE T == {m \in Nat : \E h : Path(S, step, start0, h, m)}
  <2>1. 0 \in T
    <3> DEFINE h == [n \in 0..0 |-> start0]
    <3>1. Path(S, step, start0, h, 0)
      BY DEF Path
    <3> HIDE DEF h
    <3> QED BY <3>1
  <2>2. ASSUME NEW m \in Nat, m \in T
        PROVE  m + 1 \in T
    <3>1. PICK h : Path(S, step, start0, h, m)
      BY <2>2
    <3> DEFINE k == [n \in 0..(m + 1) |-> IF n = m + 1 THEN step[h[m]] ELSE h[n]]
    <3>2. /\ h \in [0..m -> S] /\ h[0] = start0 /\ m \in 0..m /\ 0 \in 0..(m + 1) /\ 0 # m + 1
          /\ \A n \in 0..m : n # 0 => h[n] = step[h[n - 1]]
      BY <3>1 DEF Path
    <3>3. h[m] \in S /\ step[h[m]] \in S
      BY <3>2
    <3>4. k \in [0..(m + 1) -> S] /\ k[0] = start0
      BY <3>2, <3>3
    <3>5. ASSUME NEW n \in 0..(m + 1), n # 0
          PROVE  k[n] = step[k[n - 1]]
      <4>1. n - 1 \in 0..m /\ n - 1 # m + 1 /\ n - 1 \in 0..(m + 1)
        BY <3>5
      <4>2. k[n - 1] = h[n - 1]
        BY <4>1
      <4>3. CASE n = m + 1
        <5>1. n - 1 = m
          BY <4>3
        <5> QED BY <4>2, <4>3, <5>1
      <4>4. CASE n # m + 1
        <5>1. n \in 0..m
          BY <4>4
        <5>2. k[n] = h[n]
          BY <4>4
        <5> QED BY <3>2, <3>5, <4>2, <5>1, <5>2
      <4> QED BY <4>3, <4>4
    <3> HIDE DEF k
    <3>6. Path(S, step, start0, k, m + 1)
      BY <3>4, <3>5 DEF Path
    <3> QED BY <3>6
  <2> HIDE DEF T
  <2>3. Nat \subseteq T
    BY <2>1, <2>2, SetInduction
  <2> QED BY <2>3 DEF T
<1>2. ASSUME NEW m \in Nat, NEW k \in Nat, m <= k, NEW h, Path(S, step, start0, h, m),
             NEW i, Path(S, step, start0, i, k)
      PROVE  h[m] = i[m]
  <2> DEFINE T == {n \in Nat : n <= m => h[n] = i[n]}
  <2>1. 0 \in T
    BY <1>2 DEF Path
  <2>2. ASSUME NEW n \in Nat, n \in T
        PROVE  n + 1 \in T
    <3> SUFFICES ASSUME n + 1 <= m
                 PROVE  h[n + 1] = i[n + 1]
      OBVIOUS
    <3>1. n + 1 \in 0..m /\ n + 1 \in 0..k /\ n + 1 # 0 /\ (n + 1) - 1 = n /\ h[n] = i[n]
      BY <1>2, <2>2
    <3>2. h[n + 1] = step[h[n]]
      BY <1>2, <3>1 DEF Path
    <3>3. i[n + 1] = step[i[n]]
      BY <1>2, <3>1 DEF Path
    <3> QED BY <3>1, <3>2, <3>3
  <2> HIDE DEF T
  <2>3. Nat \subseteq T
    BY <2>1, <2>2, SetInduction
  <2> QED BY <2>3 DEF T
<1> DEFINE P(m) == CHOOSE h : Path(S, step, start0, h, m)
<1>3. \A m \in Nat : Path(S, step, start0, P(m), m)
  BY <1>1
<1> HIDE DEF P
<1> DEFINE g == [m \in Nat |-> P(m)[m]]
<1>4. \A m \in Nat : P(m)[m] \in S
  <2> SUFFICES ASSUME NEW m \in Nat
               PROVE  P(m)[m] \in S
    OBVIOUS
  <2>1. P(m) \in [0..m -> S] /\ m \in 0..m
    BY <1>3 DEF Path
  <2> QED BY <2>1
<1>5. g \in [Nat -> S]
  BY <1>4
<1>6. g[0] = start0
  BY <1>3 DEF Path
<1>7. ASSUME NEW n \in Nat
      PROVE  g[n + 1] = step[g[n]]
  <2>1. n + 1 \in Nat /\ n <= n + 1 /\ n + 1 \in 0..(n + 1) /\ n + 1 # 0 /\ (n + 1) - 1 = n
    OBVIOUS
  <2>2. Path(S, step, start0, P(n + 1), n + 1) /\ Path(S, step, start0, P(n), n)
    BY <1>3, <2>1
  <2>3. P(n + 1)[n + 1] = step[P(n + 1)[n]]
    BY <2>1, <2>2 DEF Path
  <2>4. P(n)[n] = P(n + 1)[n]
    BY <1>2, <2>1, <2>2
  <2> QED BY <2>1, <2>3, <2>4
<1> HIDE DEF g
<1> QED BY <1>5, <1>6, <1>7 DEF Iterates

(* The one walk over a file that every decoder follows. *)
IsWalk(f, g) ==
    g \in [Nat -> Positions(f)] /\ g[0] = WalkStart(f) /\ \A n \in Nat : g[n + 1] = Onto(g[n])
Walk(f) == CHOOSE g : IsWalk(f, g)

Stopped(w) == w.stage \in {"finished", "refused"}

(* A walk starts in its file.                                              *)
LEMMA StartIn ==
    ASSUME NEW f \in Seq(Byte)
    PROVE  WalkStart(f) \in Positions(f)
<1> DEFINE w == WalkStart(f)
<1>1. <<>> \in Seq(Byte) /\ Len(f) \in Nat /\ Len(<<>>) = 0
  BY LenProperties, EmptySeq
<1>2. PICK c, d : c = CursorAt(f, 0) /\ d = NoChunk
  OBVIOUS
<1>3. /\ c \in Cursors /\ d \in Cursors /\ c.data = f /\ c.base = 0
      /\ d.data = <<>> /\ d.base = 0 /\ d.position = 0
  <2>1. c = [data |-> f, position |-> 0, base |-> 0] /\ d = [data |-> <<>>, position |-> 0, base |-> 0]
    BY <1>2 DEF CursorAt, NoChunk
  <2> QED BY <1>1, <2>1 DEF Cursors
<1>4. <<>> \in Seq(FileEvents(f))
  BY EmptySeq
<1>5. NoHeader \in Headers /\ NoHeader.tracks = 0 /\ NoStatus \in Runs
  BY DEF NoHeader, Headers, Runs
<1>6. /\ w \in Position(f) /\ w.stage = "header" /\ w.outer = c /\ w.cursor = d /\ w.track = 1
      /\ w.header = NoHeader
  BY <1>2, <1>3, <1>4, <1>5 DEF WalkStart, Position, Stages
<1> HIDE DEF w
<1>7. InBytes(f, w)
  <2>1. SubSeq(f, d.base + 1, d.base + Len(d.data)) = <<>>
    <3>1. d.base + 1 = 1 /\ d.base + Len(d.data) = 0
      BY <1>1, <1>3
    <3>2. SubSeq(f, 1, 0) = <<>>
      BY SubSeqEmpty
    <3> QED BY <3>1, <3>2
  <2>2. Remaining(d) = 0
    BY <1>1, <1>3 DEF Remaining
  <2>3. d.data = SubSeq(f, d.base + 1, d.base + Len(d.data))
    BY <1>3, <2>1
  <2> QED BY <1>3, <1>6, <2>2, <2>3 DEF InBytes
<1>8. InTracks(w)
  BY <1>5, <1>6 DEF InTracks
<1> QED BY <1>6, <1>7, <1>8 DEF Positions, w

(* Every file has its walk.                                                *)
LEMMA WalkExists ==
    ASSUME NEW f \in Seq(Byte)
    PROVE  IsWalk(f, Walk(f))
<1> DEFINE S == Positions(f)
           step == [w \in S |-> Onto(w)]
<1>1. WalkStart(f) \in S
  BY StartIn
<1>2. \A w \in S : Onto(w) \in S
  BY OntoFollows DEF Follows
<1>3. step \in [S -> S]
  BY <1>2
<1> HIDE DEF step
<1>4. PICK g \in [Nat -> S] : g[0] = WalkStart(f) /\ \A n \in Nat : g[n + 1] = step[g[n]]
  <2> HIDE DEF S
  <2>1. \E g : Iterates(S, step, WalkStart(f), g)
    BY <1>1, <1>3, IterationExists
  <2> QED BY <2>1 DEF Iterates
<1>5. \A n \in Nat : g[n + 1] = Onto(g[n])
  BY <1>4 DEF step
<1>6. IsWalk(f, g)
  BY <1>4, <1>5 DEF IsWalk
<1> QED BY <1>6 DEF Walk

(* The steps of a walk.                                                    *)
LEMMA WalkSteps ==
    ASSUME NEW f \in Seq(Byte), NEW n \in Nat
    PROVE  /\ Walk(f)[n] \in Positions(f) /\ Walk(f)[0] = WalkStart(f)
           /\ Walk(f)[n + 1] = Onto(Walk(f)[n])
           /\ Walk(f)[n + 1] \in Positions(f) /\ Farther(Walk(f)[n], Walk(f)[n + 1])
<1>1. IsWalk(f, Walk(f))
  BY WalkExists
<1> DEFINE g == Walk(f)
<1> HIDE DEF g
<1>2. g[n] \in Positions(f) /\ g[0] = WalkStart(f) /\ g[n + 1] = Onto(g[n])
  BY <1>1 DEF IsWalk, g
<1>3. Follows(f, g[n], Onto(g[n]))
  BY <1>2, OntoFollows
<1> QED BY <1>2, <1>3 DEF Follows, g

(* Later on a walk nothing is lost.                                        *)
LEMMA WalkOn ==
    ASSUME NEW f \in Seq(Byte), NEW i \in Nat, NEW j \in Nat, i <= j
    PROVE  Farther(Walk(f)[i], Walk(f)[j])
<1> DEFINE g == Walk(f)
           T == {n \in Nat : i <= n => Farther(g[i], g[n])}
<1>1. \A n \in Nat : g[n] \in Positions(f) /\ Farther(g[n], g[n + 1])
  BY WalkSteps
<1> HIDE DEF g
<1>2. \A n \in Nat : Len(g[n].events) \in Nat /\ g[n].payload \in Nat /\ At(g[n]) \in Nat
  BY <1>1, PositionFields
<1>3. Farther(g[i], g[i])
  <2>1. PICK w : w = g[i]
    OBVIOUS
  <2>2. Len(w.events) \in Nat /\ w.payload \in Nat /\ At(w) \in Nat
    BY <1>2, <2>1
  <2>3. Farther(w, w)
    BY <2>2 DEF Farther
  <2> QED BY <2>1, <2>3
<1>4. 0 \in T
  BY <1>3
<1>5. ASSUME NEW n \in Nat, n \in T
      PROVE  n + 1 \in T
  <2> SUFFICES ASSUME i <= n + 1
               PROVE  Farther(g[i], g[n + 1])
    OBVIOUS
  <2>1. CASE i = n + 1
    BY <1>3, <2>1
  <2>2. CASE i <= n
    <3>1. Farther(g[i], g[n]) /\ Farther(g[n], g[n + 1])
      BY <1>1, <1>5, <2>2
    <3>2. PICK a, b, c : a = g[i] /\ b = g[n] /\ c = g[n + 1]
      OBVIOUS
    <3>3. /\ Len(a.events) \in Nat /\ a.payload \in Nat /\ At(a) \in Nat
          /\ Len(b.events) \in Nat /\ b.payload \in Nat /\ At(b) \in Nat
          /\ Len(c.events) \in Nat /\ c.payload \in Nat /\ At(c) \in Nat
      <4>1. n + 1 \in Nat
        OBVIOUS
      <4> QED BY <1>2, <3>2, <4>1
    <3>4. Farther(a, b) /\ Farther(b, c)
      BY <3>1, <3>2
    <3>5. Farther(a, c)
      BY <3>3, <3>4 DEF Farther
    <3> QED BY <3>2, <3>5
  <2> QED BY <2>1, <2>2
<1> HIDE DEF T
<1>6. Nat \subseteq T
  BY <1>4, <1>5, SetInduction
<1> QED BY <1>6 DEF T, g

(* A walk that has stopped stays where it is.                              *)
LEMMA WalkStays ==
    ASSUME NEW f \in Seq(Byte), NEW i \in Nat, NEW j \in Nat, i <= j, Stopped(Walk(f)[i])
    PROVE  Walk(f)[j] = Walk(f)[i]
<1> DEFINE g == Walk(f)
           T == {n \in Nat : i <= n => g[n] = g[i]}
<1>1. \A n \in Nat : g[n + 1] = Onto(g[n])
  BY WalkSteps
<1>2. g[i].stage \in {"finished", "refused"}
  BY DEF Stopped
<1> HIDE DEF g
<1>3. Onto(g[i]) = g[i]
  BY <1>2 DEF Onto
<1>4. 0 \in T
  OBVIOUS
<1>5. ASSUME NEW n \in Nat, n \in T
      PROVE  n + 1 \in T
  <2>1. CASE i = n + 1
    BY <2>1
  <2>2. CASE i <= n
    <3>1. g[n] = g[i] /\ g[n + 1] = Onto(g[n])
      BY <1>1, <1>5, <2>2
    <3> QED BY <1>3, <3>1
  <2> QED BY <2>1, <2>2
<1> HIDE DEF T
<1>6. Nat \subseteq T
  BY <1>4, <1>5, SetInduction
<1> QED BY <1>6 DEF T, g

(* A walk has one end.                                                     *)
LEMMA WalkEnds ==
    ASSUME NEW f \in Seq(Byte), NEW i \in Nat, NEW j \in Nat,
           Stopped(Walk(f)[i]), Stopped(Walk(f)[j])
    PROVE  Walk(f)[i] = Walk(f)[j]
<1>1. i <= j \/ j <= i
  OBVIOUS
<1> QED BY <1>1, WalkStays

(* What has not stopped is before the end, and so is its next step.        *)
LEMMA WalkBefore ==
    ASSUME NEW f \in Seq(Byte), NEW i \in Nat, NEW j \in Nat,
           ~Stopped(Walk(f)[i]), Stopped(Walk(f)[j])
    PROVE  i + 1 <= j /\ Farther(Walk(f)[i], Walk(f)[j]) /\ Farther(Walk(f)[i + 1], Walk(f)[j])
<1>1. ~(j <= i)
  BY WalkStays
<1>2. i + 1 <= j /\ i <= j /\ i + 1 \in Nat
  BY <1>1
<1> QED BY <1>2, WalkOn

--------------------------------------------------------------------------------

Summaries == [header : Headers, events : Nat, channel : Nat, meta : Nat, sysex : Nat,
              payload : Nat, maxDelta : Nat, consumed : Nat, trailing : Nat]
Records == [event : Events, start : Nat, len : Nat]
Ranges == [start : Nat, len : Nat]
OwnedFiles == [header : Headers, tracks : Seq(Ranges), events : Seq(Records),
               payloads : Seq(Byte), consumed : Nat, trailing : Nat]
ScoreEvents == [event : Events, track : Nat, time : Nat]
ScoredFiles == [header : Headers, events : Seq(ScoreEvents), text : Nat, consumed : Nat, trailing : Nat]

(* The decoder at work is where w is. *)
Placed(w) ==
    stage = w.stage /\ outer = w.outer /\ track = w.track /\ cursor = w.cursor /\ running = w.running

Typed ==
    /\ file \in Seq(Byte) /\ turn \in Decoders \cup {"done"}
    /\ stage \in {"header", "chunk", "events"}
    /\ answer = [d \in Decoders |-> answer[d]]
    /\ summary \in Summaries /\ owned \in OwnedFiles /\ scored \in ScoredFiles
    /\ summary.events = summary.channel + summary.meta + summary.sysex
    /\ start \in 0..Len(owned.events) /\ time \in Nat
    /\ turn = "done" => Placed(WalkStart(file))

StoredEvents == [i \in DOMAIN owned.events |-> owned.events[i].event]
HeardEvents == [i \in DOMAIN scored.events |-> scored.events[i].event]

(* What each decoder has built when it is where w is. *)
Counted(w) == summary.header = w.header /\ summary.events = Len(w.events) /\ summary.payload = w.payload
Stored(w) == StoredEvents = w.events /\ Len(owned.payloads) = w.payload
Heard(w) == scored.header = w.header /\ HeardEvents = w.events /\ scored.text <= 3 * w.payload
Left(built, w) == built.consumed = AbsoluteOffset(w.outer) /\ built.trailing = Remaining(w.outer)
TakenOver ==
    owned.header = summary.header /\ owned.consumed = summary.consumed /\ owned.trailing = summary.trailing

(* The answer of a decoder that has stopped at w. *)
Fault(w) == [ok |-> FALSE, done |-> TRUE, kind |-> w.kind, offset |-> w.offset]
Verdict(a, w) ==
    \/ a = Ok /\ w.stage = "finished"
    \/ a = Fault(w) /\ w.stage = "refused"

(* The score parser alone refuses an event it has read, or what it has heard. *)
BadMeta(a, w, x) ==
    /\ a = [ok |-> FALSE, done |-> TRUE, kind |-> a.kind, offset |-> a.offset]
    /\ a.offset \in Nat /\ ~Stopped(w)
    /\ \/ a.kind = "InvalidMetaEvent" /\ a.offset < At(x)
       \/ /\ a.kind = "SizeOverflow" /\ a.offset <= At(x)
          /\ Len(x.events) > U32Max \/ 3 * x.payload > U32Max

(* The owned parser alone refuses what 32 bits do not index. *)
TooLarge(a) ==
    /\ a = [ok |-> FALSE, done |-> TRUE, kind |-> "SizeOverflow", offset |-> a.offset]
    /\ a.offset \in Nat

ScanFollows ==
    IF turn = "scan"
    THEN /\ answer["scan"] = Pending
         /\ \E n \in Nat : Placed(Walk(file)[n]) /\ Counted(Walk(file)[n])
    ELSE \E n \in Nat : /\ Verdict(answer["scan"], Walk(file)[n]) /\ Counted(Walk(file)[n])
                        /\ answer["scan"] = Ok => Left(summary, Walk(file)[n])

OwnedFollows ==
    IF turn = "scan" \/ (turn # "owned" /\ answer["scan"] # Ok)
    THEN answer["owned"] = Pending /\ owned = EmptyOwned
    ELSE IF turn = "owned"
    THEN /\ answer["scan"] = Ok /\ answer["owned"] = Pending
         /\ Len(owned.tracks) = track - 1 /\ (stage # "header" => TakenOver)
         /\ stage # "events" => Len(owned.events) <= U32Max
         /\ \E n \in Nat : Placed(Walk(file)[n]) /\ Stored(Walk(file)[n])
    ELSE \/ /\ answer["owned"] = Ok
            /\ Len(owned.tracks) = summary.header.tracks /\ TakenOver
            /\ Len(owned.events) <= U32Max
            /\ \E n \in Nat : Walk(file)[n].stage = "finished" /\ Stored(Walk(file)[n])
         \/ /\ TooLarge(answer["owned"]) /\ owned = EmptyOwned
            /\ summary.events > U32Max \/ summary.payload > U32Max

ScoreFollows ==
    IF turn \in {"scan", "owned"} THEN answer["score"] = Pending /\ scored = EmptyScored
    ELSE IF turn = "score"
    THEN /\ answer["score"] = Pending
         /\ \E n \in Nat : Placed(Walk(file)[n]) /\ Heard(Walk(file)[n])
    ELSE \E n \in Nat :
            \/ /\ Verdict(answer["score"], Walk(file)[n])
               /\ answer["score"] = Ok => Heard(Walk(file)[n]) /\ Left(scored, Walk(file)[n])
            \/ BadMeta(answer["score"], Walk(file)[n], Walk(file)[n + 1])

Follow == ScanFollows /\ OwnedFollows /\ ScoreFollows
IInv == Typed /\ Follow /\ RunningFollowsChannel

(* The two words a decoder can answer with are two, and no error is one.   *)
LEMMA AnswersDiffer ==
    /\ Pending # Ok /\ Pending.ok = TRUE /\ Pending.done = FALSE /\ Ok.ok = TRUE /\ Ok.done = TRUE
    /\ \A w : Fault(w) # Ok /\ Fault(w).ok = FALSE /\ Fault(w).done = TRUE
              /\ Fault(w).kind = w.kind /\ Fault(w).offset = w.offset
<1>1. Pending.ok = TRUE /\ Pending.done = FALSE
  BY DEF Pending
<1>2. Ok.ok = TRUE /\ Ok.done = TRUE
  BY DEF Ok
<1>3. \A w : /\ Fault(w).ok = FALSE /\ Fault(w).done = TRUE
             /\ Fault(w).kind = w.kind /\ Fault(w).offset = w.offset
  BY DEF Fault
<1> QED BY <1>1, <1>2, <1>3

(* A decoder that begins.                                                  *)
LEMMA BeginPlaced ==
    ASSUME NEW f \in Seq(Byte)
    PROVE  /\ Walk(f)[0] = WalkStart(f) /\ WalkStart(f).stage = "header"
           /\ WalkStart(f).header = NoHeader /\ WalkStart(f).events = <<>>
           /\ WalkStart(f).payload = 0 /\ WalkStart(f).outer = CursorAt(f, 0)
           /\ WalkStart(f).track = 1 /\ WalkStart(f).cursor = NoChunk
           /\ WalkStart(f).running = NoStatus
<1>1. Walk(f)[0] = WalkStart(f)
  BY WalkSteps
<1> QED BY <1>1 DEF WalkStart

(* What there is before a decoder has begun.                               *)
LEMMA EmptyResults ==
    /\ EmptySummary \in Summaries /\ EmptyOwned \in OwnedFiles /\ EmptyScored \in ScoredFiles
    /\ EmptySummary.header = NoHeader /\ EmptySummary.events = 0 /\ EmptySummary.payload = 0
    /\ EmptySummary.channel = 0 /\ EmptySummary.meta = 0 /\ EmptySummary.sysex = 0
    /\ EmptyOwned.events = <<>> /\ EmptyOwned.payloads = <<>> /\ EmptyOwned.tracks = <<>>
    /\ EmptyScored.header = NoHeader /\ EmptyScored.events = <<>> /\ EmptyScored.text = 0
    /\ Len(EmptyOwned.events) = 0 /\ Len(EmptyOwned.payloads) = 0 /\ Len(EmptyOwned.tracks) = 0
<1>1. NoHeader \in Headers
  BY DEF NoHeader, Headers
<1>2. EmptySummary \in Summaries
  BY <1>1 DEF EmptySummary, Summaries
<1>3. <<>> \in Seq(Ranges) /\ <<>> \in Seq(Records) /\ <<>> \in Seq(Byte) /\ <<>> \in Seq(ScoreEvents)
  BY EmptySeq
<1>4. EmptyOwned \in OwnedFiles
  BY <1>1, <1>3 DEF EmptyOwned, OwnedFiles
<1>5. EmptyScored \in ScoredFiles
  BY <1>1, <1>3 DEF EmptyScored, ScoredFiles
<1>6. Len(<<>>) = 0
  BY EmptySeq
<1> QED BY <1>2, <1>4, <1>5, <1>6 DEF EmptySummary, EmptyOwned, EmptyScored

(* The records of the owned parser are as many as the events it met.       *)
LEMMA StoredLength ==
    ASSUME NEW f, NEW w \in Positions(f), owned \in OwnedFiles, Stored(w)
    PROVE  Len(owned.events) = Len(w.events) /\ Len(w.events) \in Nat /\ w.payload \in Nat
<1> DEFINE s == owned.events
           T == {s[i].event : i \in DOMAIN s}
<1>1. s \in Seq(Records) /\ Len(s) \in Nat /\ DOMAIN s = 1..Len(s)
  BY LenProperties DEF OwnedFiles
<1>2. StoredEvents = [i \in 1..Len(s) |-> s[i].event]
  BY <1>1 DEF StoredEvents
<1>3. StoredEvents \in [1..Len(s) -> T]
  BY <1>1, <1>2
<1>4. Len(StoredEvents) = Len(s)
  <2> HIDE DEF s, T
  <2> QED BY <1>1, <1>3, LenProperties, SeqDef
<1> QED BY <1>4, PositionFields DEF Stored

(* The score parser has heard as many events as it met.                    *)
LEMMA HeardLength ==
    ASSUME NEW f, NEW w \in Positions(f), scored \in ScoredFiles, Heard(w)
    PROVE  Len(scored.events) = Len(w.events) /\ Len(w.events) \in Nat /\ w.payload \in Nat
<1> DEFINE s == scored.events
           T == {s[i].event : i \in DOMAIN s}
<1>1. s \in Seq(ScoreEvents) /\ Len(s) \in Nat /\ DOMAIN s = 1..Len(s)
  BY LenProperties DEF ScoredFiles
<1>2. HeardEvents = [i \in 1..Len(s) |-> s[i].event]
  BY <1>1 DEF HeardEvents
<1>3. HeardEvents \in [1..Len(s) -> T]
  BY <1>1, <1>2
<1>4. Len(HeardEvents) = Len(s)
  <2> HIDE DEF s, T
  <2> QED BY <1>1, <1>3, LenProperties, SeqDef
<1> QED BY <1>4, PositionFields DEF Heard

(* The bytes of a file are bytes.                                          *)
LEMMA FileBytes ==
    ASSUME NEW f \in Files
    PROVE  f \in Seq(Byte)
<1> QED BY FilesAssumption DEF Byte

(* At the start.                                                           *)
LEMMA InitIInv ==
    ASSUME Init
    PROVE  IInv
<1>1. file \in Seq(Byte)
  BY FileBytes DEF Init
<1>2. PICK w : w = WalkStart(file) /\ w = Walk(file)[0]
  BY <1>1, BeginPlaced
<1>3. Placed(w) /\ stage = "header" /\ running = NoStatus
  BY <1>1, <1>2, BeginPlaced DEF Init, Placed
<1>4. /\ summary = EmptySummary /\ owned = EmptyOwned /\ scored = EmptyScored
      /\ turn = "scan" /\ start = 0 /\ time = 0
      /\ answer = [d \in Decoders |-> Pending]
  BY DEF Init
<1>5. Typed
  <2>1. answer = [d \in Decoders |-> answer[d]]
    BY <1>4
  <2>2. start \in 0..Len(owned.events)
    <3>1. Len(<<>>) = 0
      BY EmptySeq
    <3> QED BY <1>4, <3>1, EmptyResults
  <2>3. summary.events = summary.channel + summary.meta + summary.sysex
    BY <1>4, EmptyResults
  <2> QED BY <1>1, <1>3, <1>4, <2>1, <2>2, <2>3, EmptyResults DEF Typed, Decoders
<1>6. \A d \in Decoders : answer[d] = Pending
  BY <1>4
<1>7. ScanFollows
  <2>1. Counted(w)
    <3>1. Len(<<>>) = 0
      BY EmptySeq
    <3> QED BY <1>1, <1>2, <1>4, <3>1, EmptyResults, BeginPlaced DEF Counted
  <2> QED BY <1>2, <1>3, <1>4, <1>6, <2>1 DEF ScanFollows, Decoders
<1>8. OwnedFollows /\ ScoreFollows
  <2>1. answer["owned"] = Pending /\ answer["score"] = Pending
    BY <1>6 DEF Decoders
  <2>2. OwnedFollows
    BY <1>4, <2>1 DEF OwnedFollows
  <2>3. ScoreFollows
    BY <1>4, <2>1 DEF ScoreFollows
  <2> QED BY <2>2, <2>3
<1>9. RunningFollowsChannel
  BY <1>3 DEF RunningFollowsChannel
<1> QED BY <1>5, <1>7, <1>8, <1>9 DEF IInv, Follow

--------------------------------------------------------------------------------

(* What the decoder at work has built when it is where w is. *)
Built(w) ==
    /\ turn = "scan" => Counted(w)
    /\ turn = "owned" => /\ Stored(w) /\ Len(owned.tracks) = track - 1
                         /\ stage # "header" => TakenOver
                         /\ stage # "events" => Len(owned.events) <= U32Max
    /\ turn = "score" => Heard(w)

(* The decoder at work is at w, and x is next; the second pass is sure of it. *)
Stands(w, x) ==
    /\ Typed /\ RunningFollowsChannel /\ turn \in Decoders
    /\ w \in Positions(file) /\ x \in Positions(file) /\ x = Onto(w) /\ Placed(w) /\ Built(w)
    /\ turn = "owned" => /\ x.stage # "refused" /\ (x.stage # "header" => x.header = summary.header)
                         /\ w.stage # "header" => w.header = summary.header

(* It comes to x, or stops there. *)
Moved(x) ==
    /\ UNCHANGED <<file, turn, answer>>
    /\ Typed' /\ RunningFollowsChannel' /\ Placed(x)' /\ Built(x)'
    /\ turn # "scan" => UNCHANGED summary
    /\ turn # "owned" => UNCHANGED owned
    /\ turn # "score" => UNCHANGED scored
Stops(w, x) ==
    /\ turn # "owned" /\ x.stage = "refused" /\ Answer(Fault(x)) /\ UNCHANGED results
    /\ x.header = w.header /\ x.events = w.events /\ x.payload = w.payload
StopsBadly(w, x) ==
    /\ turn = "score" /\ UNCHANGED results
    /\ \E a : BadMeta(a, w, x) /\ Answer(a)
StopsLarge(x) ==
    /\ turn = "owned" /\ owned' = EmptyOwned /\ UNCHANGED <<summary, scored>>
    /\ \E a : TooLarge(a) /\ Answer(a)
    /\ Len(x.events) > U32Max \/ x.payload > U32Max

(* An error stops the decoder where it was met.                            *)
LEMMA RefuseStops ==
    ASSUME NEW w, w \in Positions(file), NEW r, NEW x, x = Refused(w, r), turn # "owned", Refuse(r)
    PROVE  Stops(w, x)
<1>1. w \in Position(file)
  BY DEF Positions
<1>2. /\ x.stage = "refused" /\ x.kind = r.kind /\ x.offset = r.offset
      /\ x.header = w.header /\ x.events = w.events /\ x.payload = w.payload
  BY <1>1 DEF Refused, Position
<1>3. Answer([ok |-> FALSE, done |-> TRUE, kind |-> r.kind, offset |-> r.offset]) /\ UNCHANGED results
  BY DEF Refuse, results
<1>4. Fault(x) = [ok |-> FALSE, done |-> TRUE, kind |-> r.kind, offset |-> r.offset]
  BY <1>2 DEF Fault
<1> QED BY <1>2, <1>3, <1>4 DEF Stops

(* A number is converted to 32 bits, or is too large for them.             *)
LEMMA ToU32Reads ==
    ASSUME NEW n \in Nat, NEW c
    PROVE  LET r == ToU32(n, c)
           IN  \/ n <= U32Max /\ r = Read(n, c) /\ r.ok = TRUE /\ r.value = n /\ r.cursor = c
               \/ n > U32Max /\ r.ok = FALSE /\ r.kind = "SizeOverflow" /\ r.offset = AbsoluteOffset(c)
<1>1. U32Max \in Nat
  BY U32MaxAssumption
<1>2. CASE n > U32Max
  BY <1>2 DEF ToU32, Error
<1>3. CASE n <= U32Max
  <2>1. ToU32(n, c) = Read(n, c)
    BY <1>1, <1>3 DEF ToU32
  <2> QED BY <1>3, <2>1 DEF Read
<1>4. n > U32Max \/ n <= U32Max
  BY <1>1
<1> QED BY <1>2, <1>3, <1>4, Zenon

(* The owned parser stops at what it cannot index, and drops its file.     *)
LEMMA RefuseLarge ==
    ASSUME NEW x, NEW r, turn = "owned", r.kind = "SizeOverflow", r.offset \in Nat, Refuse(r),
           Len(x.events) > U32Max \/ x.payload > U32Max
    PROVE  StopsLarge(x)
<1>1. PICK a : a = [ok |-> FALSE, done |-> TRUE, kind |-> r.kind, offset |-> r.offset]
  OBVIOUS
<1>2. Answer(a) /\ owned' = EmptyOwned /\ UNCHANGED <<summary, scored>>
  BY <1>1 DEF Refuse
<1>3. TooLarge(a)
  BY <1>1 DEF TooLarge
<1> QED BY <1>2, <1>3 DEF StopsLarge

(* The score parser stops at what it alone refuses.                        *)
LEMMA RefuseBadly ==
    ASSUME NEW w, NEW x, NEW r, turn = "score", r.offset \in Nat, Refuse(r), ~Stopped(w),
           \/ r.kind = "InvalidMetaEvent" /\ r.offset < At(x)
           \/ /\ r.kind = "SizeOverflow" /\ r.offset <= At(x)
              /\ Len(x.events) > U32Max \/ 3 * x.payload > U32Max
    PROVE  StopsBadly(w, x)
<1>1. PICK a : a = [ok |-> FALSE, done |-> TRUE, kind |-> r.kind, offset |-> r.offset]
  OBVIOUS
<1>2. Answer(a) /\ UNCHANGED results
  BY <1>1 DEF Refuse, results
<1>3. BadMeta(a, w, x)
  BY <1>1 DEF BadMeta
<1> QED BY <1>2, <1>3 DEF StopsBadly

(* The header, read or skipped, is the one of the walk.                    *)
LEMMA HeaderMoves ==
    ASSUME NEW w, NEW x, Stands(w, x), ReadHeader
    PROVE  Moved(x) \/ Stops(w, x)
<1> DEFINE r == CheckedHeader(outer)
<1>1. /\ Typed /\ w \in Positions(file) /\ x = Onto(w) /\ Placed(w) /\ Built(w) /\ turn \in Decoders
      /\ stage = "header" /\ w.stage = "header" /\ w.outer = outer /\ IsCursor(outer)
      /\ w \in Position(file)
  BY PositionFields DEF Stands, ReadHeader, Placed, Positions
<1>2. /\ ReadsOn(r, outer)
      /\ r.ok = TRUE => /\ r.value \in Headers
                        /\ OwnedHeader(outer, summary.header) = Read(summary.header, r.cursor)
  BY <1>1, HeaderReads
<1>6. /\ turn = "owned" => FileHeader(outer) = OwnedHeader(outer, summary.header)
      /\ turn # "owned" => FileHeader(outer) = r
  <2>1. CASE turn = "scan"
    BY <2>1, HeaderIs DEF FileHeader
  <2>2. CASE turn = "owned"
    BY <2>2 DEF FileHeader
  <2>3. CASE turn = "score"
    BY <2>3, HeaderIs DEF FileHeader
  <2> QED BY <1>1, <2>1, <2>2, <2>3 DEF Decoders
<1>3. x = IF r.ok THEN PastHeader(w, r) ELSE Refused(w, r)
  BY <1>1 DEF Onto, HeaderOf
<1> HIDE DEF r
<1>4. CASE r.ok = FALSE
  <2>1. x = Refused(w, r)
    BY <1>3, <1>4
  <2>2. x.stage = "refused"
    BY <1>1, <2>1 DEF Refused, Position
  <2>3. turn # "owned"
    BY <2>2 DEF Stands
  <2>4. Refuse(r)
    BY <1>4, <1>6, <2>3 DEF ReadHeader
  <2> QED BY <1>1, <2>1, <2>3, <2>4, RefuseStops
<1>5. CASE r.ok = TRUE
  <2>1. x = PastHeader(w, r)
    BY <1>3, <1>5
  <2>2. /\ x.stage = "chunk" /\ x.outer = r.cursor /\ x.header = r.value /\ x.track = w.track
        /\ x.cursor = w.cursor /\ x.running = w.running /\ x.events = w.events /\ x.payload = w.payload
    BY <1>1, <2>1 DEF PastHeader, Position
  <2>3. turn = "owned" => r.value = summary.header
    BY <2>2 DEF Stands
  <2>4. PICK h : h = FileHeader(outer) /\ h.ok = TRUE /\ h.value = r.value /\ h.cursor = r.cursor
    <3>1. CASE turn = "owned"
      <4>1. FileHeader(outer) = Read(summary.header, r.cursor)
        BY <1>2, <1>5, <1>6, <3>1
      <4> QED BY <2>3, <3>1, <4>1 DEF Read
    <3>2. CASE turn # "owned"
      BY <1>5, <1>6, <3>2
    <3> QED BY <3>1, <3>2
  <2>5. /\ KeepHeader(r.value) /\ stage' = "chunk" /\ outer' = r.cursor
        /\ UNCHANGED <<file, turn, track, chunk, answer>>
    BY <2>4 DEF ReadHeader
  <2>6. UNCHANGED <<file, turn, track, answer, cursor, running, start, time>>
    BY <2>5 DEF chunk
  <2>7. Placed(x)'
    BY <1>1, <2>2, <2>5, <2>6 DEF Placed
  <2>8. r.value \in Headers
    BY <1>2, <1>5
  <2>9. CASE turn = "scan"
    <3>1. summary' = [summary EXCEPT !.header = r.value] /\ UNCHANGED <<owned, scored>>
      BY <2>5, <2>9 DEF KeepHeader
    <3>2. /\ summary' \in Summaries /\ summary'.header = r.value /\ summary'.events = summary.events
          /\ summary'.payload = summary.payload /\ summary'.channel = summary.channel
          /\ summary'.meta = summary.meta /\ summary'.sysex = summary.sysex
      BY <1>1, <2>8, <3>1 DEF Typed, Summaries
    <3>3. Typed'
      BY <1>1, <2>5, <2>6, <2>9, <3>1, <3>2 DEF Typed
    <3>4. Built(x)'
      BY <1>1, <2>2, <2>6, <2>9, <3>2 DEF Built, Counted
    <3> QED BY <2>5, <2>6, <2>7, <2>9, <3>1, <3>3, <3>4 DEF Moved, RunningFollowsChannel
  <2>10. CASE turn = "owned"
    <3>1. /\ owned' = [owned EXCEPT !.header = r.value, !.consumed = summary.consumed,
                                    !.trailing = summary.trailing]
          /\ UNCHANGED <<summary, scored>>
      BY <2>5, <2>10 DEF KeepHeader
    <3>2. /\ owned' \in OwnedFiles /\ owned'.header = r.value /\ owned'.consumed = summary.consumed
          /\ owned'.trailing = summary.trailing /\ owned'.events = owned.events
          /\ owned'.payloads = owned.payloads /\ owned'.tracks = owned.tracks
      BY <1>1, <2>8, <3>1 DEF Typed, OwnedFiles, Summaries
    <3>3. Typed'
      BY <1>1, <2>5, <2>6, <2>10, <3>1, <3>2 DEF Typed
    <3>4. Built(x)'
      BY <1>1, <2>2, <2>3, <2>6, <2>10, <3>1, <3>2 DEF Built, Stored, StoredEvents, TakenOver
    <3> QED BY <2>5, <2>6, <2>7, <2>10, <3>1, <3>3, <3>4 DEF Moved, RunningFollowsChannel
  <2>11. CASE turn = "score"
    <3>1. scored' = [scored EXCEPT !.header = r.value] /\ UNCHANGED <<summary, owned>>
      BY <2>5, <2>11 DEF KeepHeader
    <3>2. /\ scored' \in ScoredFiles /\ scored'.header = r.value /\ scored'.events = scored.events
          /\ scored'.text = scored.text
      BY <1>1, <2>8, <3>1 DEF Typed, ScoredFiles
    <3>3. Typed'
      BY <1>1, <2>5, <2>6, <2>11, <3>1, <3>2 DEF Typed
    <3>4. Built(x)'
      BY <1>1, <2>2, <2>6, <2>11, <3>2 DEF Built, Heard, HeardEvents
    <3> QED BY <2>5, <2>6, <2>7, <2>11, <3>1, <3>3, <3>4 DEF Moved, RunningFollowsChannel
  <2> QED BY <1>1, <2>9, <2>10, <2>11 DEF Decoders
<1> QED BY <1>2, <1>4, <1>5 DEF ReadsOn

(* Where a decoder counts its tracks from.                                 *)
LEMMA Declared ==
    ASSUME NEW w, NEW x, Stands(w, x), stage # "header"
    PROVE  DeclaredTracks = w.header.tracks
<1>1. w.stage # "header" /\ Built(w) /\ turn \in Decoders
  BY DEF Stands, Placed
<1>2. CASE turn = "scan"
  BY <1>1, <1>2 DEF Built, Counted, DeclaredTracks
<1>3. CASE turn = "owned"
  BY <1>1, <1>3 DEF Stands, DeclaredTracks
<1>4. CASE turn = "score"
  BY <1>1, <1>4 DEF Built, Heard, DeclaredTracks
<1> QED BY <1>1, <1>2, <1>3, <1>4 DEF Decoders

(* The chunk, its tag looked at or not, is the one of the walk.            *)
LEMMA OpenMoves ==
    ASSUME NEW w, NEW x, Stands(w, x), OpenChunk
    PROVE  Moved(x) \/ Stops(w, x) \/ StopsLarge(x)
<1> DEFINE r == SizedBody(CheckedTag(outer))
<1>1. /\ Typed /\ w \in Positions(file) /\ x = Onto(w) /\ Placed(w) /\ Built(w) /\ turn \in Decoders
      /\ stage = "chunk" /\ w.stage = "chunk" /\ w.outer = outer /\ IsCursor(outer) /\ w.track = track
      /\ w \in Position(file)
  BY PositionFields DEF Stands, OpenChunk, Placed, Positions
<1>2. w.track <= w.header.tracks
  BY <1>1, Declared DEF OpenChunk
<1>3. /\ ReadsOn(r, outer)
      /\ r.ok = TRUE => SizedBody(Take(outer, 4)) = r
  BY <1>1, BodyReads
<1>7. turn # "owned" \/ r.ok = TRUE => ChunkBody(outer) = r
  <2>1. CASE turn = "scan"
    BY <2>1, ChunkIs DEF ChunkBody
  <2>2. CASE turn = "owned"
    BY <1>3, <2>2, ChunkIs DEF ChunkBody
  <2>3. CASE turn = "score"
    BY <2>3, ChunkIs DEF ChunkBody
  <2> QED BY <1>1, <2>1, <2>2, <2>3 DEF Decoders
<1>4. x = IF r.ok THEN InChunk(w, r) ELSE Refused(w, r)
  <2>1. w.track \in Nat /\ w.header.tracks \in Nat
    BY <1>1, PositionFields
  <2>2. Onto(w) = IF BodyOf(w).ok THEN InChunk(w, BodyOf(w)) ELSE Refused(w, BodyOf(w))
    BY <1>1, <1>2, <2>1 DEF Onto
  <2> QED BY <1>1, <2>2 DEF BodyOf
<1> HIDE DEF r
<1>5. CASE r.ok = FALSE
  <2>1. x = Refused(w, r)
    BY <1>4, <1>5
  <2>2. x.stage = "refused"
    BY <1>1, <2>1 DEF Refused, Position
  <2>3. turn # "owned"
    BY <2>2 DEF Stands
  <2>4. Refuse(r)
    BY <1>5, <1>7, <2>3 DEF OpenChunk
  <2> QED BY <1>1, <2>1, <2>3, <2>4, RefuseStops
<1>6. CASE r.ok = TRUE
  <2>1. x = InChunk(w, r)
    BY <1>4, <1>6
  <2>2. /\ x.stage = "events" /\ x.outer = r.cursor /\ x.header = w.header /\ x.track = w.track
        /\ x.cursor = r.value /\ x.running = NoStatus /\ x.events = w.events /\ x.payload = w.payload
    BY <1>1, <2>1 DEF InChunk, Position
  <2>3. PICK first : /\ first = FirstRecord(r.value)
                     /\ IF ~first.ok THEN Refuse(first)
                        ELSE /\ stage' = "events" /\ outer' = r.cursor
                             /\ cursor' = r.value /\ running' = NoStatus
                             /\ start' = first.value /\ time' = 0
                             /\ UNCHANGED <<file, turn, track, answer, results>>
    BY <1>6, <1>7 DEF OpenChunk
  <2>4. Len(owned.events) \in Nat
    BY <1>1, LenProperties DEF Typed, OwnedFiles
  <2>5. CASE first.ok = FALSE
    <3>1. turn = "owned"
      BY <2>3, <2>5 DEF FirstRecord, Read
    <3>2. first = ToU32(Len(owned.events), r.value)
      BY <2>3, <3>1 DEF FirstRecord
    <3>3. Len(owned.events) > U32Max /\ first.kind = "SizeOverflow" /\ first.offset = AbsoluteOffset(r.value)
      BY <2>4, <2>5, <3>2, ToU32Reads
    <3>4. first.offset \in Nat
      <4>1. IsCursor(r.value)
        BY <1>1, <1>6, BodyReads DEF r
      <4> QED BY <3>3, <4>1 DEF IsCursor, AbsoluteOffset
    <3>5. Len(x.events) = Len(owned.events)
      <4>1. owned \in OwnedFiles /\ Stored(w)
        BY <1>1, <3>1 DEF Typed, Built
      <4> QED BY <1>1, <2>2, <4>1, StoredLength
    <3>6. Refuse(first)
      BY <2>3, <2>5
    <3> QED BY <3>1, <3>3, <3>4, <3>5, <3>6, RefuseLarge
  <2>6. CASE first.ok = TRUE
    <3>1. first.value \in 0..Len(owned.events)
      <4>1. CASE turn = "owned"
        <5>1. first = ToU32(Len(owned.events), r.value)
          BY <2>3, <4>1 DEF FirstRecord
        <5>2. first.value = Len(owned.events)
          BY <2>4, <2>6, <5>1, ToU32Reads
        <5> QED BY <2>4, <5>2
      <4>2. CASE turn # "owned"
        BY <2>3, <2>4, <4>2 DEF FirstRecord, Read
      <4> QED BY <4>1, <4>2
    <3>2. /\ stage' = "events" /\ outer' = r.cursor /\ cursor' = r.value /\ running' = NoStatus
          /\ start' = first.value /\ time' = 0
          /\ UNCHANGED <<file, turn, track, answer, results>>
      BY <2>3, <2>6
    <3>3. UNCHANGED <<summary, owned, scored>>
      BY <3>2 DEF results
    <3>4. Placed(x)'
      BY <1>1, <2>2, <3>2 DEF Placed
    <3>5. Typed'
      <4>1. turn # "done"
        BY <1>1 DEF Decoders
      <4> QED BY <1>1, <3>1, <3>2, <3>3, <4>1 DEF Typed
    <3>6. Built(x)'
      BY <1>1, <2>2, <3>2, <3>3 DEF Built, Counted, Stored, StoredEvents, Heard, HeardEvents, TakenOver
    <3>7. RunningFollowsChannel'
      BY <3>2 DEF RunningFollowsChannel
    <3> QED BY <3>2, <3>3, <3>4, <3>5, <3>6, <3>7 DEF Moved
  <2>7. first.ok = TRUE \/ first.ok = FALSE
    <3>1. CASE turn = "owned"
      BY <2>3, <2>4, <3>1, ToU32Reads DEF FirstRecord
    <3>2. CASE turn # "owned"
      BY <2>3, <3>2 DEF FirstRecord, Read
    <3> QED BY <3>1, <3>2
  <2> QED BY <2>5, <2>6, <2>7
<1> QED BY <1>3, <1>5, <1>6 DEF ReadsOn

(* The events of some records, and one more.                               *)
LEMMA EventsAppend ==
    ASSUME NEW S, NEW s \in Seq(S), NEW r \in S
    PROVE  LET q == Append(s, r)
           IN  /\ q \in Seq(S) /\ Len(q) = Len(s) + 1 /\ Len(s) \in Nat /\ q[Len(q)] = r
               /\ [i \in DOMAIN q |-> q[i].event] = Append([i \in DOMAIN s |-> s[i].event], r.event)
<1> DEFINE q == Append(s, r)
           a == [i \in DOMAIN q |-> q[i].event]
           b == [i \in DOMAIN s |-> s[i].event]
           T == {s[i].event : i \in DOMAIN s} \cup {r.event}
           c == Append(b, r.event)
<1>1. /\ q \in Seq(S) /\ Len(q) = Len(s) + 1 /\ Len(s) \in Nat /\ q[Len(q)] = r
      /\ \A i \in 1..Len(s) : q[i] = s[i]
  BY AppendProperties, LenProperties
<1>2. DOMAIN q = 1..(Len(s) + 1) /\ DOMAIN s = 1..Len(s)
  BY <1>1, LenProperties
<1> HIDE DEF q
<1>3. b \in Seq(T) /\ Len(b) = Len(s)
  <2>1. b \in [1..Len(s) -> T]
    BY <1>2
  <2> HIDE DEF T, b
  <2> QED BY <1>1, <2>1, LenProperties, SeqDef
<1>4. r.event \in T
  OBVIOUS
<1>5. \A i \in 1..Len(s) : b[i] = s[i].event
  BY <1>2
<1> HIDE DEF b, T
<1>6. /\ c \in Seq(T) /\ Len(c) = Len(s) + 1 /\ c[Len(s) + 1] = r.event
      /\ \A i \in 1..Len(s) : c[i] = b[i]
  BY <1>3, <1>4, AppendProperties
<1> HIDE DEF c
<1>7. DOMAIN c = 1..(Len(s) + 1)
  BY <1>6, LenProperties
<1>8. \A i \in 1..(Len(s) + 1) : q[i].event = c[i]
  <2> SUFFICES ASSUME NEW i \in 1..(Len(s) + 1)
               PROVE  q[i].event = c[i]
    OBVIOUS
  <2>1. CASE i = Len(s) + 1
    BY <1>1, <1>6, <2>1
  <2>2. CASE i # Len(s) + 1
    <3>1. i \in 1..Len(s)
      BY <1>1, <2>2
    <3> QED BY <1>1, <1>5, <1>6, <3>1
  <2> QED BY <2>1, <2>2
<1>9. c = [i \in 1..(Len(s) + 1) |-> c[i]]
  <2>1. c \in [1..Len(c) -> T]
    BY <1>6, SeqDef
  <2> QED BY <1>6, <2>1
<1>10. a = c
  BY <1>2, <1>8, <1>9
<1> QED BY <1>1, <1>10 DEF q, b, c

(* An event is of one of three kinds.                                      *)
LEMMA EventKinds ==
    ASSUME NEW e \in Events
    PROVE  One(IsChannel(e.status)) + One(e.status = 255) + One(e.status \in {240, 247}) = 1
           /\ One(IsChannel(e.status)) \in Nat /\ One(e.status = 255) \in Nat
           /\ One(e.status \in {240, 247}) \in Nat
<1>1. PICK t : t = e.status /\ t \in Statuses
  BY DEF Events
<1>2. t \in 128..239 \/ t = 255 \/ t \in {240, 247}
  BY <1>1 DEF Statuses
<1> QED BY <1>1, <1>2 DEF One, IsChannel

(* The scan counts an event.                                               *)
LEMMA ScanAbsorbs ==
    ASSUME summary \in Summaries, NEW e \in Events,
           summary.events = summary.channel + summary.meta + summary.sysex
    PROVE  LET s == Scanned(e)
           IN  /\ s \in Summaries /\ s.header = summary.header /\ s.events = summary.events + 1
               /\ s.payload = summary.payload + One(~IsChannel(e.status)) * Len(e.data)
               /\ s.events = s.channel + s.meta + s.sysex
<1> DEFINE s == Scanned(e)
<1>1. PICK a, b, c : /\ a = One(IsChannel(e.status)) /\ b = One(e.status = 255)
                     /\ c = One(e.status \in {240, 247})
  OBVIOUS
<1>2. a \in Nat /\ b \in Nat /\ c \in Nat /\ a + b + c = 1
  BY <1>1, EventKinds
<1>3. PICK p : p = One(~IsChannel(e.status)) * Len(e.data) /\ p \in Nat
  <2>1. Len(e.data) \in Nat /\ IsChannel(e.status) \in BOOLEAN
    BY LenProperties DEF Events, IsChannel
  <2>2. PICK x \in BOOLEAN, n \in Nat : x = (~IsChannel(e.status)) /\ n = Len(e.data)
    BY <2>1
  <2>3. One(x) * n \in Nat
    BY CountedLength
  <2> QED BY <2>2, <2>3
<1>4. PICK m : m = (IF e.delta > summary.maxDelta THEN e.delta ELSE summary.maxDelta) /\ m \in Nat
  BY DEF Events, Summaries
<1>5. /\ summary.events \in Nat /\ summary.channel \in Nat /\ summary.meta \in Nat
      /\ summary.sysex \in Nat /\ summary.payload \in Nat
  BY DEF Summaries
<1>6. PICK n, x, y, z, q :
         /\ n = summary.events + 1 /\ x = summary.channel + a /\ y = summary.meta + b
         /\ z = summary.sysex + c /\ q = summary.payload + p
  OBVIOUS
<1>7. /\ n \in Nat /\ x \in Nat /\ y \in Nat /\ z \in Nat /\ q \in Nat
      /\ n = x + y + z
  <2>1. PICK k, l, g, h, u : /\ k = summary.events /\ l = summary.channel /\ g = summary.meta
                             /\ h = summary.sysex /\ u = summary.payload
    OBVIOUS
  <2>2. /\ k \in Nat /\ l \in Nat /\ g \in Nat /\ h \in Nat /\ u \in Nat /\ k = l + g + h
        /\ n = k + 1 /\ x = l + a /\ y = g + b /\ z = h + c /\ q = u + p
    BY <1>5, <1>6, <2>1
  <2> QED BY <1>2, <1>3, <2>2
<1>8. s = [summary EXCEPT !.events = n, !.maxDelta = m, !.channel = x, !.meta = y,
                          !.sysex = z, !.payload = q]
  BY <1>1, <1>3, <1>4, <1>6 DEF Scanned
<1> HIDE DEF s
<1>9. /\ s \in Summaries /\ s.header = summary.header /\ s.events = n
      /\ s.payload = q /\ s.channel = x /\ s.meta = y /\ s.sysex = z
  BY <1>4, <1>7, <1>8 DEF Summaries
<1> QED BY <1>3, <1>6, <1>7, <1>9 DEF s

(* The record of an event, and the file with it. *)
RecordOf(o, e) == Record(e, IF IsChannel(e.status) THEN 0 ELSE Len(o.payloads), Len(e.data))
Adds(e) ==
    IF IsChannel(e.status) THEN [owned EXCEPT !.events = Append(@, RecordOf(owned, e))]
    ELSE [owned EXCEPT !.payloads = @ \o e.data, !.events = Append(@, RecordOf(owned, e))]
Indexed(o, e) == ~IsChannel(e.status) => Len(o.payloads) <= U32Max /\ Len(e.data) <= U32Max

(* An event is stored when 32 bits index its payload.                      *)
LEMMA PushedIs ==
    ASSUME owned \in OwnedFiles, NEW e \in Events, NEW c
    PROVE  LET r == Pushed(e, c)
           IN  \/ r.ok = TRUE /\ r.value = Adds(e) /\ Indexed(owned, e)
               \/ /\ r.ok = FALSE /\ r.kind = "SizeOverflow" /\ r.offset = AbsoluteOffset(c)
                  /\ ~IsChannel(e.status) /\ (Len(owned.payloads) > U32Max \/ Len(e.data) > U32Max)
<1> DEFINE r == Pushed(e, c)
           first == ToU32(Len(owned.payloads), c)
           length == ToU32(Len(e.data), c)
<1>1. Len(owned.payloads) \in Nat /\ Len(e.data) \in Nat
  BY LenProperties DEF OwnedFiles, Events
<1>2. CASE IsChannel(e.status)
  <2>1. r = Read([owned EXCEPT !.events = Append(@, Record(e, 0, Len(e.data)))], c)
    BY <1>2 DEF Pushed
  <2>2. RecordOf(owned, e) = Record(e, 0, Len(e.data))
    BY <1>2 DEF RecordOf
  <2>3. r.ok = TRUE /\ r.value = Adds(e)
    BY <1>2, <2>1, <2>2 DEF Adds, Read
  <2> QED BY <1>2, <2>3 DEF Indexed
<1>3. CASE ~IsChannel(e.status)
  <2> DEFINE stored == Read([owned EXCEPT !.payloads = @ \o e.data,
                                          !.events = Append(@, Record(e, first.value, length.value))], c)
  <2>1. r = IF first.ok THEN IF length.ok THEN stored ELSE length ELSE first
    BY <1>3 DEF Pushed, Then
  <2>2. \/ Len(owned.payloads) <= U32Max /\ first.ok = TRUE /\ first.value = Len(owned.payloads)
        \/ /\ Len(owned.payloads) > U32Max /\ first.ok = FALSE
           /\ first.kind = "SizeOverflow" /\ first.offset = AbsoluteOffset(c)
    BY <1>1, ToU32Reads
  <2>3. \/ Len(e.data) <= U32Max /\ length.ok = TRUE /\ length.value = Len(e.data)
        \/ /\ Len(e.data) > U32Max /\ length.ok = FALSE
           /\ length.kind = "SizeOverflow" /\ length.offset = AbsoluteOffset(c)
    BY <1>1, ToU32Reads
  <2>4. first.value = Len(owned.payloads) /\ length.value = Len(e.data) => stored.value = Adds(e)
    BY <1>3 DEF Read, Adds, RecordOf
  <2>5. stored.ok = TRUE
    BY DEF Read
  <2> HIDE DEF r, first, length, stored
  <2>6. CASE first.ok = FALSE
    <3>1. r = first
      BY <2>1, <2>6
    <3> QED BY <1>3, <2>2, <2>6, <3>1 DEF r
  <2>7. CASE first.ok = TRUE /\ length.ok = FALSE
    <3>1. r = length
      BY <2>1, <2>7
    <3> QED BY <1>3, <2>3, <2>7, <3>1 DEF r
  <2>8. CASE first.ok = TRUE /\ length.ok = TRUE
    <3>1. r = stored /\ Indexed(owned, e)
      BY <2>1, <2>2, <2>3, <2>8 DEF Indexed
    <3>2. r.ok = TRUE /\ r.value = Adds(e)
      BY <2>2, <2>3, <2>4, <2>5, <2>8, <3>1
    <3> QED BY <3>1, <3>2 DEF r
  <2> QED BY <2>2, <2>3, <2>6, <2>7, <2>8
<1> QED BY <1>2, <1>3

(* The owned parser stores an event.                                       *)
LEMMA OwnedAbsorbs ==
    ASSUME owned \in OwnedFiles, NEW e \in Events
    PROVE  LET o == Adds(e)
           IN  /\ o \in OwnedFiles /\ o.header = owned.header /\ o.tracks = owned.tracks
               /\ o.consumed = owned.consumed /\ o.trailing = owned.trailing
               /\ Len(o.events) = Len(owned.events) + 1 /\ Len(owned.events) \in Nat
               /\ o.events[Len(o.events)].event = e
               /\ [i \in DOMAIN o.events |-> o.events[i].event] = Append(StoredEvents, e)
               /\ Len(o.payloads) = Len(owned.payloads) + One(~IsChannel(e.status)) * Len(e.data)
<1> DEFINE o == Adds(e)
           at == IF IsChannel(e.status) THEN 0 ELSE Len(owned.payloads)
<1>1. /\ owned.events \in Seq(Records) /\ owned.payloads \in Seq(Byte)
      /\ e.data \in Seq(Byte) /\ Len(e.data) \in Nat /\ Len(owned.payloads) \in Nat
  BY LenProperties DEF OwnedFiles, Events
<1>2. PICK r : r = RecordOf(owned, e) /\ r \in Records /\ r.event = e
  <2>1. at \in Nat
    BY <1>1
  <2> HIDE DEF at
  <2>2. RecordOf(owned, e) = [event |-> e, start |-> at, len |-> Len(e.data)]
    BY DEF Record, RecordOf, at
  <2> QED BY <1>1, <2>1, <2>2 DEF Records
<1>3. PICK q : q = Append(owned.events, r)
  OBVIOUS
<1>4. /\ q \in Seq(Records) /\ Len(q) = Len(owned.events) + 1 /\ Len(owned.events) \in Nat
      /\ q[Len(q)] = r
      /\ [i \in DOMAIN q |-> q[i].event] = Append(StoredEvents, e)
  <2>1. PICK s, S : s = owned.events /\ S = Records /\ s \in Seq(S) /\ r \in S
    BY <1>1, <1>2
  <2>2. LET b == Append(s, r)
        IN  /\ b \in Seq(S) /\ Len(b) = Len(s) + 1 /\ Len(s) \in Nat /\ b[Len(b)] = r
            /\ [i \in DOMAIN b |-> b[i].event] = Append([i \in DOMAIN s |-> s[i].event], r.event)
    BY <2>1, EventsAppend
  <2> QED BY <1>2, <1>3, <2>1, <2>2 DEF StoredEvents
<1>5. CASE IsChannel(e.status)
  <2>1. o = [owned EXCEPT !.events = q]
    BY <1>2, <1>3, <1>5 DEF Adds
  <2>2. /\ o \in OwnedFiles /\ o.header = owned.header /\ o.tracks = owned.tracks
        /\ o.consumed = owned.consumed /\ o.trailing = owned.trailing
        /\ o.events = q /\ o.payloads = owned.payloads
    BY <1>4, <2>1 DEF OwnedFiles
  <2>3. One(~IsChannel(e.status)) * Len(e.data) = 0
    BY <1>1, <1>5 DEF One
  <2> HIDE DEF o
  <2> QED BY <1>1, <1>2, <1>4, <2>2, <2>3 DEF o
<1>6. CASE ~IsChannel(e.status)
  <2>1. PICK p : p = owned.payloads \o e.data
    OBVIOUS
  <2>2. o = [owned EXCEPT !.payloads = p, !.events = q]
    BY <1>2, <1>3, <1>6, <2>1 DEF Adds
  <2>3. p \in Seq(Byte) /\ Len(p) = Len(owned.payloads) + Len(e.data)
    BY <1>1, <2>1, ConcatProperties
  <2>4. /\ o \in OwnedFiles /\ o.header = owned.header /\ o.tracks = owned.tracks
        /\ o.consumed = owned.consumed /\ o.trailing = owned.trailing
        /\ o.events = q /\ o.payloads = p
    BY <1>4, <2>2, <2>3 DEF OwnedFiles
  <2>5. One(~IsChannel(e.status)) * Len(e.data) = Len(e.data)
    BY <1>1, <1>6 DEF One
  <2> HIDE DEF o
  <2> QED BY <1>1, <1>2, <1>4, <2>3, <2>4, <2>5 DEF o
<1> QED BY <1>5, <1>6

(* What was heard, and one event more.                                     *)
LEMMA HeardAppends ==
    ASSUME scored \in ScoredFiles, NEW heard \in ScoreEvents
    PROVE  LET q == Append(scored.events, heard)
           IN  /\ q \in Seq(ScoreEvents) /\ Len(q) = Len(scored.events) + 1
               /\ Len(scored.events) \in Nat /\ q[Len(q)] = heard
               /\ [i \in DOMAIN q |-> q[i].event] = Append(HeardEvents, heard.event)
<1>1. scored.events \in Seq(ScoreEvents)
  BY DEF ScoredFiles
<1> QED BY <1>1, EventsAppend DEF HeardEvents

(* The score parser hears an event.                                        *)
LEMMA ScoreAbsorbs ==
    ASSUME scored \in ScoredFiles, NEW heard \in ScoreEvents, NEW m \in Nat
    PROVE  LET s == [scored EXCEPT !.events = Append(@, heard), !.text = m]
           IN  /\ s \in ScoredFiles /\ s.header = scored.header /\ s.text = m
               /\ s.events[Len(s.events)] = heard /\ s.events # <<>>
               /\ [i \in DOMAIN s.events |-> s.events[i].event] = Append(HeardEvents, heard.event)
<1> DEFINE s == [scored EXCEPT !.events = Append(@, heard), !.text = m]
<1>1. heard \in ScoreEvents /\ scored.events \in Seq(ScoreEvents)
  BY DEF ScoredFiles
<1>2. PICK q : q = Append(scored.events, heard)
  OBVIOUS
<1>3. /\ q \in Seq(ScoreEvents) /\ Len(q) = Len(scored.events) + 1 /\ Len(scored.events) \in Nat
      /\ q[Len(q)] = heard
      /\ [i \in DOMAIN q |-> q[i].event] = Append(HeardEvents, heard.event)
  BY <1>2, HeardAppends
<1>4. s = [scored EXCEPT !.events = q, !.text = m]
  BY <1>2
<1>5. s \in ScoredFiles /\ s.header = scored.header /\ s.events = q /\ s.text = m
  BY <1>3, <1>4 DEF ScoredFiles
<1>6. q # <<>>
  <2>1. Len(q) # Len(<<>>)
    BY <1>3, EmptySeq
  <2> QED BY <2>1
<1> HIDE DEF s
<1> QED BY <1>3, <1>5, <1>6 DEF s

(* A text is at most three times the payload it is made from.              *)
LEMMA TextFits ==
    ASSUME NEW e \in Events, NEW length \in TextLengths(e)
    PROVE  length \in Nat /\ length <= 3 * (One(~IsChannel(e.status)) * Len(e.data))
<1>1. Len(e.data) \in Nat
  BY LenProperties DEF Events
<1>2. PICK k \in Nat : k = Len(e.data)
  BY <1>1
<1>3. CASE IsText(e)
  <2>1. length \in k..(3 * k)
    BY <1>2, <1>3 DEF TextLengths
  <2>2. ~IsChannel(e.status)
    BY <1>3 DEF IsText, IsChannel
  <2>3. One(~IsChannel(e.status)) * Len(e.data) = k
    BY <1>2, <2>2 DEF One
  <2> QED BY <1>2, <2>1, <2>3
<1>4. CASE ~IsText(e)
  <2>1. length = 0
    BY <1>4 DEF TextLengths
  <2>2. One(~IsChannel(e.status)) = 0 \/ One(~IsChannel(e.status)) = 1
    BY DEF One
  <2> QED BY <1>2, <2>1, <2>2
<1> QED BY <1>3, <1>4

(* An event that was read is counted, stored or heard. *)
Counts(e) == turn = "scan" /\ summary' = Scanned(e) /\ UNCHANGED <<owned, scored, time>>
Shelves(e) ==
    turn = "owned" /\ owned' = Adds(e) /\ Indexed(owned, e) /\ UNCHANGED <<summary, scored, time>>
Hears(e) ==
    /\ turn = "score" /\ time' = time + e.delta /\ UNCHANGED <<summary, owned>>
    /\ \E length \in TextLengths(e) :
          scored' = [scored EXCEPT !.events = Append(@, [event |-> e, track |-> track, time |-> time']),
                                   !.text = @ + length]
Accept(e, r) == Advance(r) /\ (Counts(e) \/ Shelves(e) \/ Hears(e))

(* An event that is accepted.                                              *)
LEMMA AcceptMoves ==
    ASSUME NEW w, NEW x, Stands(w, x), stage = "events",
           NEW r, r = EventOf(w), r.ok = TRUE, x = PastEvent(w, r), Accept(r.value.event, r)
    PROVE  Moved(x)
<1> DEFINE e == r.value.event
<1>1. /\ Typed /\ w \in Positions(file) /\ Placed(w) /\ Built(w) /\ turn \in Decoders
      /\ w.stage = "events" /\ w \in Position(file) /\ track \in Nat
  BY PositionFields DEF Stands, Placed, Positions
<1>2. /\ e \in Events
      /\ r.value.running # NoStatus => e.status = r.value.running
  BY <1>1, EventInFile DEF FileEvents
<1>3. /\ x.stage = w.stage /\ x.outer = w.outer /\ x.header = w.header /\ x.track = w.track
      /\ x.cursor = r.cursor /\ x.running = r.value.running /\ x.events = Append(w.events, e)
      /\ x.payload = w.payload + One(~IsChannel(e.status)) * Len(e.data)
  BY <1>1 DEF PastEvent, Position
<1>4. /\ Counts(e) \/ Shelves(e) \/ Hears(e)
      /\ cursor' = r.cursor /\ running' = r.value.running
      /\ UNCHANGED <<file, turn, stage, outer, track, start, answer>>
  BY DEF Accept, Advance
<1> HIDE DEF e
<1>5. Placed(x)'
  BY <1>1, <1>3, <1>4 DEF Placed
<1>6. turn # "done" /\ turn' # "done"
  BY <1>1, <1>4 DEF Decoders
<1>7. CASE turn = "scan"
  <2>1. summary' = Scanned(e) /\ UNCHANGED <<owned, scored, time>>
    BY <1>4, <1>7 DEF Counts, Shelves, Hears
  <2>2. /\ summary' \in Summaries /\ summary'.header = summary.header
        /\ summary'.events = summary.events + 1
        /\ summary'.payload = summary.payload + One(~IsChannel(e.status)) * Len(e.data)
        /\ summary'.events = summary'.channel + summary'.meta + summary'.sysex
    BY <1>1, <1>2, <2>1, ScanAbsorbs DEF Typed
  <2>3. Typed'
    BY <1>1, <1>4, <1>6, <2>1, <2>2 DEF Typed
  <2>4. Built(x)'
    <3>1. Len(Append(w.events, e)) = Len(w.events) + 1
      <4>1. e \in FileEvents(file) /\ w.events \in Seq(FileEvents(file))
        BY <1>1, EventInFile, PositionFields DEF e
      <4> QED BY <4>1, AppendProperties
    <3> QED BY <1>1, <1>3, <1>4, <1>7, <2>2, <3>1 DEF Built, Counted
  <2>5. RunningFollowsChannel'
    BY <1>4, <1>7 DEF RunningFollowsChannel
  <2> QED BY <1>4, <1>5, <1>7, <2>1, <2>3, <2>4, <2>5 DEF Moved
<1>8. CASE turn = "owned"
  <2>1. owned' = Adds(e) /\ UNCHANGED <<summary, scored, time>>
    BY <1>4, <1>8 DEF Counts, Shelves, Hears
  <2>2. /\ owned' \in OwnedFiles /\ owned'.header = owned.header /\ owned'.tracks = owned.tracks
        /\ owned'.consumed = owned.consumed /\ owned'.trailing = owned.trailing
        /\ Len(owned'.events) = Len(owned.events) + 1 /\ Len(owned.events) \in Nat
        /\ owned'.events[Len(owned'.events)].event = e
        /\ [i \in DOMAIN owned'.events |-> owned'.events[i].event] = Append(StoredEvents, e)
        /\ Len(owned'.payloads) = Len(owned.payloads) + One(~IsChannel(e.status)) * Len(e.data)
    BY <1>1, <1>2, <2>1, OwnedAbsorbs DEF Typed
  <2>3. Typed'
    <3>1. start' \in 0..Len(owned'.events)
      BY <1>1, <1>4, <2>2 DEF Typed
    <3> QED BY <1>1, <1>4, <1>6, <2>1, <2>2, <3>1 DEF Typed
  <2>4. Built(x)'
    <3>1. StoredEvents' = Append(StoredEvents, e)
      BY <2>2 DEF StoredEvents
    <3>2. Stored(w) /\ Len(owned.tracks) = track - 1 /\ TakenOver
      BY <1>1, <1>8 DEF Built
    <3>3. Stored(x)'
      BY <1>3, <2>2, <3>1, <3>2 DEF Stored
    <3>4. TakenOver' /\ Len(owned'.tracks) = track' - 1
      BY <1>4, <2>1, <2>2, <3>2 DEF TakenOver
    <3> QED BY <1>4, <1>8, <3>3, <3>4 DEF Built
  <2>5. RunningFollowsChannel'
    <3>1. Len(owned'.events) > start' /\ Last(owned'.events).event = e
      <4>1. start \in 0..Len(owned.events)
        BY <1>1 DEF Typed
      <4> QED BY <1>4, <2>2, <4>1 DEF Last
    <3> QED BY <1>2, <1>4, <1>8, <3>1 DEF RunningFollowsChannel
  <2> QED BY <1>4, <1>5, <1>8, <2>1, <2>3, <2>4, <2>5 DEF Moved
<1>9. CASE turn = "score"
  <2>1. /\ time' = time + e.delta /\ UNCHANGED <<summary, owned>>
        /\ \E length \in TextLengths(e) :
              scored' = [scored EXCEPT !.events = Append(@, [event |-> e, track |-> track, time |-> time']),
                                       !.text = @ + length]
    BY <1>4, <1>9 DEF Counts, Shelves, Hears
  <2>2. time' \in Nat
    BY <1>1, <1>2, <2>1 DEF Typed, Events
  <2>3. PICK n \in Nat : n = time'
    BY <2>2
  <2>4. PICK length \in TextLengths(e) :
            scored' = [scored EXCEPT !.events = Append(@, [event |-> e, track |-> track, time |-> n]),
                                     !.text = @ + length]
    BY <2>1, <2>3
  <2>5. PICK t, l, p, a, q, b : /\ t = scored.text /\ l = length /\ p = w.payload /\ q = x.payload
                                /\ a = One(~IsChannel(e.status)) * Len(e.data) /\ b = t + l
    OBVIOUS
  <2>6. t \in Nat /\ l \in Nat /\ p \in Nat /\ a \in Nat /\ q = p + a /\ l <= 3 * a /\ t <= 3 * p
    <3>1. t \in Nat
      BY <1>1, <2>5 DEF Typed, ScoredFiles
    <3>2. l \in Nat /\ l <= 3 * a
      BY <1>2, <2>4, <2>5, TextFits
    <3>3. p \in Nat
      BY <1>1, <2>5, PositionFields
    <3>4. a \in Nat
      <4>1. Len(e.data) \in Nat /\ IsChannel(e.status) \in BOOLEAN
        BY <1>2, LenProperties DEF Events, IsChannel
      <4>2. PICK y \in BOOLEAN, k \in Nat : y = (~IsChannel(e.status)) /\ k = Len(e.data)
        BY <4>1
      <4>3. One(y) * k \in Nat
        BY CountedLength
      <4> QED BY <2>5, <4>2, <4>3
    <3>5. q = p + a
      BY <1>3, <2>5
    <3>6. t <= 3 * p
      BY <1>1, <1>9, <2>5 DEF Built, Heard
    <3> QED BY <3>1, <3>2, <3>3, <3>4, <3>5, <3>6
  <2>7. b \in Nat /\ b <= 3 * q
    BY <2>5, <2>6
  <2>8. PICK heard, s : /\ heard = [event |-> e, track |-> track, time |-> n]
                        /\ s = [scored EXCEPT !.events = Append(@, heard), !.text = b]
    OBVIOUS
  <2>9. /\ s \in ScoredFiles /\ s.header = scored.header /\ s.text = b
        /\ s.events[Len(s.events)] = heard /\ s.events # <<>>
        /\ [i \in DOMAIN s.events |-> s.events[i].event] = Append(HeardEvents, e)
    <3>1. scored \in ScoredFiles
      BY <1>1 DEF Typed
    <3>2. heard \in ScoreEvents /\ heard.event = e
      BY <1>1, <1>2, <2>8 DEF ScoreEvents
    <3>3. LET q0 == [scored EXCEPT !.events = Append(@, heard), !.text = b]
          IN  /\ q0 \in ScoredFiles /\ q0.header = scored.header /\ q0.text = b
              /\ q0.events[Len(q0.events)] = heard /\ q0.events # <<>>
              /\ [i \in DOMAIN q0.events |-> q0.events[i].event] = Append(HeardEvents, heard.event)
      BY <2>7, <3>1, <3>2, ScoreAbsorbs
    <3> QED BY <2>8, <3>2, <3>3
  <2>10. scored' = s
    BY <2>4, <2>5, <2>8
  <2>11. Typed'
    BY <1>1, <1>4, <1>6, <2>1, <2>2, <2>9, <2>10 DEF Typed
  <2>12. Built(x)'
    <3>1. HeardEvents' = Append(HeardEvents, e)
      BY <2>9, <2>10 DEF HeardEvents
    <3>2. Heard(w)
      BY <1>1, <1>9 DEF Built
    <3>3. scored'.text <= 3 * x.payload
      BY <2>5, <2>7, <2>9, <2>10
    <3>4. Heard(x)'
      BY <1>3, <2>9, <2>10, <3>1, <3>2, <3>3 DEF Heard
    <3> QED BY <1>4, <1>9, <3>4 DEF Built
  <2>13. RunningFollowsChannel'
    <3>1. heard.event = e /\ heard.track = track
      BY <2>8
    <3>2. Last(scored'.events) = heard /\ scored'.events # <<>>
      BY <2>9, <2>10 DEF Last
    <3> QED BY <1>2, <1>4, <1>9, <3>1, <3>2 DEF RunningFollowsChannel
  <2> QED BY <1>4, <1>5, <1>9, <2>1, <2>11, <2>12, <2>13 DEF Moved
<1> QED BY <1>1, <1>7, <1>8, <1>9 DEF Decoders

(* What the owned parser makes of an event.                                *)
LEMMA StoreMoves ==
    ASSUME NEW w, NEW x, Stands(w, x), stage = "events", turn = "owned",
           NEW r, r = EventOf(w), r.ok = TRUE, x = PastEvent(w, r), Store(r.value.event, r)
    PROVE  Accept(r.value.event, r) \/ StopsLarge(x)
<1> DEFINE e == r.value.event
<1>1. /\ owned \in OwnedFiles /\ w \in Positions(file) /\ w.stage = "events" /\ w \in Position(file)
      /\ Stored(w)
  BY DEF Stands, Typed, Placed, Built, Positions
<1>2. e \in Events /\ IsCursor(r.cursor)
  BY <1>1, EventInFile DEF FileEvents, Onward
<1>3. x.payload = w.payload + One(~IsChannel(e.status)) * Len(e.data)
  BY <1>1 DEF PastEvent, Position
<1> HIDE DEF e
<1>4. PICK pushed : /\ pushed = Pushed(e, r.cursor)
                    /\ IF ~pushed.ok THEN Refuse(pushed)
                       ELSE /\ Advance(r) /\ owned' = pushed.value /\ UNCHANGED <<summary, scored, time>>
  BY DEF Store, e
<1>5. \/ pushed.ok = TRUE /\ pushed.value = Adds(e) /\ Indexed(owned, e)
      \/ /\ pushed.ok = FALSE /\ pushed.kind = "SizeOverflow" /\ pushed.offset = AbsoluteOffset(r.cursor)
         /\ ~IsChannel(e.status) /\ (Len(owned.payloads) > U32Max \/ Len(e.data) > U32Max)
  BY <1>1, <1>2, <1>4, PushedIs
<1>6. CASE pushed.ok = TRUE
  <2>1. Shelves(e) /\ Advance(r)
    BY <1>4, <1>5, <1>6 DEF Shelves
  <2> QED BY <2>1 DEF Accept, e
<1>7. CASE pushed.ok = FALSE
  <2>1. Refuse(pushed)
    BY <1>4, <1>7
  <2>2. pushed.offset \in Nat
    BY <1>2, <1>5, <1>7 DEF IsCursor, AbsoluteOffset
  <2>3. x.payload > U32Max
    <3>1. Len(owned.payloads) = w.payload
      BY <1>1 DEF Stored
    <3>2. PICK p, k \in Nat : p = w.payload /\ k = Len(e.data)
      <4>1. w.payload \in Nat /\ Len(e.data) \in Nat
        BY <1>1, <1>2, PositionFields, LenProperties DEF Events
      <4> QED BY <4>1
    <3>3. x.payload = p + k
      <4>1. One(~IsChannel(e.status)) = 1
        BY <1>5, <1>7 DEF One
      <4> QED BY <1>3, <3>2, <4>1
    <3>4. p > U32Max \/ k > U32Max
      BY <1>5, <1>7, <3>1, <3>2
    <3> QED BY <3>2, <3>3, <3>4, U32MaxAssumption
  <2> QED BY <1>5, <1>7, <2>1, <2>2, <2>3, RefuseLarge
<1> QED BY <1>5, <1>6, <1>7

(* What the score parser makes of an event.                                *)
LEMMA HearMoves ==
    ASSUME NEW w, NEW x, Stands(w, x), stage = "events", turn = "score",
           NEW r, r = EventOf(w), r.ok = TRUE, x = PastEvent(w, r), Hear(r.value.event, r)
    PROVE  Accept(r.value.event, r) \/ StopsBadly(w, x)
<1> DEFINE e == r.value.event
<1>1. /\ scored \in ScoredFiles /\ w \in Positions(file) /\ w.stage = "events" /\ w \in Position(file)
      /\ Heard(w) /\ ~Stopped(w)
  BY DEF Stands, Typed, Placed, Built, Positions, Stopped
<1>2. /\ e \in Events /\ IsCursor(r.cursor) /\ e \in FileEvents(file)
      /\ e.offset < AbsoluteOffset(r.cursor)
  BY <1>1, EventInFile DEF FileEvents, Onward
<1>3. /\ x.payload = w.payload + One(~IsChannel(e.status)) * Len(e.data)
      /\ x.events = Append(w.events, e)
      /\ At(x) = AbsoluteOffset(r.cursor)
  BY <1>1 DEF PastEvent, Position, At
<1> HIDE DEF e
<1>4. e.offset \in Nat /\ AbsoluteOffset(r.cursor) \in Nat
  BY <1>2 DEF Events, IsCursor, AbsoluteOffset
<1>5. \A kind, at : Error(kind, at).kind = kind /\ Error(kind, at).offset = at
  BY DEF Error
<1>6. CASE InvalidMeta(e)
  <2>1. Refuse(Error("InvalidMetaEvent", e.offset))
    BY <1>6 DEF Hear, e
  <2>2. PICK f : f = Error("InvalidMetaEvent", e.offset)
    OBVIOUS
  <2>3. f.kind = "InvalidMetaEvent" /\ f.offset = e.offset /\ Refuse(f)
    BY <1>5, <2>1, <2>2
  <2> QED BY <1>1, <1>2, <1>3, <1>4, <2>3, RefuseBadly
<1>7. CASE ~InvalidMeta(e) /\ IsNoteOn(e) /\ RowsMayOverflow
           /\ Refuse(Error("SizeOverflow", AbsoluteOffset(r.cursor)))
  <2>1. PICK f : f = Error("SizeOverflow", AbsoluteOffset(r.cursor))
    OBVIOUS
  <2>2. f.kind = "SizeOverflow" /\ f.offset = AbsoluteOffset(r.cursor) /\ Refuse(f)
    BY <1>5, <1>7, <2>1
  <2>3. Len(x.events) > U32Max
    <3>1. Len(scored.events) = Len(w.events) /\ Len(w.events) \in Nat /\ Len(scored.events) > U32Max
      BY <1>1, <1>7, HeardLength DEF RowsMayOverflow
    <3>2. Len(x.events) = Len(w.events) + 1
      <4>1. PICK b, S, q : b = e /\ S = FileEvents(file) /\ q = w.events /\ b \in S /\ q \in Seq(S)
        BY <1>1, <1>2, PositionFields
      <4>2. Len(Append(q, b)) = Len(q) + 1
        BY <4>1, AppendProperties
      <4> QED BY <1>3, <4>1, <4>2
    <3> QED BY <3>1, <3>2, U32MaxAssumption
  <2>4. f.offset \in Nat /\ f.offset <= At(x)
    BY <1>3, <1>4, <2>2
  <2> QED BY <1>1, <2>2, <2>3, <2>4, RefuseBadly
<1>8. CASE ~InvalidMeta(e) /\ \E length \in TextLengths(e) :
               IF scored.text + length > U32Max
               THEN Refuse(Error("SizeOverflow", AbsoluteOffset(r.cursor)))
               ELSE /\ Advance(r) /\ time' = time + e.delta
                    /\ scored' = [scored EXCEPT
                           !.events = Append(@, [event |-> e, track |-> track, time |-> time']),
                           !.text = @ + length]
                    /\ UNCHANGED <<summary, owned>>
  <2>1. PICK length \in TextLengths(e) :
               IF scored.text + length > U32Max
               THEN Refuse(Error("SizeOverflow", AbsoluteOffset(r.cursor)))
               ELSE /\ Advance(r) /\ time' = time + e.delta
                    /\ scored' = [scored EXCEPT
                           !.events = Append(@, [event |-> e, track |-> track, time |-> time']),
                           !.text = @ + length]
                    /\ UNCHANGED <<summary, owned>>
    BY <1>8
  <2>2. CASE scored.text + length > U32Max
    <3>1. PICK f : f = Error("SizeOverflow", AbsoluteOffset(r.cursor))
      OBVIOUS
    <3>2. f.kind = "SizeOverflow" /\ f.offset = AbsoluteOffset(r.cursor) /\ Refuse(f)
      BY <1>5, <2>1, <2>2, <3>1
    <3>3. 3 * x.payload > U32Max
      <4>1. PICK t, l, p, a, q, u : /\ t = scored.text /\ l = length /\ p = w.payload /\ q = x.payload
                                    /\ a = One(~IsChannel(e.status)) * Len(e.data) /\ u = U32Max
        OBVIOUS
      <4>2. t \in Nat /\ t <= 3 * p /\ p \in Nat
        BY <1>1, <4>1, PositionFields DEF ScoredFiles, Heard
      <4>3. l \in Nat /\ l <= 3 * a
        BY <1>2, <4>1, TextFits
      <4>4. a \in Nat
        <5>1. Len(e.data) \in Nat /\ IsChannel(e.status) \in BOOLEAN
          BY <1>2, LenProperties DEF Events, IsChannel
        <5>2. PICK y \in BOOLEAN, k \in Nat : y = (~IsChannel(e.status)) /\ k = Len(e.data)
          BY <5>1
        <5>3. One(y) * k \in Nat
          BY CountedLength
        <5> QED BY <4>1, <5>2, <5>3
      <4>5. q = p + a /\ t + l > u /\ u \in Nat
        BY <1>3, <2>2, <4>1, U32MaxAssumption
      <4>6. 3 * q > u
        BY <4>2, <4>3, <4>4, <4>5
      <4> QED BY <4>1, <4>6
    <3>4. f.offset \in Nat /\ f.offset <= At(x)
      BY <1>3, <1>4, <3>2
    <3> QED BY <1>1, <3>2, <3>3, <3>4, RefuseBadly
  <2>3. CASE ~(scored.text + length > U32Max)
    <3>1. Hears(e) /\ Advance(r)
      BY <2>1, <2>3 DEF Hears
    <3> QED BY <3>1 DEF Accept, e
  <2> QED BY <2>2, <2>3
<1>9. Hear(e, r)
  BY DEF e
<1> QED BY <1>6, <1>7, <1>8, <1>9 DEF Hear

(* An event is read, or refused.                                           *)
LEMMA DecodeCases ==
    ASSUME NEW w, NEW x, Stands(w, x), Decode
    PROVE  LET r == ReadEvent(cursor, running)
           IN  /\ w \in Positions(file) /\ stage = "events" /\ w.stage = "events" /\ r = EventOf(w)
               /\ \/ r.ok = FALSE /\ x = Refused(w, r) /\ Stops(w, x)
                  \/ r.ok = TRUE /\ x = PastEvent(w, r) /\ Accept(r.value.event, r)
                  \/ StopsBadly(w, x)
                  \/ StopsLarge(x)
<1>1. /\ w \in Positions(file) /\ x = Onto(w) /\ turn \in Decoders
      /\ stage = "events" /\ w.stage = "events" /\ w.cursor = cursor /\ w.running = running
      /\ Remaining(w.cursor) # 0 /\ IsCursor(w.cursor) /\ w.running \in Runs
      /\ w \in Position(file) /\ x \in Positions(file)
  BY PositionFields DEF Stands, Decode, Placed, Positions
<1>2. PICK r : r = ReadEvent(cursor, running) /\ r = EventOf(w)
  BY <1>1 DEF EventOf
<1>3. EventAt(cursor, running) = r
  <2>1. /\ ScanEvent(cursor, running) = r /\ OwnedEvent(cursor, running) = r
        /\ ScoreEvent(cursor, running) = r
    BY <1>1, <1>2, EventIs
  <2> QED BY <1>1, <2>1 DEF EventAt, Decoders
<1>4. x = IF r.ok THEN PastEvent(w, r) ELSE Refused(w, r)
  BY <1>1, <1>2 DEF Onto
<1>5. r.ok = TRUE \/ r.ok = FALSE
  <2>1. IsRead(w.cursor, EventOf(w))
    BY <1>1, EventReads DEF EventOf
  <2> QED BY <1>2, <2>1 DEF IsRead, ReadsOn
<1>6. IF ~r.ok THEN Refuse(r)
      ELSE \/ turn = "scan" /\ Count(r.value.event, r)
           \/ turn = "owned" /\ Store(r.value.event, r)
           \/ turn = "score" /\ Hear(r.value.event, r)
  BY <1>3 DEF Decode
<1>7. CASE r.ok = FALSE
  <2>1. x = Refused(w, r)
    BY <1>4, <1>7
  <2>2. x.stage = "refused"
    BY <1>1, <2>1 DEF Refused, Position
  <2>3. turn # "owned"
    BY <2>2 DEF Stands
  <2>4. Refuse(r)
    BY <1>6, <1>7
  <2>5. Stops(w, x)
    BY <1>1, <2>1, <2>3, <2>4, RefuseStops
  <2> QED BY <1>1, <1>2, <1>7, <2>1, <2>5
<1>8. CASE r.ok = TRUE
  <2>1. x = PastEvent(w, r)
    BY <1>4, <1>8
  <2>2. CASE turn = "scan"
    <3>1. Count(r.value.event, r)
      BY <1>6, <1>8, <2>2
    <3>2. Accept(r.value.event, r)
      BY <2>2, <3>1 DEF Count, Accept, Counts
    <3> QED BY <1>1, <1>2, <1>8, <2>1, <3>2
  <2>3. CASE turn = "owned"
    <3>1. Store(r.value.event, r)
      BY <1>6, <1>8, <2>3
    <3>2. Accept(r.value.event, r) \/ StopsLarge(x)
      BY <1>1, <1>2, <1>8, <2>1, <2>3, <3>1, StoreMoves
    <3> QED BY <1>1, <1>2, <1>8, <2>1, <3>2
  <2>4. CASE turn = "score"
    <3>1. Hear(r.value.event, r)
      BY <1>6, <1>8, <2>4
    <3>2. Accept(r.value.event, r) \/ StopsBadly(w, x)
      BY <1>1, <1>2, <1>8, <2>1, <2>4, <3>1, HearMoves
    <3> QED BY <1>1, <1>2, <1>8, <2>1, <3>2
  <2> QED BY <1>1, <2>2, <2>3, <2>4 DEF Decoders
<1> QED BY <1>5, <1>7, <1>8

(* An event brings the decoder to the next place of the walk, or stops it. *)
LEMMA DecodeMoves ==
    ASSUME NEW w, NEW x, Stands(w, x), Decode
    PROVE  Moved(x) \/ Stops(w, x) \/ StopsBadly(w, x) \/ StopsLarge(x)
<1>1. PICK r : /\ r = EventOf(w) /\ stage = "events"
               /\ \/ r.ok = FALSE /\ x = Refused(w, r) /\ Stops(w, x)
                  \/ r.ok = TRUE /\ x = PastEvent(w, r) /\ Accept(r.value.event, r)
                  \/ StopsBadly(w, x)
                  \/ StopsLarge(x)
  BY DecodeCases
<1>2. CASE r.ok = TRUE /\ x = PastEvent(w, r) /\ Accept(r.value.event, r)
  BY <1>1, <1>2, AcceptMoves
<1> QED BY <1>1, <1>2

(* A chunk that was read to its end is left, unless 32 bits do not index   *)
(* what was read.                                                          *)
LEMMA CloseMoves ==
    ASSUME NEW w, NEW x, Stands(w, x), CloseChunk
    PROVE  Moved(x) \/ StopsBadly(w, x) \/ StopsLarge(x)
<1>1. /\ Typed /\ w \in Positions(file) /\ x = Onto(w) /\ Placed(w) /\ Built(w) /\ turn \in Decoders
      /\ stage = "events" /\ w.stage = "events" /\ w.cursor = cursor /\ w.track = track
      /\ Remaining(w.cursor) = 0 /\ w \in Position(file) /\ track \in Nat
      /\ IsCursor(w.cursor) /\ At(w) \in Nat
  BY PositionFields DEF Stands, CloseChunk, Placed, Positions
<1>2. x = PastChunk(w)
  BY <1>1 DEF Onto
<1>3. /\ x.stage = "chunk" /\ x.outer = w.outer /\ x.header = w.header /\ x.track = track + 1
      /\ x.cursor = w.cursor /\ x.running = w.running /\ x.events = w.events /\ x.payload = w.payload
  BY <1>1, <1>2 DEF PastChunk, Position
<1>4. AbsoluteOffset(cursor) \in Nat /\ AbsoluteOffset(cursor) <= At(x)
  <2>1. Farther(w, x)
    BY <1>1, <1>2, CloseFollows DEF Follows
  <2>2. At(w) = AbsoluteOffset(cursor)
    BY <1>1 DEF At
  <2> QED BY <1>1, <2>1, <2>2 DEF Farther
<1>5. turn # "done"
  BY <1>1 DEF Decoders
<1>6. ASSUME NextTrack
      PROVE  /\ stage' = "chunk" /\ track' = track + 1
             /\ UNCHANGED <<file, turn, outer, cursor, running, start, time, answer, summary, scored>>
             /\ Placed(x)' /\ RunningFollowsChannel' /\ turn' # "done"
  <2>1. /\ stage' = "chunk" /\ track' = track + 1
        /\ UNCHANGED <<file, turn, outer, cursor, running, start, time, answer, summary, scored>>
    BY <1>6 DEF NextTrack, chunk
  <2>2. Placed(x)'
    BY <1>1, <1>3, <2>1 DEF Placed
  <2>3. RunningFollowsChannel'
    BY <2>1 DEF RunningFollowsChannel
  <2> QED BY <1>5, <2>1, <2>2, <2>3
<1>7. CASE turn # "owned" /\ NextTrack /\ UNCHANGED owned
  <2>1. Typed'
    BY <1>1, <1>6, <1>7 DEF Typed
  <2>2. Built(x)'
    BY <1>1, <1>3, <1>6, <1>7 DEF Built, Counted, Heard, HeardEvents
  <2> QED BY <1>6, <1>7, <2>1, <2>2 DEF Moved
<1>8. CASE /\ turn = "owned"
           /\ \E end \in {ToU32(Len(owned.events), cursor)} :
                 IF ~end.ok THEN Refuse(end)
                 ELSE /\ NextTrack
                      /\ owned' = [owned EXCEPT !.tracks =
                                      Append(@, [start |-> start, len |-> end.value - start])]
  <2>1. PICK end : /\ end = ToU32(Len(owned.events), cursor)
                   /\ IF ~end.ok THEN Refuse(end)
                      ELSE /\ NextTrack
                           /\ owned' = [owned EXCEPT !.tracks =
                                           Append(@, [start |-> start, len |-> end.value - start])]
    BY <1>8
  <2>2. /\ owned \in OwnedFiles /\ Len(owned.events) \in Nat /\ start \in 0..Len(owned.events)
        /\ Stored(w) /\ Len(owned.tracks) = track - 1 /\ TakenOver
    BY <1>1, <1>8, LenProperties DEF Typed, OwnedFiles, Built
  <2>3. \/ Len(owned.events) <= U32Max /\ end.ok = TRUE /\ end.value = Len(owned.events)
        \/ Len(owned.events) > U32Max /\ end.ok = FALSE /\ end.kind = "SizeOverflow"
           /\ end.offset = AbsoluteOffset(cursor)
    BY <2>1, <2>2, ToU32Reads
  <2>4. CASE end.ok = FALSE
    <3>1. Len(x.events) = Len(owned.events)
      BY <1>1, <1>3, <2>2, StoredLength
    <3>2. Refuse(end)
      BY <2>1, <2>4
    <3> QED BY <1>4, <1>8, <2>3, <2>4, <3>1, <3>2, RefuseLarge
  <2>5. CASE end.ok = TRUE
    <3>1. PICK range : range = [start |-> start, len |-> Len(owned.events) - start]
      OBVIOUS
    <3>2. NextTrack /\ owned' = [owned EXCEPT !.tracks = Append(@, range)]
      BY <2>1, <2>3, <2>5, <3>1
    <3>3. range \in Ranges /\ owned.tracks \in Seq(Ranges)
      BY <2>2, <3>1 DEF Ranges, OwnedFiles
    <3>4. PICK q : q = Append(owned.tracks, range) /\ q \in Seq(Ranges) /\ Len(q) = Len(owned.tracks) + 1
      <4>1. PICK a, S, b : a = owned.tracks /\ S = Ranges /\ b = range /\ a \in Seq(S) /\ b \in S
        BY <3>3
      <4>2. Append(a, b) \in Seq(S) /\ Len(Append(a, b)) = Len(a) + 1
        BY <4>1, AppendProperties
      <4> QED BY <4>1, <4>2
    <3>5. /\ owned' \in OwnedFiles /\ owned'.header = owned.header /\ owned'.tracks = q
          /\ owned'.consumed = owned.consumed /\ owned'.trailing = owned.trailing
          /\ owned'.events = owned.events /\ owned'.payloads = owned.payloads
      BY <2>2, <3>2, <3>4 DEF OwnedFiles
    <3>6. Typed'
      BY <1>1, <1>6, <3>2, <3>5 DEF Typed
    <3>7. Built(x)'
      <4>1. Stored(x)'
        BY <1>3, <2>2, <3>5 DEF Stored, StoredEvents
      <4>2. TakenOver' /\ Len(owned'.tracks) = track' - 1
        BY <1>1, <1>6, <2>2, <3>2, <3>4, <3>5 DEF TakenOver
      <4>3. Len(owned'.events) <= U32Max
        BY <2>3, <2>5, <3>5
      <4> QED BY <1>6, <1>8, <3>2, <4>1, <4>2, <4>3 DEF Built
    <3> QED BY <1>6, <1>8, <3>2, <3>6, <3>7 DEF Moved
  <2> QED BY <2>3, <2>4, <2>5
<1>9. CASE turn = "score" /\ RowsMayOverflow /\ Refuse(Error("SizeOverflow", AbsoluteOffset(cursor)))
  <2>1. PICK r : r = Error("SizeOverflow", AbsoluteOffset(cursor))
    OBVIOUS
  <2>2. r.kind = "SizeOverflow" /\ r.offset = AbsoluteOffset(cursor) /\ Refuse(r)
    <3>1. \A kind, at : Error(kind, at).kind = kind /\ Error(kind, at).offset = at
      BY DEF Error
    <3> QED BY <1>9, <2>1, <3>1
  <2>3. Len(x.events) > U32Max
    <3>1. scored \in ScoredFiles /\ Heard(w)
      BY <1>1, <1>9 DEF Typed, Built
    <3>2. Len(scored.events) = Len(w.events)
      BY <1>1, <3>1, HeardLength
    <3> QED BY <1>3, <1>9, <3>2 DEF RowsMayOverflow
  <2>4. ~Stopped(w)
    BY <1>1 DEF Stopped
  <2>5. r.offset \in Nat /\ r.offset <= At(x)
    BY <1>4, <2>2
  <2> QED BY <1>9, <2>2, <2>3, <2>4, <2>5, RefuseBadly
<1> QED BY <1>7, <1>8, <1>9 DEF CloseChunk

--------------------------------------------------------------------------------

(* A decoder that answers.                                                 *)
LEMMA Answered ==
    ASSUME Typed, turn \in Decoders, NEW a, a = Ok \/ a.ok = FALSE, Answer(a)
    PROVE  /\ answer' = [d \in Decoders |-> answer'[d]] /\ answer'[turn] = a
           /\ \A d \in Decoders : d # turn => answer'[d] = answer[d]
           /\ file' = file /\ stage' = "header" /\ track' = 1 /\ start' = 0 /\ time' = 0
           /\ Placed(WalkStart(file))' /\ RunningFollowsChannel'
           /\ turn' = IF turn = "scan" THEN (IF a = Ok THEN "owned" ELSE "score")
                      ELSE IF turn = "owned" THEN "score" ELSE "done"
<1>1. /\ answer' = [answer EXCEPT ![turn] = a]
      /\ turn' = NextTurn(a)
      /\ stage' = "header" /\ outer' = CursorAt(file, 0) /\ track' = 1
      /\ cursor' = NoChunk /\ running' = NoStatus /\ start' = 0 /\ time' = 0
      /\ file' = file
  BY DEF Answer
<1>2. answer = [d \in Decoders |-> answer[d]] /\ file \in Seq(Byte)
  BY DEF Typed
<1>3. PICK b : b = [d \in Decoders |-> answer[d]]
  OBVIOUS
<1>4. answer' = [b EXCEPT ![turn] = a] /\ b = answer
  BY <1>1, <1>2, <1>3
<1>5. /\ answer' = [d \in Decoders |-> answer'[d]] /\ answer'[turn] = a
      /\ \A d \in Decoders : d # turn => answer'[d] = answer[d]
  <2>1. answer' = [d \in Decoders |-> IF d = turn THEN a ELSE b[d]]
    BY <1>3, <1>4
  <2> QED BY <1>4, <2>1
<1>6. Placed(WalkStart(file))'
  <2>1. PICK w : w = WalkStart(file) /\ w = WalkStart(file')
    BY <1>1
  <2>2. /\ w.stage = "header" /\ w.outer = CursorAt(file, 0) /\ w.track = 1 /\ w.cursor = NoChunk
        /\ w.running = NoStatus
    BY <1>2, <2>1, BeginPlaced
  <2> QED BY <1>1, <2>1, <2>2 DEF Placed
<1>7. turn' = IF turn = "scan" THEN (IF a = Ok THEN "owned" ELSE "score")
              ELSE IF turn = "owned" THEN "score" ELSE "done"
  <2>1. a.ok = TRUE <=> a = Ok
    BY AnswersDiffer
  <2>2. CASE turn = "scan" /\ a = Ok
    BY <1>1, <2>1, <2>2 DEF NextTurn
  <2>3. CASE turn = "scan" /\ a # Ok
    <3>1. a.ok = FALSE
      BY <2>3
    <3> QED BY <1>1, <2>3, <3>1 DEF NextTurn
  <2>4. CASE turn = "owned"
    BY <1>1, <2>4 DEF NextTurn
  <2>5. CASE turn = "score"
    BY <1>1, <2>5 DEF NextTurn
  <2> QED BY <2>2, <2>3, <2>4, <2>5 DEF Decoders
<1>8. RunningFollowsChannel'
  BY <1>1 DEF RunningFollowsChannel
<1> QED BY <1>1, <1>5, <1>6, <1>7, <1>8

(* A decoder at work is on the walk, and the second pass will not meet an  *)
(* error that the scan did not meet.                                       *)
LEMMA OnWalk ==
    ASSUME IInv, turn \in Decoders
    PROVE  \E n \in Nat : Stands(Walk(file)[n], Walk(file)[n + 1])
<1>1. Typed /\ RunningFollowsChannel /\ ScanFollows /\ OwnedFollows /\ ScoreFollows /\ file \in Seq(Byte)
  BY DEF IInv, Follow, Typed
<1>2. PICK n \in Nat : Placed(Walk(file)[n]) /\ Built(Walk(file)[n])
  <2>1. CASE turn = "scan"
    BY <1>1, <2>1 DEF ScanFollows, Built
  <2>2. CASE turn = "owned"
    BY <1>1, <2>2 DEF OwnedFollows, Built
  <2>3. CASE turn = "score"
    BY <1>1, <2>3 DEF ScoreFollows, Built
  <2> QED BY <2>1, <2>2, <2>3 DEF Decoders
<1>3. PICK w, x : w = Walk(file)[n] /\ x = Walk(file)[n + 1]
  OBVIOUS
<1>4. w \in Positions(file) /\ x \in Positions(file) /\ x = Onto(w) /\ Farther(w, x)
  BY <1>1, <1>3, WalkSteps
<1>5. ASSUME turn = "owned"
      PROVE  /\ x.stage # "refused" /\ (x.stage # "header" => x.header = summary.header)
             /\ w.stage # "header" => w.header = summary.header
  <2>1. answer["scan"] = Ok /\ \E m \in Nat : Verdict(answer["scan"], Walk(file)[m]) /\ Counted(Walk(file)[m])
    BY <1>1, <1>5 DEF ScanFollows, OwnedFollows
  <2>2. PICK m \in Nat : Verdict(Ok, Walk(file)[m]) /\ Counted(Walk(file)[m])
    BY <2>1
  <2>3. PICK y : y = Walk(file)[m]
    OBVIOUS
  <2>4. y.stage = "finished" /\ y.header = summary.header
    BY <2>2, <2>3, AnswersDiffer DEF Verdict, Counted
  <2>5. ~Stopped(w) /\ Stopped(y)
    <3>1. stage \in {"header", "chunk", "events"} /\ w.stage = stage
      BY <1>1, <1>2, <1>3 DEF Typed, Placed
    <3> QED BY <2>4, <3>1 DEF Stopped
  <2>6. Farther(w, y) /\ Farther(x, y)
    BY <1>1, <1>3, <2>3, <2>5, WalkBefore
  <2>7. x.stage # "refused"
    <3>1. ASSUME x.stage = "refused"
          PROVE  FALSE
      <4>1. Stopped(x) /\ n + 1 \in Nat
        BY <3>1 DEF Stopped
      <4>2. x = y
        BY <1>1, <1>3, <2>3, <2>5, <4>1, WalkEnds
      <4> QED BY <2>4, <3>1, <4>2
    <3> QED BY <3>1
  <2> QED BY <2>4, <2>6, <2>7 DEF Farther
<1>6. Stands(w, x)
  BY <1>1, <1>2, <1>3, <1>4, <1>5 DEF Stands
<1> QED BY <1>3, <1>6

(* What the scan and the owned parser have built stays when they are done. *)
LEMMA EarlierStays ==
    ASSUME Follow, turn = "score", turn' \in {"score", "done"},
           UNCHANGED <<file, summary, owned>>,
           answer'["scan"] = answer["scan"], answer'["owned"] = answer["owned"]
    PROVE  ScanFollows' /\ OwnedFollows'
<1>1. ScanFollows /\ OwnedFollows
  BY DEF Follow
<1>2. ScanFollows'
  <2>1. PICK i \in Nat : /\ Verdict(answer["scan"], Walk(file)[i]) /\ Counted(Walk(file)[i])
                         /\ answer["scan"] = Ok => Left(summary, Walk(file)[i])
    BY <1>1 DEF ScanFollows
  <2>2. PICK y : y = Walk(file)[i] /\ y = Walk(file')[i]
    OBVIOUS
  <2>3. Counted(y)'
    BY <2>1, <2>2 DEF Counted
  <2>4. (answer'["scan"] = Ok => Left(summary', y)) /\ Verdict(answer'["scan"], y)
    BY <2>1, <2>2
  <2> QED BY <2>2, <2>3, <2>4 DEF ScanFollows
<1>3. OwnedFollows'
  <2>1. CASE answer["scan"] # Ok
    BY <1>1, <2>1 DEF OwnedFollows
  <2>2. CASE answer["scan"] = Ok
    <3>1. \/ /\ answer["owned"] = Ok /\ Len(owned.tracks) = summary.header.tracks /\ TakenOver
             /\ Len(owned.events) <= U32Max
             /\ \E i \in Nat : Walk(file)[i].stage = "finished" /\ Stored(Walk(file)[i])
          \/ /\ TooLarge(answer["owned"]) /\ owned = EmptyOwned
             /\ summary.events > U32Max \/ summary.payload > U32Max
      BY <1>1, <2>2 DEF OwnedFollows
    <3>2. CASE /\ answer["owned"] = Ok /\ Len(owned.tracks) = summary.header.tracks /\ TakenOver
               /\ Len(owned.events) <= U32Max
               /\ \E i \in Nat : Walk(file)[i].stage = "finished" /\ Stored(Walk(file)[i])
      <4>1. PICK i \in Nat : Walk(file)[i].stage = "finished" /\ Stored(Walk(file)[i])
        BY <3>2
      <4>2. PICK y : y = Walk(file)[i] /\ y = Walk(file')[i]
        OBVIOUS
      <4>3. Stored(y)' /\ TakenOver'
        BY <3>2, <4>1, <4>2 DEF Stored, StoredEvents, TakenOver
      <4> QED BY <2>2, <3>2, <4>1, <4>2, <4>3 DEF OwnedFollows
    <3>3. CASE /\ TooLarge(answer["owned"]) /\ owned = EmptyOwned
               /\ summary.events > U32Max \/ summary.payload > U32Max
      BY <2>2, <3>3 DEF OwnedFollows
    <3> QED BY <3>1, <3>2, <3>3
  <2> QED BY <2>1, <2>2
<1> QED BY <1>2, <1>3

(* A decoder that moves stays on the walk.                                 *)
LEMMA MovedFollows ==
    ASSUME IInv, turn \in Decoders, NEW n \in Nat, Moved(Walk(file)[n + 1])
    PROVE  IInv'
<1>1. PICK f, x, m : f = file /\ m = n + 1 /\ m \in Nat /\ x = Walk(f)[m]
  OBVIOUS
<1>2. /\ UNCHANGED <<file, turn, answer>> /\ Typed' /\ RunningFollowsChannel' /\ Placed(x)' /\ Built(x)'
      /\ turn # "scan" => UNCHANGED summary
      /\ turn # "owned" => UNCHANGED owned
      /\ turn # "score" => UNCHANGED scored
  <2>1. Moved(x)
    BY <1>1
  <2> QED BY <2>1 DEF Moved
<1>3. file' = f /\ ScanFollows /\ OwnedFollows /\ ScoreFollows /\ x = Walk(file')[m]
  BY <1>1, <1>2 DEF IInv, Follow
<1>4. CASE turn = "scan"
  <2>1. ScanFollows'
    <3>1. Counted(x)'
      BY <1>2, <1>4 DEF Built
    <3> QED BY <1>1, <1>2, <1>3, <1>4, <3>1 DEF ScanFollows
  <2>2. OwnedFollows'
    BY <1>2, <1>3, <1>4 DEF OwnedFollows
  <2>3. ScoreFollows'
    BY <1>2, <1>3, <1>4 DEF ScoreFollows
  <2> QED BY <1>2, <2>1, <2>2, <2>3 DEF IInv, Follow
<1>5. CASE turn = "owned"
  <2>1. ScanFollows'
    <3>1. PICK i \in Nat : /\ Verdict(answer["scan"], Walk(file)[i]) /\ Counted(Walk(file)[i])
                           /\ answer["scan"] = Ok => Left(summary, Walk(file)[i])
      BY <1>3, <1>5 DEF ScanFollows
    <3>2. PICK y : y = Walk(file)[i] /\ y = Walk(file')[i]
      BY <1>2
    <3>3. Counted(y)' /\ summary' = summary /\ answer' = answer /\ turn' = "owned"
      BY <1>2, <1>5, <3>1, <3>2 DEF Counted
    <3> QED BY <3>1, <3>2, <3>3 DEF ScanFollows
  <2>2. OwnedFollows'
    <3>1. /\ Stored(x)' /\ Len(owned'.tracks) = track' - 1 /\ (stage' # "header" => TakenOver')
          /\ stage' # "events" => Len(owned'.events) <= U32Max
      BY <1>2, <1>5 DEF Built
    <3>2. answer' = answer /\ turn' = "owned" /\ answer["scan"] = Ok /\ answer["owned"] = Pending
      BY <1>2, <1>3, <1>5 DEF OwnedFollows
    <3> QED BY <1>1, <1>2, <1>3, <3>1, <3>2 DEF OwnedFollows
  <2>3. ScoreFollows'
    BY <1>2, <1>3, <1>5 DEF ScoreFollows
  <2> QED BY <1>2, <2>1, <2>2, <2>3 DEF IInv, Follow
<1>6. CASE turn = "score"
  <2>1. ScanFollows' /\ OwnedFollows'
    BY <1>2, <1>6, EarlierStays DEF IInv
  <2>2. ScoreFollows'
    <3>1. Heard(x)' /\ answer' = answer /\ turn' = "score" /\ answer["score"] = Pending
      BY <1>2, <1>3, <1>6 DEF Built, ScoreFollows
    <3> QED BY <1>1, <1>2, <1>3, <3>1 DEF ScoreFollows
  <2> QED BY <1>2, <2>1, <2>2 DEF IInv, Follow
<1> QED BY <1>4, <1>5, <1>6 DEF Decoders

(* What is empty is what a walk begins with.                               *)
LEMMA BeginBuilt ==
    ASSUME file \in Seq(Byte)
    PROVE  /\ scored = EmptyScored => Heard(WalkStart(file))
           /\ owned = EmptyOwned => Stored(WalkStart(file))
<1>1. WalkStart(file).header = NoHeader /\ WalkStart(file).events = <<>> /\ WalkStart(file).payload = 0
  BY BeginPlaced
<1>2. DOMAIN <<>> = {} /\ Len(<<>>) = 0
  <2>1. Len(<<>>) = 0 /\ <<>> \in Seq(Byte)
    BY EmptySeq
  <2> QED BY <2>1, LenProperties
<1>3. ASSUME scored = EmptyScored
      PROVE  HeardEvents = <<>>
  <2>1. DOMAIN HeardEvents = {} /\ HeardEvents = [i \in DOMAIN HeardEvents |-> HeardEvents[i]]
    BY <1>2, <1>3, EmptyResults DEF HeardEvents
  <2>2. <<>> = [i \in DOMAIN <<>> |-> <<>>[i]]
    OBVIOUS
  <2> QED BY <1>2, <2>1, <2>2
<1>4. ASSUME owned = EmptyOwned
      PROVE  StoredEvents = <<>>
  <2>1. DOMAIN StoredEvents = {} /\ StoredEvents = [i \in DOMAIN StoredEvents |-> StoredEvents[i]]
    BY <1>2, <1>4, EmptyResults DEF StoredEvents
  <2>2. <<>> = [i \in DOMAIN <<>> |-> <<>>[i]]
    OBVIOUS
  <2> QED BY <1>2, <2>1, <2>2
<1> QED BY <1>1, <1>2, <1>3, <1>4, EmptyResults DEF Heard, Stored

(* What stays typed when a decoder answers.                                *)
LEMMA AnswerTyped ==
    ASSUME Typed, turn \in Decoders, NEW a, a = Ok \/ a.ok = FALSE, Answer(a),
           summary' \in Summaries, owned' = owned \/ owned' = EmptyOwned, scored' \in ScoredFiles,
           summary'.events = summary'.channel + summary'.meta + summary'.sysex
    PROVE  Typed'
<1>1. /\ answer' = [d \in Decoders |-> answer'[d]]
      /\ file' = file /\ stage' = "header" /\ start' = 0 /\ time' = 0
      /\ Placed(WalkStart(file))'
      /\ turn' = IF turn = "scan" THEN (IF a = Ok THEN "owned" ELSE "score")
                 ELSE IF turn = "owned" THEN "score" ELSE "done"
  BY Answered
<1>2. owned' \in OwnedFiles /\ Len(owned'.events) \in Nat
  <2>1. owned' \in OwnedFiles
    BY EmptyResults DEF Typed
  <2> QED BY <2>1, LenProperties DEF OwnedFiles
<1>3. start' \in 0..Len(owned'.events)
  BY <1>1, <1>2
<1>4. turn' \in Decoders \cup {"done"}
  BY <1>1 DEF Decoders
<1> QED BY <1>1, <1>2, <1>3, <1>4 DEF Typed

(* A decoder that stops at an error.                                       *)
LEMMA StopFollows ==
    ASSUME IInv, turn \in Decoders, NEW n \in Nat, Stands(Walk(file)[n], Walk(file)[n + 1]),
           Stops(Walk(file)[n], Walk(file)[n + 1])
    PROVE  IInv'
<1>1. PICK f, w, x, m, s : /\ f = file /\ m = n + 1 /\ m \in Nat /\ w = Walk(f)[n] /\ x = Walk(f)[m]
                           /\ s = WalkStart(f)
  OBVIOUS
<1>2. /\ Typed /\ ScanFollows /\ OwnedFollows /\ ScoreFollows /\ Built(w) /\ f \in Seq(Byte)
  BY <1>1 DEF IInv, Follow, Stands, Typed
<1>3. /\ turn # "owned" /\ x.stage = "refused" /\ Answer(Fault(x)) /\ UNCHANGED <<summary, owned, scored>>
      /\ x.header = w.header /\ x.events = w.events /\ x.payload = w.payload
  BY <1>1 DEF Stops, results
<1>4. Fault(x) # Ok /\ Fault(x).ok = FALSE
  BY AnswersDiffer
<1>5. /\ answer' = [d \in Decoders |-> answer'[d]] /\ answer'[turn] = Fault(x)
      /\ \A d \in Decoders : d # turn => answer'[d] = answer[d]
      /\ file' = f /\ stage' = "header" /\ Placed(WalkStart(file))' /\ RunningFollowsChannel'
      /\ turn' = IF turn = "scan" THEN "score" ELSE "done"
  BY <1>1, <1>2, <1>3, <1>4, Answered
<1>6. Typed'
  BY <1>2, <1>3, <1>4, AnswerTyped DEF Typed
<1>7. Verdict(Fault(x), x)
  BY <1>3 DEF Verdict
<1>8. x = Walk(file')[m] /\ s = Walk(file')[0] /\ Placed(s)'
  BY <1>1, <1>2, <1>5, BeginPlaced
<1>9. CASE turn = "scan"
  <2>1. answer'["scan"] = Fault(x) /\ answer'["owned"] = Pending /\ answer'["score"] = Pending
        /\ owned' = EmptyOwned /\ scored' = EmptyScored /\ turn' = "score"
    BY <1>2, <1>3, <1>5, <1>9 DEF OwnedFollows, ScoreFollows, Decoders
  <2>2. ScanFollows'
    <3>1. Counted(x)'
      BY <1>2, <1>3, <1>9 DEF Built, Counted
    <3> QED BY <1>1, <1>4, <1>7, <1>8, <2>1, <3>1 DEF ScanFollows
  <2>3. OwnedFollows'
    BY <1>4, <2>1 DEF OwnedFollows
  <2>4. ScoreFollows'
    <3>1. Heard(s)
      BY <1>1, <1>2, <1>3, <2>1, BeginBuilt
    <3>2. Heard(s)'
      BY <1>3, <3>1 DEF Heard, HeardEvents
    <3> QED BY <1>8, <2>1, <3>2 DEF ScoreFollows
  <2> QED BY <1>5, <1>6, <2>2, <2>3, <2>4 DEF IInv, Follow
<1>10. CASE turn = "score"
  <2>1. /\ answer'["scan"] = answer["scan"] /\ answer'["owned"] = answer["owned"]
        /\ answer'["score"] = Fault(x) /\ turn' = "done"
    BY <1>5, <1>10 DEF Decoders
  <2>2. ScanFollows' /\ OwnedFollows'
    BY <1>1, <1>3, <1>5, <1>10, <2>1, EarlierStays DEF IInv
  <2>4. ScoreFollows'
    BY <1>1, <1>4, <1>7, <1>8, <2>1 DEF ScoreFollows
  <2> QED BY <1>5, <1>6, <2>2, <2>4 DEF IInv, Follow
<1> QED BY <1>3, <1>9, <1>10 DEF Decoders

(* The score parser that refuses a meta event.                             *)
LEMMA BadFollows ==
    ASSUME IInv, NEW n \in Nat, StopsBadly(Walk(file)[n], Walk(file)[n + 1])
    PROVE  IInv'
<1>1. PICK f, w, x, m : f = file /\ m = n + 1 /\ m \in Nat /\ w = Walk(f)[n] /\ x = Walk(f)[m]
  OBVIOUS
<1>2. Typed /\ ScanFollows /\ OwnedFollows /\ f \in Seq(Byte)
  BY <1>1 DEF IInv, Follow, Typed
<1>3. turn = "score" /\ UNCHANGED <<summary, owned, scored>>
  BY DEF StopsBadly, results
<1>4. PICK a : BadMeta(a, w, x) /\ Answer(a)
  BY <1>1 DEF StopsBadly
<1>5. a.ok = FALSE
  BY <1>4 DEF BadMeta
<1>6. turn \in Decoders
  BY <1>3 DEF Decoders
<1>7. /\ answer' = [d \in Decoders |-> answer'[d]] /\ answer'[turn] = a
      /\ \A d \in Decoders : d # turn => answer'[d] = answer[d]
      /\ file' = f /\ Placed(WalkStart(file))' /\ RunningFollowsChannel' /\ turn' = "done"
  BY <1>1, <1>2, <1>3, <1>4, <1>5, <1>6, Answered
<1>8. Typed'
  BY <1>2, <1>3, <1>4, <1>5, <1>6, AnswerTyped DEF Typed
<1>9. /\ answer'["scan"] = answer["scan"] /\ answer'["owned"] = answer["owned"] /\ answer'["score"] = a
  BY <1>3, <1>7 DEF Decoders
<1>10. ScanFollows' /\ OwnedFollows'
  BY <1>1, <1>3, <1>7, <1>9, EarlierStays DEF IInv
<1>12. ScoreFollows'
  <2>1. BadMeta(answer'["score"], Walk(file')[n], Walk(file')[n + 1])
    BY <1>1, <1>4, <1>7, <1>9
  <2> QED BY <1>7, <2>1 DEF ScoreFollows
<1> QED BY <1>7, <1>8, <1>10, <1>12 DEF IInv, Follow

(* The owned parser that stops at what 32 bits do not index: the scan has  *)
(* counted at least as much, since it has walked on to the end.            *)
LEMMA LargeFollows ==
    ASSUME IInv, NEW n \in Nat, Stands(Walk(file)[n], Walk(file)[n + 1]), StopsLarge(Walk(file)[n + 1])
    PROVE  IInv'
<1>1. PICK f, w, x, s : f = file /\ w = Walk(f)[n] /\ x = Walk(f)[n + 1] /\ s = WalkStart(f)
  OBVIOUS
<1>2. /\ Typed /\ ScanFollows /\ OwnedFollows /\ ScoreFollows /\ f \in Seq(Byte)
      /\ w \in Positions(f) /\ x \in Positions(f) /\ Placed(w)
  BY <1>1 DEF IInv, Follow, Typed, Stands
<1>3. /\ turn = "owned" /\ turn \in Decoders /\ owned' = EmptyOwned /\ UNCHANGED <<summary, scored>>
      /\ Len(x.events) > U32Max \/ x.payload > U32Max
  BY <1>1 DEF StopsLarge, Decoders
<1>4. PICK a : TooLarge(a) /\ Answer(a)
  BY DEF StopsLarge
<1>5. a.ok = FALSE
  BY <1>4 DEF TooLarge
<1>6. /\ answer' = [d \in Decoders |-> answer'[d]] /\ answer'[turn] = a
      /\ \A d \in Decoders : d # turn => answer'[d] = answer[d]
      /\ file' = f /\ Placed(WalkStart(file))' /\ RunningFollowsChannel' /\ turn' = "score"
  BY <1>1, <1>2, <1>3, <1>4, <1>5, Answered
<1>7. Typed'
  BY <1>2, <1>3, <1>4, <1>5, AnswerTyped DEF Typed
<1>8. /\ answer["scan"] = Ok /\ answer'["scan"] = Ok /\ answer'["owned"] = a /\ answer'["score"] = Pending
      /\ scored' = EmptyScored
  BY <1>2, <1>3, <1>6 DEF OwnedFollows, ScoreFollows, Decoders
<1>9. PICK i \in Nat : /\ Verdict(answer["scan"], Walk(f)[i]) /\ Counted(Walk(f)[i])
                       /\ answer["scan"] = Ok => Left(summary, Walk(f)[i])
  BY <1>1, <1>2, <1>3 DEF ScanFollows
<1>10. PICK y : y = Walk(f)[i] /\ y = Walk(file')[i]
  BY <1>6
<1>11. ScanFollows'
  <2>1. Counted(y)'
    BY <1>3, <1>9, <1>10 DEF Counted
  <2> QED BY <1>3, <1>6, <1>8, <1>9, <1>10, <2>1 DEF ScanFollows
<1>12. summary.events > U32Max \/ summary.payload > U32Max
  <2>1. y.stage = "finished"
    BY <1>8, <1>9, <1>10, AnswersDiffer DEF Verdict
  <2>2. ~Stopped(w) /\ Stopped(y)
    <3>1. w.stage \in {"header", "chunk", "events"}
      BY <1>2 DEF Typed, Placed
    <3> QED BY <2>1, <3>1 DEF Stopped
  <2>3. Farther(x, y)
    BY <1>1, <1>2, <1>10, <2>2, WalkBefore
  <2>4. y \in Positions(f)
    BY <1>2, <1>10, WalkSteps
  <2>5. Len(x.events) <= summary.events /\ x.payload <= summary.payload
    BY <1>9, <1>10, <2>3 DEF Farther, Counted
  <2>6. /\ Len(x.events) \in Nat /\ x.payload \in Nat /\ summary.events \in Nat /\ summary.payload \in Nat
        /\ U32Max \in Nat
    BY <1>2, PositionFields, U32MaxAssumption DEF Typed, Summaries
  <2> QED BY <1>3, <2>5, <2>6
<1>13. OwnedFollows'
  BY <1>3, <1>4, <1>6, <1>8, <1>12 DEF OwnedFollows
<1>14. ScoreFollows'
  <2>1. s = Walk(file')[0] /\ Placed(s)'
    BY <1>1, <1>2, <1>6, BeginPlaced
  <2>2. Heard(s)
    BY <1>1, <1>2, <1>3, <1>8, BeginBuilt
  <2>3. Heard(s)'
    BY <1>3, <2>2 DEF Heard, HeardEvents
  <2> QED BY <1>6, <1>8, <2>1, <2>3 DEF ScoreFollows
<1> QED BY <1>6, <1>7, <1>11, <1>13, <1>14 DEF IInv, Follow

(* What the outer cursor consumed and left is kept.                        *)
LEMMA ConsumedTyped ==
    ASSUME NEW w, Typed, Placed(w)
    PROVE  /\ IsCursor(w.outer) =>
                 /\ ConsumedBy(summary) \in Summaries /\ ConsumedBy(scored) \in ScoredFiles
           /\ Left(ConsumedBy(summary), w) /\ ConsumedBy(summary).header = summary.header
           /\ ConsumedBy(summary).events = summary.events /\ ConsumedBy(summary).payload = summary.payload
           /\ ConsumedBy(summary).channel = summary.channel /\ ConsumedBy(summary).meta = summary.meta
           /\ ConsumedBy(summary).sysex = summary.sysex
           /\ Left(ConsumedBy(scored), w) /\ ConsumedBy(scored).header = scored.header
           /\ ConsumedBy(scored).events = scored.events /\ ConsumedBy(scored).text = scored.text
<1>1. summary \in Summaries /\ scored \in ScoredFiles /\ outer = w.outer
  BY DEF Typed, Placed
<1>2. PICK a, b : a = AbsoluteOffset(outer) /\ b = Remaining(outer)
  OBVIOUS
<1>3. IsCursor(w.outer) => a \in Nat /\ b \in Nat
  <2> SUFFICES ASSUME IsCursor(w.outer)
               PROVE  a \in Nat /\ b \in Nat
    OBVIOUS
  <2>1. Len(outer.data) \in Nat /\ outer.position \in Nat /\ outer.base \in Nat
        /\ outer.position <= Len(outer.data)
    BY <1>1, LenProperties DEF IsCursor
  <2> QED BY <1>2, <2>1 DEF AbsoluteOffset, Remaining
<1>4. /\ ConsumedBy(summary) = [summary EXCEPT !.consumed = a, !.trailing = b]
      /\ ConsumedBy(scored) = [scored EXCEPT !.consumed = a, !.trailing = b]
  BY <1>2 DEF ConsumedBy
<1> QED BY <1>1, <1>2, <1>3, <1>4 DEF Left, Summaries, ScoredFiles

(* A decoder that has read every track.                                    *)
LEMMA EndFollows ==
    ASSUME IInv, turn \in Decoders, NEW n \in Nat, Stands(Walk(file)[n], Walk(file)[n + 1]), EndOfFile
    PROVE  IInv'
<1>1. PICK f, w, x, m, s : /\ f = file /\ m = n + 1 /\ m \in Nat /\ w = Walk(f)[n] /\ x = Walk(f)[m]
                           /\ s = WalkStart(f)
  OBVIOUS
<1>2. /\ Typed /\ ScanFollows /\ OwnedFollows /\ ScoreFollows /\ Built(w) /\ f \in Seq(Byte)
      /\ Placed(w) /\ w \in Positions(f) /\ x = Onto(w) /\ Stands(w, x)
  BY <1>1 DEF IInv, Follow, Stands, Typed
<1>3. /\ stage = "chunk" /\ w.stage = "chunk" /\ w.track = track /\ DeclaredTracks = w.header.tracks
      /\ track > w.header.tracks /\ IsCursor(w.outer) /\ w \in Position(f)
      /\ w.header.tracks \in Nat /\ track = w.header.tracks + 1
  <2>1. stage = "chunk" /\ w.stage = "chunk" /\ w.track = track
    BY <1>2 DEF EndOfFile, Placed
  <2>2. DeclaredTracks = w.header.tracks
    BY <1>2, <2>1, Declared
  <2>3. IsCursor(w.outer) /\ w \in Position(f) /\ InTracks(w) /\ w.header.tracks \in Nat
    BY <1>2, PositionFields DEF Positions
  <2>4. track > w.header.tracks
    BY <2>2 DEF EndOfFile
  <2> QED BY <2>1, <2>2, <2>3, <2>4 DEF InTracks
<1>4. /\ x.stage = "finished" /\ x.header = w.header /\ x.events = w.events /\ x.payload = w.payload
      /\ x.outer = w.outer
  <2>1. x = Finished(w)
    BY <1>2, <1>3 DEF Onto
  <2> QED BY <1>3, <2>1 DEF Finished, Position
<1>5. /\ Answer(Ok) /\ owned' = owned
      /\ summary' = IF turn = "scan" THEN ConsumedBy(summary) ELSE summary
      /\ scored' = IF turn = "score" THEN ConsumedBy(scored) ELSE scored
  BY DEF EndOfFile
<1>6. /\ answer' = [d \in Decoders |-> answer'[d]] /\ answer'[turn] = Ok
      /\ \A d \in Decoders : d # turn => answer'[d] = answer[d]
      /\ file' = f /\ stage' = "header" /\ track' = 1
      /\ Placed(WalkStart(file))' /\ RunningFollowsChannel'
      /\ turn' = IF turn = "scan" THEN "owned" ELSE IF turn = "owned" THEN "score" ELSE "done"
  BY <1>1, <1>2, <1>5, Answered
<1>7. /\ summary' \in Summaries /\ scored' \in ScoredFiles
      /\ summary'.header = summary.header /\ summary'.events = summary.events
      /\ summary'.payload = summary.payload
      /\ summary'.events = summary'.channel + summary'.meta + summary'.sysex
      /\ scored'.header = scored.header /\ scored'.events = scored.events /\ scored'.text = scored.text
      /\ turn = "scan" => Left(summary', x)
      /\ turn = "score" => Left(scored', x)
  <2>1. /\ ConsumedBy(summary) \in Summaries /\ ConsumedBy(scored) \in ScoredFiles
        /\ Left(ConsumedBy(summary), w) /\ ConsumedBy(summary).header = summary.header
        /\ ConsumedBy(summary).events = summary.events /\ ConsumedBy(summary).payload = summary.payload
        /\ ConsumedBy(summary).channel = summary.channel /\ ConsumedBy(summary).meta = summary.meta
        /\ ConsumedBy(summary).sysex = summary.sysex
        /\ Left(ConsumedBy(scored), w) /\ ConsumedBy(scored).header = scored.header
        /\ ConsumedBy(scored).events = scored.events /\ ConsumedBy(scored).text = scored.text
    BY <1>2, <1>3, ConsumedTyped
  <2> HIDE DEF ConsumedBy
  <2>2. /\ summary \in Summaries /\ scored \in ScoredFiles
        /\ summary.events = summary.channel + summary.meta + summary.sysex
    BY <1>2 DEF Typed
  <2> QED BY <1>4, <1>5, <2>1, <2>2 DEF Left
<1>8. Typed'
  BY <1>2, <1>5, <1>7, AnswerTyped
<1>9. x = Walk(file')[m] /\ s = Walk(file')[0] /\ Placed(s)' /\ Verdict(Ok, x) /\ s.stage = "header"
  BY <1>1, <1>2, <1>4, <1>6, BeginPlaced DEF Verdict
<1>10. CASE turn = "scan"
  <2>1. /\ answer'["scan"] = Ok /\ answer'["owned"] = Pending /\ answer'["score"] = Pending
        /\ owned' = EmptyOwned /\ scored' = EmptyScored /\ turn' = "owned"
    BY <1>2, <1>5, <1>6, <1>10 DEF OwnedFollows, ScoreFollows, Decoders
  <2>2. ScanFollows'
    <3>1. Counted(x)'
      BY <1>2, <1>4, <1>7, <1>10 DEF Built, Counted
    <3> QED BY <1>1, <1>7, <1>9, <1>10, <2>1, <3>1 DEF ScanFollows
  <2>3. OwnedFollows'
    <3>1. Stored(s)
      BY <1>1, <1>2, <1>5, <2>1, BeginBuilt
    <3>2. Stored(s)'
      BY <1>5, <3>1 DEF Stored, StoredEvents
    <3>3. Len(owned'.tracks) = track' - 1 /\ Len(owned'.events) <= U32Max
      BY <1>6, <2>1, EmptyResults, U32MaxAssumption
    <3> QED BY <1>6, <1>9, <2>1, <3>2, <3>3 DEF OwnedFollows
  <2>4. ScoreFollows'
    BY <2>1 DEF ScoreFollows
  <2> QED BY <1>6, <1>8, <2>2, <2>3, <2>4 DEF IInv, Follow
<1>11. CASE turn = "owned"
  <2>1. /\ answer'["scan"] = answer["scan"] /\ answer'["owned"] = Ok /\ answer'["score"] = Pending
        /\ answer["scan"] = Ok /\ summary' = summary /\ scored' = EmptyScored /\ turn' = "score"
    BY <1>2, <1>5, <1>6, <1>11 DEF OwnedFollows, ScoreFollows, Decoders
  <2>2. ScanFollows'
    <3>1. PICK i \in Nat : /\ Verdict(answer["scan"], Walk(f)[i]) /\ Counted(Walk(f)[i])
                           /\ answer["scan"] = Ok => Left(summary, Walk(f)[i])
      BY <1>1, <1>2, <1>11 DEF ScanFollows
    <3>2. PICK y : y = Walk(f)[i] /\ y = Walk(file')[i]
      BY <1>6
    <3>3. Counted(y)'
      BY <2>1, <3>1, <3>2 DEF Counted
    <3> QED BY <2>1, <3>1, <3>2, <3>3 DEF ScanFollows
  <2>3. OwnedFollows'
    <3>1. Stored(w) /\ Len(owned.tracks) = track - 1 /\ TakenOver /\ Len(owned.events) <= U32Max
      BY <1>2, <1>3, <1>11 DEF Built
    <3>2. Stored(x)' /\ TakenOver'
      BY <1>4, <1>5, <2>1, <3>1 DEF Stored, StoredEvents, TakenOver
    <3>3. summary.header = w.header
      BY <1>2, <1>3, <1>11 DEF Stands
    <3>4. Len(owned'.tracks) = summary'.header.tracks
      BY <1>3, <1>5, <2>1, <3>1, <3>3
    <3>5. Len(owned'.events) <= U32Max
      BY <1>5, <3>1
    <3> QED BY <1>1, <1>4, <1>9, <2>1, <3>2, <3>4, <3>5 DEF OwnedFollows
  <2>4. ScoreFollows'
    <3>1. Heard(s)
      BY <1>1, <1>2, <1>5, <1>11, <2>1, BeginBuilt
    <3>2. Heard(s)'
      BY <1>5, <1>11, <3>1 DEF Heard, HeardEvents
    <3> QED BY <1>9, <2>1, <3>2 DEF ScoreFollows
  <2> QED BY <1>6, <1>8, <2>2, <2>3, <2>4 DEF IInv, Follow
<1>12. CASE turn = "score"
  <2>1. /\ answer'["scan"] = answer["scan"] /\ answer'["owned"] = answer["owned"]
        /\ answer'["score"] = Ok /\ turn' = "done" /\ summary' = summary
    BY <1>5, <1>6, <1>12 DEF Decoders
  <2>2. ScanFollows' /\ OwnedFollows'
    BY <1>1, <1>5, <1>6, <1>12, <2>1, EarlierStays DEF IInv
  <2>3. ScoreFollows'
    <3>1. Heard(x)'
      BY <1>2, <1>4, <1>7, <1>12 DEF Built, Heard, HeardEvents
    <3> QED BY <1>1, <1>7, <1>9, <1>12, <2>1, <3>1 DEF ScoreFollows
  <2> QED BY <1>6, <1>8, <2>2, <2>3 DEF IInv, Follow
<1> QED BY <1>10, <1>11, <1>12 DEF Decoders

--------------------------------------------------------------------------------

(* A decoder at work moves on along the walk, stops on it or has read it.  *)
LEMMA StepOnWalk ==
    ASSUME IInv, Next
    PROVE  /\ turn \in Decoders
           /\ \E n \in Nat :
                 /\ Stands(Walk(file)[n], Walk(file)[n + 1])
                 /\ \/ Moved(Walk(file)[n + 1])
                    \/ Stops(Walk(file)[n], Walk(file)[n + 1])
                    \/ StopsBadly(Walk(file)[n], Walk(file)[n + 1])
                    \/ StopsLarge(Walk(file)[n + 1])
                    \/ EndOfFile
<1>1. turn \in Decoders
  <2>1. ASSUME turn = "done"
        PROVE  FALSE
    <3>1. stage = "header"
      <4>1. Placed(WalkStart(file)) /\ WalkStart(file).stage = "header"
        BY <2>1, BeginPlaced DEF IInv, Typed
      <4> QED BY <4>1 DEF Placed
    <3> QED BY <2>1, <3>1 DEF Next, ReadHeader, OpenChunk, Decode, CloseChunk, EndOfFile
  <2> QED BY <2>1 DEF IInv, Typed
<1>2. PICK n \in Nat : Stands(Walk(file)[n], Walk(file)[n + 1])
  BY <1>1, OnWalk
<1>3. PICK w, x : w = Walk(file)[n] /\ x = Walk(file)[n + 1]
  OBVIOUS
<1>4. Stands(w, x)
  BY <1>2, <1>3
<1>5. Moved(x) \/ Stops(w, x) \/ StopsBadly(w, x) \/ StopsLarge(x) \/ EndOfFile
  <2>1. CASE ReadHeader
    BY <1>4, <2>1, HeaderMoves
  <2>2. CASE OpenChunk
    BY <1>4, <2>2, OpenMoves
  <2>3. CASE Decode
    BY <1>4, <2>3, DecodeMoves
  <2>4. CASE CloseChunk
    BY <1>4, <2>4, CloseMoves
  <2> QED BY <2>1, <2>2, <2>3, <2>4 DEF Next
<1> QED BY <1>1, <1>2, <1>3, <1>5

(* Every step keeps the decoders on the walk.                              *)
LEMMA NextIInv ==
    ASSUME IInv, Next
    PROVE  IInv'
<1>1. turn \in Decoders
  BY StepOnWalk
<1>2. PICK n \in Nat :
         /\ Stands(Walk(file)[n], Walk(file)[n + 1])
         /\ \/ Moved(Walk(file)[n + 1])
            \/ Stops(Walk(file)[n], Walk(file)[n + 1])
            \/ StopsBadly(Walk(file)[n], Walk(file)[n + 1])
            \/ StopsLarge(Walk(file)[n + 1])
            \/ EndOfFile
  BY StepOnWalk
<1> QED BY <1>1, <1>2, MovedFollows, StopFollows, BadFollows, LargeFollows, EndFollows

(* A step in which nothing is read keeps them there.                       *)
LEMMA StutterIInv ==
    ASSUME IInv, UNCHANGED vars
    PROVE  IInv'
<1>1. UNCHANGED <<file, turn, stage, outer, track, cursor, running, start, time, answer,
                  summary, owned, scored>>
  BY DEF vars, reader, chunk, results
<1>2. Typed'
  <2>1. \A w : Placed(w) => Placed(w)'
    BY <1>1 DEF Placed
  <2> QED BY <1>1, <2>1 DEF IInv, Typed, Placed
<1>3. RunningFollowsChannel'
  BY <1>1 DEF IInv, RunningFollowsChannel
<1>4. ScanFollows'
  BY <1>1 DEF IInv, Follow, ScanFollows, Placed, Counted
<1>5. OwnedFollows'
  BY <1>1 DEF IInv, Follow, OwnedFollows, Placed, Stored, StoredEvents, TakenOver
<1>6. ScoreFollows'
  BY <1>1 DEF IInv, Follow, ScoreFollows, Placed, Heard, HeardEvents
<1> QED BY <1>2, <1>3, <1>4, <1>5, <1>6 DEF IInv, Follow

(* Every decoder is on the walk of the file, in every reachable state.     *)
LEMMA AlwaysIInv == Spec => []IInv
<1>1. IInv /\ [Next]_vars => IInv'
  BY NextIInv, StutterIInv
<1> QED BY <1>1, InitIInv, PTL DEF Spec

(* Wherever a decoder is, it is in the file.                               *)
LEMMA SomewherePlaced ==
    ASSUME IInv
    PROVE  \E w \in Positions(file) :
              /\ Placed(w) /\ InBytes(file, w) /\ InTracks(w) /\ IsCursor(w.outer) /\ IsCursor(w.cursor)
              /\ w.running \in Runs
              /\ turn = "done" => track = 1
              /\ stage # "header" => w.header.tracks = DeclaredTracks
              /\ stage = "header" => track = 1
<1>1. CASE turn \in Decoders
  <2>1. PICK n \in Nat : Stands(Walk(file)[n], Walk(file)[n + 1])
    BY <1>1, OnWalk
  <2>2. PICK w, x : w = Walk(file)[n] /\ x = Walk(file)[n + 1] /\ Stands(w, x)
    BY <2>1
  <2>3. w \in Positions(file) /\ Placed(w)
    BY <2>2 DEF Stands
  <2>4. InBytes(file, w) /\ InTracks(w) /\ IsCursor(w.outer) /\ IsCursor(w.cursor) /\ w.running \in Runs
    BY <2>3, PositionFields
  <2>5. stage # "header" => w.header.tracks = DeclaredTracks
    BY <2>2, Declared
  <2>6. stage = "header" => track = 1
    BY <2>3, <2>4 DEF Placed, InTracks
  <2>7. turn # "done"
    BY <1>1 DEF Decoders
  <2> QED BY <2>3, <2>4, <2>5, <2>6, <2>7
<1>2. CASE turn = "done"
  <2>1. file \in Seq(Byte) /\ Placed(WalkStart(file))
    BY <1>2 DEF IInv, Typed
  <2>2. PICK w : w = WalkStart(file) /\ w \in Positions(file) /\ Placed(w) /\ w.stage = "header" /\ w.track = 1
    BY <2>1, StartIn, BeginPlaced
  <2>3. InBytes(file, w) /\ InTracks(w) /\ IsCursor(w.outer) /\ IsCursor(w.cursor) /\ w.running \in Runs
    BY <2>2, PositionFields
  <2>4. stage = "header" /\ track = 1
    BY <2>2 DEF Placed
  <2> QED BY <2>2, <2>3, <2>4
<1> QED BY <1>1, <1>2 DEF IInv, Typed

(* Whoever is on the walk has its cursors inside the file.                 *)
LEMMA TypeFollows == IInv => TypeOK
<1> SUFFICES ASSUME IInv
             PROVE  TypeOK
  OBVIOUS
<1>1. PICK w \in Positions(file) :
          /\ Placed(w) /\ InBytes(file, w) /\ InTracks(w) /\ IsCursor(w.outer) /\ IsCursor(w.cursor)
          /\ w.running \in Runs
          /\ turn = "done" => track = 1
          /\ stage # "header" => w.header.tracks = DeclaredTracks
          /\ stage = "header" => track = 1
  BY SomewherePlaced
<1>2. Typed /\ outer = w.outer /\ cursor = w.cursor /\ track = w.track /\ running = w.running /\ stage = w.stage
  BY <1>1 DEF IInv, Placed
<1>3. outer.data = file /\ outer.position \in 0..Len(file)
  <2>1. outer.data = file
    BY <1>1, <1>2 DEF InBytes
  <2> QED BY <1>1, <1>2, <2>1 DEF IsCursor
<1>4. track \in 1..(DeclaredTracks + 1)
  <2>1. DeclaredTracks \in Nat
    <3>1. summary.header \in Headers /\ scored.header \in Headers
      BY <1>2 DEF Typed, Summaries, ScoredFiles
    <3> QED BY <3>1 DEF Headers, DeclaredTracks
  <2>2. CASE stage = "header"
    BY <1>1, <2>1, <2>2
  <2>3. CASE stage # "header"
    BY <1>1, <1>2, <2>3 DEF InTracks
  <2> QED BY <2>2, <2>3
<1>5. cursor.position \in 0..Len(cursor.data)
  <2>1. Len(cursor.data) \in Nat
    BY <1>1, <1>2, LenProperties DEF IsCursor
  <2> QED BY <1>1, <1>2, <2>1 DEF IsCursor
<1>6. /\ cursor.data = SubSeq(file, cursor.base + 1, cursor.base + Len(cursor.data))
      /\ stage = "events" => cursor.base + Len(cursor.data) = AbsoluteOffset(outer)
  BY <1>1, <1>2 DEF InBytes
<1> QED BY <1>1, <1>2, <1>3, <1>4, <1>5, <1>6 DEF TypeOK, Typed, Runs

(* The second pass of parse_smf is on a walk that is known to end at its   *)
(* finish: it has stored no more than was counted, and all of it at last,  *)
(* if it does not stop at what 32 bits do not index.                       *)
LEMMA FitsFollows == IInv => SecondPassFits
<1> SUFFICES ASSUME IInv
             PROVE  SecondPassFits
  OBVIOUS
<1>1. Typed /\ ScanFollows /\ OwnedFollows /\ file \in Seq(Byte) /\ owned \in OwnedFiles
      /\ summary.events \in Nat /\ summary.payload \in Nat
  BY DEF IInv, Follow, Typed, Summaries
<1>2. CASE turn = "scan" \/ (turn # "owned" /\ answer["scan"] # Ok)
  <2>1. answer["owned"] = Pending /\ owned = EmptyOwned
    BY <1>1, <1>2 DEF OwnedFollows
  <2>2. Len(owned.events) = 0 /\ Len(owned.payloads) = 0
    <3>1. Len(<<>>) = 0
      BY EmptySeq
    <3> QED BY <2>1, <3>1, EmptyResults
  <2> QED BY <1>1, <2>1, <2>2, AnswersDiffer DEF SecondPassFits
<1>3. CASE turn # "scan" /\ (turn = "owned" \/ answer["scan"] = Ok)
  <2>1. answer["scan"] = Ok
    BY <1>1, <1>3 DEF OwnedFollows
  <2>2. PICK m \in Nat : Verdict(answer["scan"], Walk(file)[m]) /\ Counted(Walk(file)[m])
    BY <1>1, <1>3 DEF ScanFollows
  <2>3. PICK y : y = Walk(file)[m] /\ y.stage = "finished" /\ Counted(y)
    BY <2>1, <2>2, AnswersDiffer DEF Verdict
  <2>4. Stopped(y)
    BY <2>3 DEF Stopped
  <2>5. CASE turn = "owned"
    <3>1. answer["owned"] = Pending /\ \E n \in Nat : Placed(Walk(file)[n]) /\ Stored(Walk(file)[n])
      BY <1>1, <2>5 DEF OwnedFollows
    <3>2. PICK n, w : n \in Nat /\ w = Walk(file)[n] /\ Placed(w) /\ Stored(w)
      BY <3>1
    <3>3. ~Stopped(w) /\ w \in Positions(file)
      <4>1. w.stage \in {"header", "chunk", "events"}
        BY <1>1, <3>2 DEF Typed, Placed
      <4>2. w \in Positions(file)
        BY <1>1, <3>2, WalkSteps
      <4> QED BY <4>1, <4>2 DEF Stopped
    <3>4. Farther(w, y)
      BY <1>1, <2>3, <2>4, <3>2, <3>3, WalkBefore
    <3>5. Len(owned.events) = Len(w.events) /\ Len(owned.payloads) = w.payload
      BY <1>1, <3>2, <3>3, StoredLength DEF Stored
    <3> QED BY <2>3, <3>1, <3>4, <3>5, AnswersDiffer DEF SecondPassFits, Farther, Counted
  <2>6. CASE turn # "owned"
    <3>1. \/ /\ answer["owned"] = Ok /\ Len(owned.tracks) = summary.header.tracks
             /\ Len(owned.events) <= U32Max
             /\ \E n \in Nat : Walk(file)[n].stage = "finished" /\ Stored(Walk(file)[n])
          \/ /\ TooLarge(answer["owned"]) /\ owned = EmptyOwned
             /\ summary.events > U32Max \/ summary.payload > U32Max
      BY <1>1, <1>3, <2>6 DEF OwnedFollows
    <3>2. CASE /\ answer["owned"] = Ok /\ Len(owned.tracks) = summary.header.tracks
               /\ Len(owned.events) <= U32Max
               /\ \E n \in Nat : Walk(file)[n].stage = "finished" /\ Stored(Walk(file)[n])
      <4>1. PICK n, w : n \in Nat /\ w = Walk(file)[n] /\ w.stage = "finished" /\ Stored(w)
        BY <3>2
      <4>2. w = y
        <5>1. Stopped(w)
          BY <4>1 DEF Stopped
        <5> QED BY <1>1, <2>3, <2>4, <4>1, <5>1, WalkEnds
      <4>3. w \in Positions(file)
        BY <1>1, <4>1, WalkSteps
      <4>4. Len(owned.events) = Len(w.events) /\ Len(owned.payloads) = w.payload
        BY <1>1, <4>1, <4>3, StoredLength DEF Stored
      <4>5. Len(owned.events) = summary.events /\ Len(owned.payloads) = summary.payload
        BY <2>3, <4>2, <4>4 DEF Counted
      <4> QED BY <1>1, <3>2, <4>5, AnswersDiffer DEF SecondPassFits
    <3>3. CASE /\ TooLarge(answer["owned"]) /\ owned = EmptyOwned
               /\ summary.events > U32Max \/ summary.payload > U32Max
      <4>1. answer["owned"].kind = "SizeOverflow" /\ answer["owned"].ok = FALSE
        BY <3>3 DEF TooLarge
      <4>2. answer["owned"] # Ok
        BY <4>1, AnswersDiffer
      <4> QED BY <1>1, <3>3, <4>1, <4>2, EmptyResults DEF SecondPassFits
    <3> QED BY <3>1, <3>2, <3>3
  <2> QED BY <2>5, <2>6
<1> QED BY <1>2, <1>3

(* Whoever has come to the end of the walk has come to the same end.       *)
LEMMA AgreeFollows == IInv => DecodersAgree
<1> SUFFICES ASSUME IInv, answer["score"].done
             PROVE  IF answer["score"].ok THEN ScoreAccepts(HeardEvents, StoredEvents)
                    ELSE ScoreRefuses(answer["score"])
  BY DEF DecodersAgree, HeardEvents, StoredEvents
<1>1. Typed /\ ScanFollows /\ OwnedFollows /\ ScoreFollows /\ file \in Seq(Byte)
  BY DEF IInv, Follow, Typed
<1>2. turn = "done"
  <2>1. answer["score"] # Pending
    BY AnswersDiffer
  <2> QED BY <1>1, <2>1 DEF ScoreFollows, Typed, Decoders
<1>3. PICK m, y : /\ m \in Nat /\ y = Walk(file)[m] /\ Verdict(answer["scan"], y) /\ Counted(y)
                  /\ answer["scan"] = Ok => Left(summary, y)
  BY <1>1, <1>2 DEF ScanFollows
<1>4. Stopped(y) /\ y \in Positions(file)
  <2>1. y \in Positions(file)
    BY <1>1, <1>3, WalkSteps
  <2> QED BY <1>3, <2>1 DEF Verdict, Stopped
<1>5. PICK n, w, x :
         /\ n \in Nat /\ w = Walk(file)[n] /\ x = Walk(file)[n + 1]
         /\ \/ /\ Verdict(answer["score"], w)
               /\ answer["score"] = Ok => Heard(w) /\ Left(scored, w)
            \/ BadMeta(answer["score"], w, x)
  BY <1>1, <1>2 DEF ScoreFollows
<1>6. CASE answer["score"] = Ok /\ Verdict(answer["score"], w) /\ Heard(w) /\ Left(scored, w)
  <2>1. w.stage = "finished" /\ Stopped(w)
    BY <1>6, AnswersDiffer DEF Verdict, Stopped
  <2>2. w = y
    BY <1>1, <1>3, <1>4, <1>5, <2>1, WalkEnds
  <2>3. answer["scan"] = Ok /\ Left(summary, y) /\ Counted(y)
    BY <1>3, <2>1, <2>2 DEF Verdict
  <2>4. ASSUME answer["owned"] = Ok
        PROVE  HeardEvents = StoredEvents /\ TakenOver
    <3>1. TakenOver /\ \E i \in Nat : Walk(file)[i].stage = "finished" /\ Stored(Walk(file)[i])
      <4>1. ~TooLarge(answer["owned"])
        <5>1. \A a : TooLarge(a) => a.ok = FALSE
          BY DEF TooLarge
        <5> QED BY <2>4, <5>1, AnswersDiffer
      <4> QED BY <1>1, <1>2, <2>3, <4>1 DEF OwnedFollows
    <3>2. PICK i, z : i \in Nat /\ z = Walk(file)[i] /\ z.stage = "finished" /\ Stored(z)
      BY <3>1
    <3>3. z = y
      <4>1. Stopped(z)
        BY <3>2 DEF Stopped
      <4> QED BY <1>1, <1>3, <1>4, <3>2, <4>1, WalkEnds
    <3> QED BY <1>6, <2>2, <3>1, <3>2, <3>3 DEF Heard, Stored
  <2>5. scored.header = summary.header
    BY <1>6, <2>2, <2>3 DEF Heard, Counted
  <2>6. scored.consumed = summary.consumed /\ scored.trailing = summary.trailing
    BY <1>6, <2>2, <2>3 DEF Left
  <2>7. Len(HeardEvents) = summary.events
    BY <1>6, <2>2, <2>3 DEF Heard, Counted
  <2>8. ScoreAccepts(HeardEvents, StoredEvents)
    BY <2>3, <2>4, <2>5, <2>6, <2>7 DEF ScoreAccepts, TakenOver
  <2> QED BY <1>6, <2>8, AnswersDiffer
<1>7. CASE answer["score"] = Fault(w) /\ w.stage = "refused"
  <2>1. Stopped(w)
    BY <1>7 DEF Stopped
  <2>2. w = y
    BY <1>1, <1>3, <1>4, <1>5, <2>1, WalkEnds
  <2>3. answer["scan"] = Fault(w)
    BY <1>3, <1>7, <2>2 DEF Verdict
  <2>4. w.kind # "InvalidMetaEvent" /\ w.kind # "SizeOverflow"
    <3>1. w.kind \in ReadErrors \cup {""}
      BY <1>4, <2>2, PositionFields
    <3> QED BY <3>1 DEF ReadErrors
  <2>5. PICK a : a = answer["score"] /\ a.ok = FALSE /\ a.kind = w.kind /\ answer["scan"] = a
    BY <1>7, <2>3, AnswersDiffer
  <2>6. ScoreRefuses(a)
    BY <2>4, <2>5 DEF ScoreRefuses
  <2> QED BY <2>5, <2>6
<1>8. CASE BadMeta(answer["score"], w, x)
  <2>1. PICK a : /\ a = answer["score"] /\ a.ok = FALSE /\ a.offset \in Nat /\ ~Stopped(w)
                 /\ \/ a.kind = "InvalidMetaEvent" /\ a.offset < At(x)
                    \/ /\ a.kind = "SizeOverflow" /\ a.offset <= At(x)
                       /\ Len(x.events) > U32Max \/ 3 * x.payload > U32Max
    <3>1. PICK a : a = answer["score"]
      OBVIOUS
    <3>2. BadMeta(a, w, x)
      BY <1>8, <3>1
    <3>3. a.ok = FALSE
      BY <3>2 DEF BadMeta
    <3> QED BY <3>1, <3>2, <3>3 DEF BadMeta
  <2>2. Farther(x, y)
    BY <1>1, <1>3, <1>4, <1>5, <2>1, WalkBefore
  <2>3. x \in Positions(file)
    BY <1>1, <1>5, WalkSteps
  <2>4. At(x) \in Nat /\ At(y) \in Nat /\ At(x) <= At(y)
    BY <1>4, <2>2, <2>3, PositionFields DEF Farther
  <2>5. answer["scan"].ok \/ answer["scan"].offset = At(y)
    <3>1. CASE answer["scan"] = Ok
      BY <3>1, AnswersDiffer
    <3>2. CASE answer["scan"] = Fault(y) /\ y.stage = "refused"
      BY <3>2, AnswersDiffer DEF At
    <3> QED BY <1>3, <3>1, <3>2 DEF Verdict
  <2>6. CASE a.kind = "InvalidMetaEvent" /\ a.offset < At(x)
    <3>1. answer["scan"].ok \/ answer["scan"].offset > a.offset
      BY <2>1, <2>4, <2>5, <2>6
    <3>2. ScoreRefuses(a)
      BY <2>6, <3>1 DEF ScoreRefuses
    <3> QED BY <2>1, <3>2
  <2>7. CASE /\ a.kind = "SizeOverflow" /\ a.offset <= At(x)
             /\ Len(x.events) > U32Max \/ 3 * x.payload > U32Max
    <3>1. answer["scan"].ok \/ answer["scan"].offset >= a.offset
      BY <2>1, <2>4, <2>5, <2>7
    <3>2. summary.events > U32Max \/ 3 * summary.payload > U32Max
      <4>1. PICK e, p, k, l, u : /\ e = Len(x.events) /\ p = x.payload /\ k = summary.events
                                 /\ l = summary.payload /\ u = U32Max
        OBVIOUS
      <4>2. /\ e \in Nat /\ p \in Nat /\ k \in Nat /\ l \in Nat /\ u \in Nat
        BY <1>1, <2>3, <4>1, PositionFields, U32MaxAssumption DEF Typed, Summaries
      <4>3. e <= k /\ p <= l
        BY <1>3, <2>2, <4>1 DEF Farther, Counted
      <4>4. e > u \/ 3 * p > u
        BY <2>7, <4>1
      <4>5. k > u \/ 3 * l > u
        BY <4>2, <4>3, <4>4
      <4> QED BY <4>1, <4>5
    <3>3. ScoreRefuses(a)
      BY <2>7, <3>1, <3>2 DEF ScoreRefuses
    <3> QED BY <2>1, <3>3
  <2> QED BY <2>1, <2>6, <2>7
<1> QED BY <1>5, <1>6, <1>7, <1>8 DEF Verdict

WorkAt(w) == 2 * (Remaining(w.outer) + Remaining(w.cursor)) + One(w.stage = "events")

(* On a walk every step reads.                                             *)
LEMMA WalkReads ==
    ASSUME NEW f, NEW w \in Positions(f), ~Stopped(w), ~Stopped(Onto(w))
    PROVE  WorkAt(Onto(w)) < WorkAt(w)
<1> DEFINE x == Onto(w)
<1>1. x \in Positions(f)
  BY OntoFollows DEF Follows
<1>2. /\ w.stage \in {"header", "chunk", "events"} /\ IsCursor(w.outer) /\ IsCursor(w.cursor)
      /\ w.track \in Nat /\ w.header.tracks \in Nat /\ InBytes(f, w) /\ w \in Position(f)
  BY PositionFields DEF Stopped, Stages, Positions
<1>3. \A r : Refused(w, r).stage = "refused"
  BY <1>2 DEF Refused, Position
<1>4. Finished(w).stage = "finished"
  BY <1>2 DEF Finished, Position
<1>5. /\ Len(w.outer.data) \in Nat /\ w.outer.position \in Nat /\ w.outer.position <= Len(w.outer.data)
      /\ Len(w.cursor.data) \in Nat /\ w.cursor.position \in Nat /\ w.cursor.position <= Len(w.cursor.data)
  BY <1>2, LenProperties DEF IsCursor
<1>6. CASE w.stage = "header"
  <2>1. PICK r : r = HeaderOf(w)
    OBVIOUS
  <2>2. r.ok /\ x = PastHeader(w, r)
    BY <1>3, <1>6, <2>1 DEF Onto, Stopped
  <2>3. ReadsOn(r, w.outer) /\ (r.ok = TRUE => r.cursor.position > w.outer.position)
    BY <1>2, <2>1, HeaderReads DEF HeaderOf
  <2>4. r.ok = TRUE
    BY <2>2, <2>3 DEF ReadsOn
  <2>5. /\ IsCursor(r.cursor) /\ r.cursor.data = w.outer.data /\ r.cursor.position \in Nat
        /\ r.cursor.position > w.outer.position
    BY <2>3, <2>4 DEF ReadsOn, Onward, IsCursor
  <2>6. x.stage = "chunk" /\ x.outer = r.cursor /\ x.cursor = w.cursor
    BY <1>2, <2>2 DEF PastHeader, Position
  <2>7. PICK p, q : /\ p = Remaining(x.outer) /\ q = Remaining(w.outer) /\ p < q
                    /\ p \in Int /\ q \in Int
    <3>1. PICK l, a, b \in Nat : l = Len(w.outer.data) /\ a = w.outer.position
                                 /\ b = r.cursor.position /\ a < b
      BY <1>5, <2>5
    <3>2. Remaining(x.outer) = l - b /\ Remaining(w.outer) = l - a
      BY <2>5, <2>6, <3>1 DEF Remaining
    <3>3. l - b < l - a /\ l - b \in Int /\ l - a \in Int
      BY <3>1
    <3> QED BY <3>2, <3>3
  <2>8. PICK c : c = Remaining(w.cursor) /\ c \in Int
    BY <1>5 DEF Remaining
  <2>9. WorkAt(x) = 2 * (p + c) + 0 /\ WorkAt(w) = 2 * (q + c) + 0
    BY <1>6, <2>6, <2>7, <2>8 DEF WorkAt, One
  <2> QED BY <2>7, <2>8, <2>9
<1>7. CASE w.stage = "chunk"
  <2>1. PICK r : r = BodyOf(w)
    OBVIOUS
  <2>2. r.ok /\ x = InChunk(w, r)
    BY <1>2, <1>3, <1>4, <1>7, <2>1 DEF Onto, Stopped
  <2>3. /\ ReadsOn(r, w.outer)
        /\ r.ok = TRUE => /\ IsCursor(r.value) /\ r.value.position = 0
                          /\ r.cursor.position = w.outer.position + 8 + Len(r.value.data)
    BY <1>2, <2>1, BodyReads DEF BodyOf
  <2>4. r.ok = TRUE
    BY <2>2, <2>3 DEF ReadsOn
  <2>5. /\ r.cursor.data = w.outer.data /\ Len(r.value.data) \in Nat /\ r.value.position = 0
        /\ r.cursor.position = w.outer.position + 8 + Len(r.value.data)
    BY <2>3, <2>4, LenProperties DEF ReadsOn, Onward, IsCursor
  <2>6. x.stage = "events" /\ x.outer = r.cursor /\ x.cursor = r.value
    BY <1>2, <2>2 DEF InChunk, Position
  <2>7. Remaining(w.cursor) = 0
    BY <1>2, <1>7 DEF InBytes
  <2>8. PICK d : d = Remaining(x.cursor) /\ d \in Nat
    BY <2>5, <2>6 DEF Remaining
  <2>9. PICK p, q : p = Remaining(x.outer) /\ q = Remaining(w.outer) /\ p = q - 8 - d /\ q \in Int
    <3>1. PICK l, a \in Nat : l = Len(w.outer.data) /\ a = w.outer.position
      BY <1>5
    <3>2. d = Len(r.value.data)
      <4>1. PICK e \in Nat : e = Len(r.value.data)
        BY <2>5
      <4>2. Remaining(x.cursor) = e - 0
        BY <2>5, <2>6, <4>1 DEF Remaining
      <4> QED BY <2>8, <4>1, <4>2
    <3>3. Remaining(x.outer) = l - (a + 8 + d) /\ Remaining(w.outer) = l - a
      BY <2>5, <2>6, <3>1, <3>2 DEF Remaining
    <3>4. l - (a + 8 + d) = (l - a) - 8 - d /\ l - a \in Int
      BY <2>8, <3>1
    <3> QED BY <3>3, <3>4
  <2>10. WorkAt(x) = 2 * (p + d) + 1 /\ WorkAt(w) = 2 * (q + 0) + 0
    BY <1>7, <2>6, <2>7, <2>8, <2>9 DEF WorkAt, One
  <2> QED BY <2>8, <2>9, <2>10
<1>8. CASE w.stage = "events" /\ Remaining(w.cursor) # 0
  <2>1. PICK r : r = EventOf(w)
    OBVIOUS
  <2>2. r.ok /\ x = PastEvent(w, r)
    BY <1>3, <1>8, <2>1 DEF Onto, Stopped
  <2>3. IsRead(w.cursor, r)
    <3>1. w.running \in Runs
      BY PositionFields
    <3> QED BY <1>2, <2>1, <3>1, EventReads DEF EventOf
  <2>4. r.ok = TRUE
    BY <2>2, <2>3 DEF IsRead, ReadsOn
  <2>5. /\ r.cursor.data = w.cursor.data /\ r.cursor.position \in Nat
        /\ r.cursor.position > w.cursor.position
    BY <2>3, <2>4 DEF IsRead, ReadsOn, Onward, IsCursor
  <2>6. x.stage = w.stage /\ x.outer = w.outer /\ x.cursor = r.cursor
    BY <1>2, <2>2 DEF PastEvent, Position
  <2>7. PICK p, q : /\ p = Remaining(x.cursor) /\ q = Remaining(w.cursor) /\ p < q
                    /\ p \in Int /\ q \in Int
    <3>1. PICK l, a, b \in Nat : l = Len(w.cursor.data) /\ a = w.cursor.position
                                 /\ b = r.cursor.position /\ a < b
      BY <1>5, <2>5
    <3>2. Remaining(x.cursor) = l - b /\ Remaining(w.cursor) = l - a
      BY <2>5, <2>6, <3>1 DEF Remaining
    <3>3. l - b < l - a /\ l - b \in Int /\ l - a \in Int
      BY <3>1
    <3> QED BY <3>2, <3>3
  <2>8. PICK c : c = Remaining(w.outer) /\ c \in Int
    BY <1>5 DEF Remaining
  <2>9. WorkAt(x) = 2 * (c + p) + 1 /\ WorkAt(w) = 2 * (c + q) + 1
    BY <1>8, <2>6, <2>7, <2>8 DEF WorkAt, One
  <2> QED BY <2>7, <2>8, <2>9
<1>9. CASE w.stage = "events" /\ Remaining(w.cursor) = 0
  <2>1. x = PastChunk(w)
    BY <1>9 DEF Onto
  <2>2. x.stage = "chunk" /\ x.outer = w.outer /\ x.cursor = w.cursor
    BY <1>2, <2>1 DEF PastChunk, Position
  <2> QED BY <1>5, <1>9, <2>2 DEF WorkAt, Remaining, One
<1> QED BY <1>2, <1>6, <1>7, <1>8, <1>9

(* A step that brings no answer is a step of the walk, and that reads.     *)
LEMMA StepReads ==
    ASSUME IInv, Next, turn' = turn
    PROVE  Work' < Work
<1>1. turn \in Decoders /\ file \in Seq(Byte) /\ Typed
  BY StepOnWalk DEF IInv, Typed
<1>2. PICK n \in Nat :
         /\ Stands(Walk(file)[n], Walk(file)[n + 1])
         /\ \/ Moved(Walk(file)[n + 1])
            \/ Stops(Walk(file)[n], Walk(file)[n + 1])
            \/ StopsBadly(Walk(file)[n], Walk(file)[n + 1])
            \/ StopsLarge(Walk(file)[n + 1])
            \/ EndOfFile
  BY StepOnWalk
<1>3. PICK w, x : w = Walk(file)[n] /\ x = Walk(file)[n + 1]
  OBVIOUS
<1>4. ASSUME NEW a, a = Ok \/ a.ok = FALSE, Answer(a)
      PROVE  FALSE
  <2>1. turn' = IF turn = "scan" THEN (IF a = Ok THEN "owned" ELSE "score")
                ELSE IF turn = "owned" THEN "score" ELSE "done"
    BY <1>1, <1>4, Answered
  <2> QED BY <1>1, <2>1 DEF Decoders
<1>5. ~Stops(w, x)
  BY <1>4, AnswersDiffer DEF Stops
<1>6. ~StopsBadly(w, x)
  <2>1. \A a : BadMeta(a, w, x) => a.ok = FALSE
    BY DEF BadMeta
  <2> QED BY <1>4, <2>1 DEF StopsBadly
<1>7. ~EndOfFile /\ ~StopsLarge(x)
  <2>1. \A a : TooLarge(a) => a.ok = FALSE
    BY DEF TooLarge
  <2> QED BY <1>4, <2>1 DEF EndOfFile, StopsLarge
<1>8. Stands(w, x) /\ Moved(x)
  BY <1>2, <1>3, <1>5, <1>6, <1>7
<1>9. w \in Positions(file) /\ x = Onto(w) /\ Placed(w) /\ Placed(x)' /\ Typed'
  BY <1>8 DEF Stands, Moved
<1>10. ~Stopped(w) /\ ~Stopped(x)
  BY <1>1, <1>9 DEF Typed, Placed, Stopped
<1>11. WorkAt(x) < WorkAt(w)
  BY <1>9, <1>10, WalkReads
<1>12. Work = WorkAt(w)
  BY <1>9 DEF Work, WorkAt, Placed
<1>13. Work' = WorkAt(x)
  BY <1>9 DEF Work, WorkAt, Placed
<1> QED BY <1>11, <1>12, <1>13

(* The byte reader stays within the file and within the chunk it took      *)
(* (Cursor's bounds checks), and the open chunk ends where the outer       *)
(* cursor stands (take_cursor), whatever the bytes are.                    *)
THEOREM TypeCorrect == Spec => []TypeOK
<1> QED BY AlwaysIInv, TypeFollows, PTL

(* parse_smf allocates what scan_smf counted, then reads the file again    *)
(* without its checks: the second pass never exceeds that capacity, fills  *)
(* it exactly when it accepts, and fails only for a file of more events or *)
(* more payload bytes than 32 bits index.                                  *)
THEOREM SecondPassFitsAlways == Spec => []SecondPassFits
<1> QED BY AlwaysIInv, FitsFollows, PTL

(* scan_smf, parse_smf and the score parser, each with its own copy of the *)
(* event loop: a file the score parser accepts, scan_smf accepts with the  *)
(* same header, number of events, consumed and trailing bytes, and         *)
(* parse_smf, when it does not refuse the file for its size, with the same *)
(* events.  A file the score parser refuses, scan_smf refuses with the     *)
(* same error at the same offset, unless a recognised meta event has a     *)
(* wrong length or the score may be too large for 32 bits; then scan_smf   *)
(* has not stopped before.                                                 *)
THEOREM DecodersAlwaysAgree == Spec => []DecodersAgree
<1> QED BY AlwaysIInv, AgreeFollows, PTL

(* A running status is the status of the channel message just before, in   *)
(* the same track: no meta or SysEx event and no chunk end stand between   *)
(* (running_status in parse_track and parse_score_track).                  *)
THEOREM RunningFollows == Spec => []RunningFollowsChannel
<1>1. IInv => RunningFollowsChannel
  BY DEF IInv
<1> QED BY <1>1, AlwaysIInv, PTL

(* Every step between two answers reads on in the file or leaves a chunk   *)
(* for good, so that no loop of the three decoders stands still.           *)
THEOREM StepsRead == Spec => EveryStepReads
<1>1. IInv /\ [Next]_vars => [turn' = turn => Work' < Work]_vars
  BY StepReads
<1> QED BY <1>1, AlwaysIInv, PTL DEF Spec, EveryStepReads

--------------------------------------------------------------------------------

(* A decoder that goes on has not answered.                                *)
LEMMA NoAnswer ==
    ASSUME turn \in Decoders, turn' = turn
    PROVE  (\A a : ~Answer(a)) /\ (\A r : ~Refuse(r)) /\ ~EndOfFile
<1>1. \A a : ~Answer(a)
  <2>1. \A a : NextTurn(a) # turn
    BY DEF NextTurn, Decoders
  <2> QED BY <2>1 DEF Answer
<1> QED BY <1>1 DEF Refuse, EndOfFile

(* It moves along the walk.                                                *)
LEMMA GoesOn ==
    ASSUME IInv, Next, turn' = turn
    PROVE  \E n \in Nat : Stands(Walk(file)[n], Walk(file)[n + 1]) /\ Moved(Walk(file)[n + 1])
<1>1. turn \in Decoders
  BY StepOnWalk
<1>2. (\A a : ~Answer(a)) /\ ~EndOfFile
  BY <1>1, NoAnswer
<1>3. PICK n \in Nat :
         /\ Stands(Walk(file)[n], Walk(file)[n + 1])
         /\ \/ Moved(Walk(file)[n + 1])
            \/ Stops(Walk(file)[n], Walk(file)[n + 1])
            \/ StopsBadly(Walk(file)[n], Walk(file)[n + 1])
            \/ StopsLarge(Walk(file)[n + 1])
            \/ EndOfFile
  BY StepOnWalk
<1>4. PICK w, x : w = Walk(file)[n] /\ x = Walk(file)[n + 1]
  OBVIOUS
<1>5. ~Stops(w, x) /\ ~StopsBadly(w, x) /\ ~StopsLarge(x)
  BY <1>2 DEF Stops, StopsBadly, StopsLarge
<1> QED BY <1>2, <1>3, <1>4, <1>5

(* An event that is decoded without an answer is accepted.                 *)
LEMMA DecodeAccepts ==
    ASSUME IInv, Decode, turn' = turn
    PROVE  LET r == ReadEvent(cursor, running)
           IN  /\ stage = "events" /\ r.ok = TRUE /\ r.value.event \in Events
               /\ Accept(r.value.event, r)
<1>1. turn \in Decoders
  BY StepOnWalk DEF Next
<1>2. PICK n \in Nat : Stands(Walk(file)[n], Walk(file)[n + 1])
  BY <1>1, OnWalk
<1>3. PICK w, x : w = Walk(file)[n] /\ x = Walk(file)[n + 1] /\ Stands(w, x)
  BY <1>2
<1>4. \A a : ~Answer(a)
  BY <1>1, NoAnswer
<1>5. ~Stops(w, x) /\ ~StopsBadly(w, x) /\ ~StopsLarge(x)
  BY <1>4 DEF Stops, StopsBadly, StopsLarge
<1>6. PICK r : /\ r = ReadEvent(cursor, running)
               /\ w \in Positions(file) /\ stage = "events" /\ w.stage = "events" /\ r = EventOf(w)
               /\ r.ok = TRUE /\ Accept(r.value.event, r)
  BY <1>3, <1>5, DecodeCases
<1>7. r.value.event \in Events
  <2>1. file \in Seq(Byte)
    BY DEF IInv, Typed
  <2> QED BY <1>6, <2>1, EventInFile DEF FileEvents
<1> QED BY <1>6, <1>7

(* The input stays.                                                        *)
LEMMA SameFile == Next => file' = file
  BY DEF Next, ReadHeader, OpenChunk, Decode, CloseChunk, EndOfFile, Refuse, Answer,
         Count, Store, Hear, Advance, NextTrack

--------------------------------------------------------------------------------

(* The records under the ranges of the tracks. *)
TracksOf(o) ==
    [t \in DOMAIN o.tracks |->
        SubSeq(o.events, o.tracks[t].start + 1, o.tracks[t].start + o.tracks[t].len)]

(* The payload of a record is in the arena where it says, in 32 bits. *)
Stores(o, r) ==
    ~IsChannel(r.event.status) =>
        /\ r.start <= U32Max /\ r.len <= U32Max
        /\ r.len = Len(r.event.data) /\ r.start + r.len <= Len(o.payloads)
        /\ SubSeq(o.payloads, r.start + 1, r.start + r.len) = r.event.data

(* The first b records are those of the tracks, and every payload is kept. *)
Shelved(o, b) ==
    /\ b \in 0..Len(o.events)
    /\ \A t \in 1..Len(o.tracks) : o.tracks[t].start + o.tracks[t].len <= b
    /\ \A t \in 1..Len(o.tracks) : o.tracks[t].start + o.tracks[t].len <= U32Max
    /\ FlattenSeq(TracksOf(o)) = SubSeq(o.events, 1, b)
    /\ \A i \in 1..Len(o.events) : Stores(o, o.events[i])

(* The records that are under a range. *)
Closed == IF stage = "events" /\ turn = "owned" THEN start ELSE Len(owned.events)

StoreInv == Shelved(owned, Closed)

(* A part of a sequence is a part of what it grows to.                     *)
LEMMA PartOfLonger ==
    ASSUME NEW S, NEW s \in Seq(S), NEW x \in Seq(S), NEW a \in Nat, NEW b \in Nat, b <= Len(s)
    PROVE  SubSeq(s \o x, a + 1, b) = SubSeq(s, a + 1, b)
<1>1. Len(s) \in Nat
  BY LenProperties
<1>2. CASE b < a + 1
  BY <1>2, SubSeqEmpty
<1>3. CASE a + 1 <= b
  <2>1. a + 1 \in 1..Len(s) /\ b \in 1..Len(s)
    BY <1>1, <1>3
  <2> QED BY <2>1, SubSeqOfConcat1
<1> QED BY <1>2, <1>3

(* What was appended last stands at the end.                               *)
LEMMA PartAtEnd ==
    ASSUME NEW S, NEW s \in Seq(S), NEW x \in Seq(S)
    PROVE  SubSeq(s \o x, Len(s) + 1, Len(s) + Len(x)) = x
<1>1. PICK m, n : m = Len(s) /\ n = Len(x) /\ m \in Nat /\ n \in Nat
  BY LenProperties
<1>2. CASE n = 0
  <2>1. x = <<>>
    BY <1>1, <1>2, EmptySeq
  <2>2. SubSeq(s \o x, m + 1, m + n) = <<>>
    BY <1>1, <1>2, SubSeqEmpty
  <2> QED BY <1>1, <2>1, <2>2
<1>3. CASE n # 0
  <2>1. m + 1 \in (m + 1)..(m + n) /\ m + n \in (m + 1)..(m + n)
    BY <1>1, <1>3
  <2>2. SubSeq(s \o x, m + 1, m + n) = SubSeq(x, (m + 1) - m, (m + n) - m)
    BY <1>1, <2>1, SubSeqOfConcat2
  <2>3. (m + 1) - m = 1 /\ (m + n) - m = n
    BY <1>1
  <2> QED BY <1>1, <2>2, <2>3, SubSeqFull
<1> QED BY <1>2, <1>3

(* The types of what an owned file is made of.                             *)
LEMMA OwnedParts ==
    ASSUME NEW o \in OwnedFiles
    PROVE  /\ o.tracks \in Seq(Ranges) /\ Len(o.tracks) \in Nat /\ DOMAIN o.tracks = 1..Len(o.tracks)
           /\ \A t \in 1..Len(o.tracks) : o.tracks[t].start \in Nat /\ o.tracks[t].len \in Nat
           /\ o.events \in Seq(Records) /\ Len(o.events) \in Nat
           /\ \A i \in 1..Len(o.events) : /\ o.events[i] \in Records /\ o.events[i].event \in Events
                                          /\ o.events[i].start \in Nat /\ o.events[i].len \in Nat
           /\ o.payloads \in Seq(Byte) /\ Len(o.payloads) \in Nat
<1>1. o.tracks \in Seq(Ranges) /\ o.events \in Seq(Records) /\ o.payloads \in Seq(Byte)
  BY DEF OwnedFiles
<1>2. /\ Len(o.tracks) \in Nat /\ DOMAIN o.tracks = 1..Len(o.tracks) /\ Len(o.events) \in Nat
      /\ Len(o.payloads) \in Nat
  BY <1>1, LenProperties
<1>3. ASSUME NEW t \in 1..Len(o.tracks)
      PROVE  o.tracks[t].start \in Nat /\ o.tracks[t].len \in Nat
  <2>1. o.tracks[t] \in Ranges
    BY <1>1, ElementOfSeq
  <2> QED BY <2>1 DEF Ranges
<1>4. ASSUME NEW i \in 1..Len(o.events)
      PROVE  /\ o.events[i] \in Records /\ o.events[i].event \in Events
             /\ o.events[i].start \in Nat /\ o.events[i].len \in Nat
  <2>1. o.events[i] \in Records
    BY <1>1, ElementOfSeq
  <2> QED BY <2>1 DEF Records
<1> QED BY <1>1, <1>2, <1>3, <1>4

(* The records of the tracks are sequences of records.                     *)
LEMMA TracksType ==
    ASSUME NEW o \in OwnedFiles,
           \A t \in 1..Len(o.tracks) : o.tracks[t].start + o.tracks[t].len <= Len(o.events)
    PROVE  TracksOf(o) \in Seq(Seq(Records)) /\ Len(TracksOf(o)) = Len(o.tracks)
<1> DEFINE part(t) == SubSeq(o.events, o.tracks[t].start + 1, o.tracks[t].start + o.tracks[t].len)
<1>1. /\ Len(o.tracks) \in Nat /\ DOMAIN o.tracks = 1..Len(o.tracks) /\ o.events \in Seq(Records)
      /\ \A t \in 1..Len(o.tracks) : o.tracks[t].start \in Nat /\ o.tracks[t].len \in Nat
      /\ \A i \in 1..Len(o.events) : o.events[i] \in Records
  BY OwnedParts
<1>2. ASSUME NEW t \in 1..Len(o.tracks)
      PROVE  part(t) \in Seq(Records)
  <2>1. PICK a, b : a = o.tracks[t].start + 1 /\ b = o.tracks[t].start + o.tracks[t].len
    OBVIOUS
  <2>2. a \in Int /\ b \in Int /\ \A i \in a..b : o.events[i] \in Records
    <3>1. o.tracks[t].start \in Nat /\ o.tracks[t].len \in Nat
      BY <1>1
    <3>2. a \in Nat /\ b \in Nat /\ 1 <= a /\ b <= Len(o.events)
      <4>1. PICK c, l \in Nat : c = o.tracks[t].start /\ l = o.tracks[t].len
        BY <3>1
      <4>2. a = c + 1 /\ b = c + l
        BY <2>1, <4>1
      <4>3. b <= Len(o.events)
        BY <2>1
      <4> QED BY <4>2, <4>3
    <3>3. a..b \subseteq 1..Len(o.events)
      BY <3>2
    <3> QED BY <1>1, <3>2, <3>3
  <2> QED BY <2>1, <2>2, SubSeqProperties
<1>3. TracksOf(o) = [t \in 1..Len(o.tracks) |-> part(t)]
  BY <1>1 DEF TracksOf
<1> HIDE DEF part
<1>4. TracksOf(o) \in [1..Len(o.tracks) -> Seq(Records)]
  BY <1>2, <1>3
<1>5. PICK f, n, T : f = TracksOf(o) /\ n = Len(o.tracks) /\ T = Seq(Records)
  OBVIOUS
<1>6. n \in Nat /\ f \in [1..n -> T]
  BY <1>1, <1>4, <1>5
<1>7. f \in Seq(T) /\ Len(f) = n
  BY <1>6, SeqDef, LenProperties
<1> QED BY <1>5, <1>7

(* Where a record is in a longer list.                                     *)
LEMMA RecordKept ==
    ASSUME NEW o \in OwnedFiles, NEW p \in OwnedFiles, NEW x \in Seq(Byte),
           p.payloads = o.payloads \o x, NEW i \in 1..Len(o.events), Stores(o, o.events[i])
    PROVE  Stores(p, o.events[i])
<1>1. PICK r, a, n : /\ r = o.events[i] /\ a = r.start /\ n = r.len
                     /\ a \in Nat /\ n \in Nat /\ o.payloads \in Seq(Byte)
                     /\ Len(o.payloads) \in Nat
  BY OwnedParts
<1>2. SUFFICES ASSUME ~IsChannel(r.event.status)
               PROVE  /\ r.start <= U32Max /\ r.len <= U32Max
                      /\ r.len = Len(r.event.data) /\ r.start + r.len <= Len(p.payloads)
                      /\ SubSeq(p.payloads, r.start + 1, r.start + r.len) = r.event.data
  BY <1>1 DEF Stores
<1>3. /\ a <= U32Max /\ n <= U32Max
      /\ n = Len(r.event.data) /\ a + n <= Len(o.payloads)
      /\ SubSeq(o.payloads, a + 1, a + n) = r.event.data
  BY <1>1, <1>2 DEF Stores
<1>4. Len(p.payloads) = Len(o.payloads) + Len(x) /\ Len(x) \in Nat
  BY <1>1, ConcatProperties, LenProperties
<1>5. PICK b \in Nat : b = a + n
  BY <1>1
<1>6. PICK s : s = o.payloads /\ s \in Seq(Byte) /\ p.payloads = s \o x
  BY <1>1
<1>7. b <= Len(s)
  BY <1>3, <1>5, <1>6
<1>8. SubSeq(s \o x, a + 1, b) = SubSeq(s, a + 1, b)
  <2>1. s \in Seq(Byte) /\ x \in Seq(Byte) /\ a \in Nat /\ b \in Nat /\ b <= Len(s)
    BY <1>1, <1>5, <1>6, <1>7
  <2> QED BY <2>1, PartOfLonger
<1>9. SubSeq(p.payloads, a + 1, a + n) = r.event.data
  BY <1>3, <1>5, <1>6, <1>8
<1>10. a + n <= Len(p.payloads)
  <2>1. PICK l, k \in Nat : l = Len(o.payloads) /\ k = Len(x)
    BY <1>1, <1>4
  <2>2. PICK m \in Nat : m = Len(p.payloads) /\ m = l + k
    BY <1>4, <2>1
  <2>3. b <= l
    BY <1>3, <1>5, <2>1
  <2>4. b <= m
    BY <2>2, <2>3
  <2> QED BY <1>5, <2>2, <2>4
<1> QED BY <1>1, <1>3, <1>9, <1>10

(* Records behind those under a range change no track.                     *)
LEMMA SameTracks ==
    ASSUME NEW o \in OwnedFiles, NEW p, NEW b, NEW y \in Seq(Records), Shelved(o, b),
           p.tracks = o.tracks, p.events = o.events \o y
    PROVE  TracksOf(p) = TracksOf(o)
<1>1. PICK n, s : /\ s = o.events /\ n = Len(s) /\ n \in Nat /\ s \in Seq(Records)
                  /\ DOMAIN o.tracks = 1..Len(o.tracks)
                  /\ \A t \in 1..Len(o.tracks) : o.tracks[t].start \in Nat /\ o.tracks[t].len \in Nat
  BY OwnedParts
<1>2. b \in 0..n /\ \A t \in 1..Len(o.tracks) : o.tracks[t].start + o.tracks[t].len <= b
  BY <1>1 DEF Shelved
<1>3. ASSUME NEW t \in 1..Len(o.tracks)
      PROVE  SubSeq(p.events, o.tracks[t].start + 1, o.tracks[t].start + o.tracks[t].len) =
             SubSeq(o.events, o.tracks[t].start + 1, o.tracks[t].start + o.tracks[t].len)
  <2>1. PICK a, l \in Nat : a = o.tracks[t].start /\ l = o.tracks[t].len
    BY <1>1
  <2>2. a + l <= b
    BY <1>2, <2>1
  <2>3. PICK c \in Nat : c = a + l /\ c <= n
    <3>1. b \in Nat /\ b <= n
      BY <1>1, <1>2
    <3>2. n \in Nat
      BY <1>1
    <3> QED BY <2>2, <3>1, <3>2
  <2>4. s \in Seq(Records) /\ c <= Len(s) /\ p.events = s \o y
    BY <1>1, <2>3
  <2>5. SubSeq(s \o y, a + 1, c) = SubSeq(s, a + 1, c)
    BY <2>4, PartOfLonger
  <2> QED BY <1>1, <2>1, <2>3, <2>4, <2>5
<1> QED BY <1>1, <1>3 DEF TracksOf

Pushes(o, p, e) ==
    /\ p.tracks = o.tracks
    /\ p.payloads = o.payloads \o (IF IsChannel(e.status) THEN <<>> ELSE e.data)
    /\ p.events = Append(o.events, RecordOf(o, e)) /\ Indexed(o, e)

(* A record that is pushed moves no other, and finds its payload.          *)
LEMMA PushKeeps ==
    ASSUME NEW o \in OwnedFiles, NEW p \in OwnedFiles, NEW e \in Events, NEW b,
           Shelved(o, b), Pushes(o, p, e)
    PROVE  Shelved(p, b)
<1>1. PICK n, m : /\ n = Len(o.events) /\ m = Len(o.payloads) /\ n \in Nat /\ m \in Nat
                  /\ o.events \in Seq(Records) /\ o.payloads \in Seq(Byte)
                  /\ Len(o.tracks) \in Nat /\ DOMAIN o.tracks = 1..Len(o.tracks)
                  /\ \A t \in 1..Len(o.tracks) : o.tracks[t].start \in Nat /\ o.tracks[t].len \in Nat
  BY OwnedParts
<1>2. PICK r, x : /\ r = Record(e, IF IsChannel(e.status) THEN 0 ELSE m, Len(e.data))
                  /\ x = IF IsChannel(e.status) THEN <<>> ELSE e.data
  OBVIOUS
<1>3. e.data \in Seq(Byte) /\ x \in Seq(Byte) /\ Len(e.data) \in Nat
  <2>1. e.data \in Seq(Byte)
    BY DEF Events
  <2>2. Len(e.data) \in Nat
    BY <2>1, LenProperties
  <2>3. CASE IsChannel(e.status)
    BY <1>2, <2>1, <2>2, <2>3, EmptySeq
  <2>4. CASE ~IsChannel(e.status)
    BY <1>2, <2>1, <2>2, <2>4
  <2> QED BY <2>3, <2>4
<1>4. r \in Records
  BY <1>1, <1>2, <1>3 DEF Record, Records
<1>5. p.events = Append(o.events, r) /\ p.payloads = o.payloads \o x /\ p.tracks = o.tracks
  BY <1>1, <1>2 DEF Pushes, RecordOf
<1>6. /\ Len(p.events) = n + 1 /\ p.events[n + 1] = r
      /\ \A i \in 1..n : p.events[i] = o.events[i]
  BY <1>1, <1>4, <1>5, AppendProperties
<1>7. p.events = o.events \o <<r>> /\ <<r>> \in Seq(Records)
  BY <1>1, <1>4, <1>5, AppendIsConcat
<1>8. b \in 0..n /\ \A t \in 1..Len(o.tracks) : o.tracks[t].start + o.tracks[t].len <= b
  BY <1>1 DEF Shelved
<1>9. TracksOf(p) = TracksOf(o)
  BY <1>1, <1>5, <1>7, SameTracks
<1>10. SubSeq(p.events, 1, b) = SubSeq(o.events, 1, b)
  <2>1. b \in Nat /\ b <= n /\ 0 \in Nat /\ 0 + 1 = 1
    BY <1>1, <1>8
  <2>2. SubSeq(o.events \o <<r>>, 0 + 1, b) = SubSeq(o.events, 0 + 1, b)
    BY <1>1, <1>7, <2>1, PartOfLonger
  <2> QED BY <1>7, <2>1, <2>2
<1>11. ASSUME NEW i \in 1..Len(p.events)
       PROVE  Stores(p, p.events[i])
  <2>1. CASE i = n + 1
    <3>1. SUFFICES ASSUME ~IsChannel(r.event.status)
                   PROVE  /\ r.start <= U32Max /\ r.len <= U32Max
                          /\ r.len = Len(r.event.data) /\ r.start + r.len <= Len(p.payloads)
                          /\ SubSeq(p.payloads, r.start + 1, r.start + r.len) = r.event.data
      BY <1>6, <2>1 DEF Stores
    <3>2. r.event = e
      BY <1>2 DEF Record
    <3>3. r.start = m /\ r.len = Len(e.data) /\ x = e.data
      BY <1>2, <3>1, <3>2 DEF Record
    <3>4. Len(p.payloads) = m + Len(x)
      BY <1>1, <1>3, <1>5, ConcatProperties
    <3>5. SubSeq(o.payloads \o x, Len(o.payloads) + 1, Len(o.payloads) + Len(x)) = x
      BY <1>1, <1>3, PartAtEnd
    <3>6. SubSeq(p.payloads, m + 1, m + Len(e.data)) = e.data
      BY <1>1, <1>5, <3>3, <3>5
    <3>7. m + Len(e.data) <= Len(p.payloads)
      BY <1>1, <1>3, <3>3, <3>4
    <3>8. m <= U32Max /\ Len(e.data) <= U32Max
      BY <1>1, <3>1, <3>2 DEF Pushes, Indexed
    <3> QED BY <3>2, <3>3, <3>6, <3>7, <3>8
  <2>2. CASE i # n + 1
    <3>1. i \in 1..n /\ p.events[i] = o.events[i]
      BY <1>1, <1>6, <2>2
    <3>2. i \in 1..Len(o.events) /\ Stores(o, o.events[i])
      BY <1>1, <3>1 DEF Shelved
    <3>3. Stores(p, o.events[i])
      BY <1>3, <1>5, <3>2, RecordKept
    <3> QED BY <3>1, <3>3
  <2> QED BY <2>1, <2>2
<1>12. b \in 0..Len(p.events)
  BY <1>1, <1>6, <1>8
<1>13. FlattenSeq(TracksOf(p)) = SubSeq(p.events, 1, b)
  BY <1>9, <1>10 DEF Shelved
<1>14. \A t \in 1..Len(o.tracks) : o.tracks[t].start + o.tracks[t].len <= U32Max
  BY DEF Shelved
<1> QED BY <1>5, <1>8, <1>11, <1>12, <1>13, <1>14 DEF Shelved

Closes(o, p, b) ==
    /\ p.events = o.events /\ p.payloads = o.payloads
    /\ p.tracks = Append(o.tracks, [start |-> b, len |-> Len(o.events) - b])
    /\ Len(o.events) <= U32Max

(* The range of a track is for the records that were under none.           *)
LEMMA TracksClose ==
    ASSUME NEW o \in OwnedFiles, NEW p \in OwnedFiles, NEW b, Shelved(o, b), Closes(o, p, b)
    PROVE  LET x == SubSeq(o.events, b + 1, Len(o.events))
           IN  /\ TracksOf(o) \in Seq(Seq(Records)) /\ x \in Seq(Records)
               /\ TracksOf(p) = Append(TracksOf(o), x)
<1>1. PICK n, k, s : /\ s = o.events /\ n = Len(s) /\ n \in Nat /\ s \in Seq(Records)
                     /\ k = Len(o.tracks) /\ k \in Nat /\ o.tracks \in Seq(Ranges)
                     /\ DOMAIN o.tracks = 1..k
                     /\ \A t \in 1..k : o.tracks[t].start \in Nat /\ o.tracks[t].len \in Nat
  BY OwnedParts
<1>2. PICK range : range = [start |-> b, len |-> n - b]
  OBVIOUS
<1>3. b \in 0..n /\ \A t \in 1..k : o.tracks[t].start + o.tracks[t].len <= b
  BY <1>1 DEF Shelved
<1>4. range \in Ranges /\ range.start + range.len = n
  BY <1>1, <1>2, <1>3 DEF Ranges
<1>5. p.tracks = Append(o.tracks, range) /\ p.events = s
  BY <1>1, <1>2 DEF Closes
<1>6. /\ Len(p.tracks) = k + 1 /\ p.tracks[k + 1] = range /\ \A t \in 1..k : p.tracks[t] = o.tracks[t]
      /\ p.tracks \in Seq(Ranges)
  BY <1>1, <1>4, <1>5, AppendProperties
<1>7. PICK q, x : q = TracksOf(o) /\ x = SubSeq(s, b + 1, n)
  OBVIOUS
<1>8. q \in Seq(Seq(Records)) /\ Len(q) = k
  <2>1. ASSUME NEW t \in 1..Len(o.tracks)
        PROVE  o.tracks[t].start + o.tracks[t].len <= Len(o.events)
    <3>1. PICK a, l \in Nat : a = o.tracks[t].start /\ l = o.tracks[t].len
      BY <1>1
    <3>2. a + l <= b
      BY <1>1, <1>3, <3>1
    <3> QED BY <1>1, <1>3, <3>1, <3>2
  <2>2. TracksOf(o) \in Seq(Seq(Records)) /\ Len(TracksOf(o)) = Len(o.tracks)
    BY <2>1, TracksType
  <2> QED BY <1>1, <1>7, <2>2
<1>9. x \in Seq(Records)
  <2>1. \A i \in (b + 1)..n : s[i] \in Records
    BY <1>1, <1>3, ElementOfSeq
  <2>2. b + 1 \in Int /\ n \in Int
    BY <1>1, <1>3
  <2> QED BY <1>7, <2>1, <2>2, SubSeqProperties
<1>10. TracksOf(p) = Append(q, x)
  <2>1. PICK z : z = Append(q, x)
    OBVIOUS
  <2>2. /\ z \in Seq(Seq(Records)) /\ Len(z) = k + 1 /\ z[k + 1] = x /\ \A t \in 1..k : z[t] = q[t]
    BY <1>8, <1>9, <2>1, AppendProperties
  <2>3. z = [t \in 1..(k + 1) |-> z[t]]
    <3>1. z \in [1..(k + 1) -> Seq(Records)]
      BY <2>2, SeqDef, LenProperties
    <3> QED BY <3>1
  <2>4. TracksOf(p) = [t \in 1..(k + 1) |->
                          SubSeq(s, p.tracks[t].start + 1, p.tracks[t].start + p.tracks[t].len)]
    <3>1. DOMAIN p.tracks = 1..(k + 1)
      BY <1>6, LenProperties
    <3> QED BY <1>5, <3>1 DEF TracksOf
  <2>5. ASSUME NEW t \in 1..(k + 1)
        PROVE  SubSeq(s, p.tracks[t].start + 1, p.tracks[t].start + p.tracks[t].len) = z[t]
    <3>1. CASE t = k + 1
      <4>1. p.tracks[t] = range
        BY <1>6, <3>1
      <4>2. range.start = b /\ range.start + range.len = n
        BY <1>2, <1>4
      <4> QED BY <1>7, <2>2, <3>1, <4>1, <4>2
    <3>2. CASE t # k + 1
      <4>1. t \in 1..k /\ p.tracks[t] = o.tracks[t] /\ z[t] = q[t]
        BY <1>1, <1>6, <2>2, <3>2
      <4>2. q[t] = SubSeq(s, o.tracks[t].start + 1, o.tracks[t].start + o.tracks[t].len)
        BY <1>1, <1>7, <4>1 DEF TracksOf
      <4> QED BY <4>1, <4>2
    <3> QED BY <3>1, <3>2
  <2> QED BY <2>1, <2>3, <2>4, <2>5
<1> QED BY <1>1, <1>7, <1>8, <1>9, <1>10

(* The range of a track takes the records behind those under a range.      *)
LEMMA CloseKeeps ==
    ASSUME NEW o \in OwnedFiles, NEW p \in OwnedFiles, NEW b, Shelved(o, b), Closes(o, p, b)
    PROVE  Shelved(p, Len(p.events))
<1>1. PICK n, k, s : /\ s = o.events /\ n = Len(s) /\ n \in Nat /\ s \in Seq(Records)
                     /\ k = Len(o.tracks) /\ k \in Nat /\ o.tracks \in Seq(Ranges)
                     /\ DOMAIN o.tracks = 1..k
                     /\ \A t \in 1..k : o.tracks[t].start \in Nat /\ o.tracks[t].len \in Nat
  BY OwnedParts
<1>2. PICK range : range = [start |-> b, len |-> n - b]
  OBVIOUS
<1>3. /\ b \in 0..n /\ \A t \in 1..k : o.tracks[t].start + o.tracks[t].len <= b
      /\ FlattenSeq(TracksOf(o)) = SubSeq(s, 1, b)
      /\ \A i \in 1..n : Stores(o, s[i])
  BY <1>1 DEF Shelved
<1>4. range \in Ranges /\ range.start + range.len = n
  BY <1>1, <1>2, <1>3 DEF Ranges
<1>5. p.tracks = Append(o.tracks, range) /\ p.events = s /\ p.payloads = o.payloads
  BY <1>1, <1>2 DEF Closes
<1>6. /\ Len(p.tracks) = k + 1 /\ p.tracks[k + 1] = range /\ \A t \in 1..k : p.tracks[t] = o.tracks[t]
      /\ p.tracks \in Seq(Ranges)
  BY <1>1, <1>4, <1>5, AppendProperties
<1>7. ASSUME NEW t \in 1..(k + 1)
      PROVE  p.tracks[t].start + p.tracks[t].len <= n
  <2>1. CASE t = k + 1
    BY <1>1, <1>4, <1>6, <2>1
  <2>2. CASE t # k + 1
    <3>1. t \in 1..k /\ p.tracks[t] = o.tracks[t]
      BY <1>1, <1>6, <2>2
    <3>2. PICK a, l \in Nat : a = o.tracks[t].start /\ l = o.tracks[t].len
      BY <1>1, <3>1
    <3>3. a + l <= b /\ b <= n /\ b \in Nat /\ n \in Nat
      BY <1>1, <1>3, <3>1, <3>2
    <3>4. a + l <= n
      BY <3>2, <3>3
    <3> QED BY <3>1, <3>2, <3>4
  <2> QED BY <2>1, <2>2
<1>8. PICK q, x : /\ q = TracksOf(o) /\ x = SubSeq(s, b + 1, n) /\ q \in Seq(Seq(Records))
                  /\ x \in Seq(Records) /\ TracksOf(p) = Append(q, x)
  BY <1>1, TracksClose
<1>9. FlattenSeq(TracksOf(p)) = SubSeq(s, 1, b) \o x
  <2>1. FlattenSeq(Append(q, x)) = FlattenSeq(q) \o x
    BY <1>8, FlattenProperties
  <2> QED BY <1>3, <1>8, <2>1
<1>10. SubSeq(s, 1, b) \o x = SubSeq(s, 1, n)
  <2>1. 1 \in 1..(Len(s) + 1) /\ b \in (1 - 1)..Len(s) /\ n \in b..Len(s)
    BY <1>1, <1>3
  <2>2. SubSeq(s, 1, b) \o SubSeq(s, b + 1, n) = SubSeq(s, 1, n)
    BY <1>1, <2>1, ConcatAdjacentSubSeq
  <2> QED BY <1>8, <2>2
<1>11. ASSUME NEW i \in 1..n
       PROVE  Stores(p, s[i])
  <2>1. Stores(o, s[i])
    BY <1>3
  <2> QED BY <1>5, <2>1 DEF Stores
<1>12. n \in 0..n
  BY <1>1
<1>13. ASSUME NEW t \in 1..(k + 1)
       PROVE  p.tracks[t].start + p.tracks[t].len <= U32Max
  <2>1. CASE t = k + 1
    BY <1>1, <1>4, <1>6, <2>1 DEF Closes
  <2>2. CASE t # k + 1
    <3>1. t \in 1..k /\ p.tracks[t] = o.tracks[t]
      BY <1>1, <1>6, <2>2
    <3> QED BY <1>1, <3>1 DEF Shelved
  <2> QED BY <2>1, <2>2
<1> QED BY <1>1, <1>5, <1>6, <1>7, <1>9, <1>10, <1>11, <1>12, <1>13 DEF Shelved

(* Before there is a record.                                               *)
LEMMA EmptyShelved == Shelved(EmptyOwned, 0)
<1>1. /\ EmptyOwned \in OwnedFiles /\ EmptyOwned.events = <<>> /\ EmptyOwned.payloads = <<>>
      /\ EmptyOwned.tracks = <<>>
  BY EmptyResults
<1>2. Len(<<>>) = 0 /\ DOMAIN <<>> = {}
  BY EmptySeq
<1>3. TracksOf(EmptyOwned) = <<>>
  BY <1>1, <1>2 DEF TracksOf
<1>4. FlattenSeq(<<>>) = <<>>
  <2>1. <<>> \in Seq(Seq(Records))
    BY EmptySeq
  <2> QED BY <2>1, FlattenProperties
<1>5. SubSeq(<<>>, 1, 0) = <<>>
  BY SubSeqEmpty
<1>6. PICK o : o = EmptyOwned
  OBVIOUS
<1>7. Len(o.events) = 0 /\ Len(o.tracks) = 0
  BY <1>1, <1>2, <1>6
<1>8. FlattenSeq(TracksOf(o)) = SubSeq(o.events, 1, 0)
  BY <1>1, <1>3, <1>4, <1>5, <1>6
<1>9. Shelved(o, 0)
  BY <1>7, <1>8 DEF Shelved
<1> QED BY <1>6, <1>9

(* The records do not depend on where the header is kept.                  *)
LEMMA SameShelved ==
    ASSUME NEW o, NEW p, NEW b, Shelved(o, b),
           p.events = o.events, p.payloads = o.payloads, p.tracks = o.tracks
    PROVE  Shelved(p, b)
<1>1. TracksOf(p) = TracksOf(o)
  BY DEF TracksOf
<1>2. \A r : Stores(o, r) => Stores(p, r)
  BY DEF Stores
<1> QED BY <1>1, <1>2 DEF Shelved

(* What a step of parse_smf does to what it builds, but for its answer. *)
OwnedReads ==
    /\ stage = "header" /\ stage' = "chunk" /\ track' = track
    /\ owned'.events = owned.events /\ owned'.payloads = owned.payloads /\ owned'.tracks = owned.tracks
OwnedOpens ==
    stage = "chunk" /\ stage' = "events" /\ start' = Len(owned.events) /\ track' = track /\ owned' = owned
OwnedPushes ==
    /\ stage = "events" /\ stage' = "events" /\ start' = start /\ track' = track /\ Remaining(cursor) # 0
    /\ LET read == ReadEvent(cursor, running)
       IN  /\ read.ok = TRUE /\ read.value.event \in Events
           /\ Pushes(owned, owned', read.value.event)
OwnedCloses ==
    /\ stage = "events" /\ stage' = "chunk" /\ track' = track + 1 /\ outer' = outer
    /\ Remaining(cursor) = 0 /\ Closes(owned, owned', start)

(* An event that is shelved is pushed.                                     *)
LEMMA ShelvesPushes ==
    ASSUME owned \in OwnedFiles, NEW e \in Events, Shelves(e)
    PROVE  Pushes(owned, owned', e)
<1>1. owned' = Adds(e) /\ Indexed(owned, e)
  BY DEF Shelves
<1>2. owned.payloads = owned.payloads \o <<>>
  BY OwnedParts, ConcatEmptySeq
<1>3. CASE IsChannel(e.status)
  <2>1. owned' = [owned EXCEPT !.events = Append(@, RecordOf(owned, e))]
    BY <1>1, <1>3 DEF Adds
  <2>2. /\ owned'.tracks = owned.tracks /\ owned'.payloads = owned.payloads
        /\ owned'.events = Append(owned.events, RecordOf(owned, e))
    BY <2>1 DEF OwnedFiles
  <2> QED BY <1>1, <1>2, <1>3, <2>2 DEF Pushes
<1>4. CASE ~IsChannel(e.status)
  <2>1. owned' = [owned EXCEPT !.payloads = @ \o e.data, !.events = Append(@, RecordOf(owned, e))]
    BY <1>1, <1>4 DEF Adds
  <2>2. /\ owned'.tracks = owned.tracks /\ owned'.payloads = owned.payloads \o e.data
        /\ owned'.events = Append(owned.events, RecordOf(owned, e))
    BY <2>1 DEF OwnedFiles
  <2> QED BY <1>1, <1>4, <2>2 DEF Pushes
<1> QED BY <1>3, <1>4

(* parse_smf takes such a step while it goes on.                           *)
LEMMA OwnedSteps ==
    ASSUME IInv, Next, turn = "owned", turn' = turn
    PROVE  OwnedReads \/ OwnedOpens \/ OwnedPushes \/ OwnedCloses
<1>1. owned \in OwnedFiles /\ Len(owned.events) \in Nat /\ turn \in Decoders
  BY LenProperties DEF IInv, Typed, OwnedFiles, Decoders
<1>2. (\A r : ~Refuse(r)) /\ ~EndOfFile
  BY <1>1, NoAnswer
<1>3. CASE ReadHeader
  <2>1. PICK h : KeepHeader(h)
    BY <1>2, <1>3 DEF ReadHeader
  <2>2. owned' = [owned EXCEPT !.header = h, !.consumed = summary.consumed, !.trailing = summary.trailing]
    BY <2>1 DEF KeepHeader
  <2>3. stage = "header" /\ stage' = "chunk" /\ track' = track
    BY <1>2, <1>3 DEF ReadHeader
  <2>4. OwnedReads
    BY <1>1, <2>2, <2>3 DEF OwnedFiles, OwnedReads
  <2> QED BY <2>4
<1>4. CASE OpenChunk
  <2>1. PICK c : /\ FirstRecord(c).ok
                 /\ stage = "chunk" /\ stage' = "events" /\ start' = FirstRecord(c).value
                 /\ track' = track /\ owned' = owned
    BY <1>2, <1>4 DEF OpenChunk, results
  <2>2. FirstRecord(c) = ToU32(Len(owned.events), c)
    BY DEF FirstRecord
  <2>3. start' = Len(owned.events)
    BY <1>1, <2>1, <2>2, ToU32Reads
  <2>4. OwnedOpens
    BY <2>1, <2>3 DEF OwnedOpens
  <2> QED BY <2>4
<1>5. CASE Decode
  <2>1. PICK r : /\ r = ReadEvent(cursor, running) /\ r.ok = TRUE
                 /\ stage = "events" /\ r.value.event \in Events /\ Accept(r.value.event, r)
    BY <1>5, DecodeAccepts
  <2>2. PICK e : e = r.value.event /\ e \in Events /\ Shelves(e)
    BY <2>1 DEF Accept, Counts, Hears
  <2>3. stage' = "events" /\ start' = start /\ track' = track
    BY <2>1 DEF Accept, Advance
  <2>4. Pushes(owned, owned', e)
    BY <1>1, <2>2, ShelvesPushes
  <2>5. Remaining(cursor) # 0
    BY <1>5 DEF Decode
  <2>6. OwnedPushes
    BY <2>1, <2>2, <2>3, <2>4, <2>5 DEF OwnedPushes
  <2> QED BY <2>6
<1>6. CASE CloseChunk
  <2>1. PICK end : /\ end = ToU32(Len(owned.events), cursor) /\ end.ok /\ NextTrack
                   /\ owned' = [owned EXCEPT !.tracks =
                                   Append(@, [start |-> start, len |-> end.value - start])]
    BY <1>2, <1>6 DEF CloseChunk
  <2>2. Len(owned.events) <= U32Max /\ end.value = Len(owned.events)
    BY <1>1, <2>1, ToU32Reads
  <2>3. Closes(owned, owned', start)
    BY <1>1, <2>1, <2>2 DEF Closes, OwnedFiles
  <2>4. /\ stage = "events" /\ stage' = "chunk" /\ track' = track + 1 /\ outer' = outer
        /\ Remaining(cursor) = 0
    BY <1>6, <2>1 DEF CloseChunk, NextTrack
  <2>5. OwnedCloses
    BY <2>3, <2>4 DEF OwnedCloses
  <2> QED BY <2>5
<1> QED BY <1>2, <1>3, <1>4, <1>5, <1>6 DEF Next

(* While parse_smf goes on, it shelves every record.                       *)
LEMMA OwnedGoesOn ==
    ASSUME IInv, Next, StoreInv, turn = "owned", turn' = turn, owned' \in OwnedFiles
    PROVE  StoreInv'
<1>1. PICK o, p, b, c : /\ o = owned /\ p = owned' /\ b = Closed /\ c = Closed'
                        /\ o \in OwnedFiles /\ p \in OwnedFiles /\ Shelved(o, b)
  BY DEF StoreInv, IInv, Typed
<1>2. Shelved(p, c) => StoreInv'
  BY <1>1 DEF StoreInv, Shelved, TracksOf, Stores
<1>3. CASE OwnedReads
  <2>1. c = b /\ p.events = o.events /\ p.payloads = o.payloads /\ p.tracks = o.tracks
    BY <1>1, <1>3 DEF Closed, OwnedReads
  <2> QED BY <1>1, <1>2, <2>1, SameShelved
<1>4. CASE OwnedOpens
  <2>1. c = b /\ p = o
    BY <1>1, <1>4 DEF Closed, OwnedOpens
  <2> QED BY <1>1, <1>2, <2>1
<1>5. CASE OwnedPushes
  <2>1. c = b /\ \E e \in Events : Pushes(o, p, e)
    BY <1>1, <1>5 DEF Closed, OwnedPushes
  <2> QED BY <1>1, <1>2, <2>1, PushKeeps
<1>6. CASE OwnedCloses
  <2>1. b = start /\ c = Len(p.events) /\ Closes(o, p, b)
    BY <1>1, <1>6 DEF Closed, OwnedCloses
  <2> QED BY <1>1, <1>2, <2>1, CloseKeeps
<1> QED BY <1>3, <1>4, <1>5, <1>6, OwnedSteps

(* No file, and nobody to build one. *)
Dropped == owned' = EmptyOwned /\ Closed' = 0 /\ turn = "owned" /\ answer'["owned"].ok = FALSE

(* Only the owned parser at work touches the records: it drops them all    *)
(* when it refuses the file.                                               *)
LEMMA OwnedRests ==
    ASSUME IInv, Next, turn # "owned" \/ turn' # turn
    PROVE  \/ owned' = owned /\ Closed = Len(owned.events) /\ Closed' = Len(owned.events)
           \/ Dropped
<1>1. /\ turn \in Decoders
      /\ \E n \in Nat :
         \/ Moved(Walk(file)[n + 1])
         \/ Stops(Walk(file)[n], Walk(file)[n + 1])
         \/ StopsBadly(Walk(file)[n], Walk(file)[n + 1])
         \/ StopsLarge(Walk(file)[n + 1])
         \/ EndOfFile
  BY StepOnWalk
<1>2. PICK w, x : Moved(x) \/ Stops(w, x) \/ StopsBadly(w, x) \/ StopsLarge(x) \/ EndOfFile
  BY <1>1
<1>3. \A a : Answer(a) => stage' = "header"
  BY DEF Answer
<1>4. CASE Moved(x)
  <2>1. turn' = turn /\ turn # "owned" /\ owned' = owned
    BY <1>4 DEF Moved
  <2> QED BY <2>1 DEF Closed
<1>5. CASE Stops(w, x)
  BY <1>3, <1>5 DEF Stops, Closed, results
<1>6. CASE StopsBadly(w, x)
  <2>1. turn = "score" /\ owned' = owned /\ stage' = "header"
    BY <1>3, <1>6 DEF StopsBadly, results
  <2> QED BY <2>1 DEF Closed
<1>7. CASE StopsLarge(x)
  <2>1. PICK a : TooLarge(a) /\ Answer(a) /\ turn = "owned" /\ owned' = EmptyOwned
    BY <1>7 DEF StopsLarge
  <2>2. a.ok = FALSE
    BY <2>1 DEF TooLarge
  <2>3. answer'["owned"] = a /\ stage' = "header"
    <3>1. answer'[turn] = a
      BY <1>1, <2>1, <2>2, Answered DEF IInv
    <3> QED BY <1>3, <2>1, <3>1
  <2>4. Len(EmptyOwned.events) = 0
    BY EmptyResults, EmptySeq
  <2>5. Closed' = 0
    BY <2>1, <2>3, <2>4 DEF Closed
  <2> QED BY <2>1, <2>2, <2>3, <2>5 DEF Dropped
<1>8. CASE EndOfFile
  <2>1. stage = "chunk" /\ owned' = owned /\ stage' = "header"
    BY <1>3, <1>8 DEF EndOfFile
  <2> QED BY <2>1 DEF Closed
<1> QED BY <1>2, <1>4, <1>5, <1>6, <1>7, <1>8

(* No other decoder touches the records, and no range is open any more.    *)
LEMMA StoreKept ==
    ASSUME IInv, Next, StoreInv
    PROVE  StoreInv'
<1>1. turn \in Decoders /\ owned' \in OwnedFiles
  BY StepOnWalk, NextIInv DEF IInv, Typed
<1>2. CASE turn = "owned" /\ turn' = turn
  BY <1>1, <1>2, OwnedGoesOn
<1>3. CASE turn # "owned" \/ turn' # turn
  <2>1. CASE owned' = owned /\ Closed = Len(owned.events) /\ Closed' = Len(owned.events)
    BY <2>1 DEF StoreInv, Shelved, TracksOf, Stores
  <2>2. CASE Dropped
    <3>1. PICK p, c : p = owned' /\ c = Closed' /\ Shelved(p, c)
      BY <2>2, EmptyShelved DEF Dropped
    <3> QED BY <3>1 DEF StoreInv, Shelved, TracksOf, Stores
  <2> QED BY <1>3, <2>1, <2>2, OwnedRests
<1> QED BY <1>2, <1>3

(* What the owned parser has stored it has read in the file.               *)
LEMMA StoredInFile ==
    ASSUME IInv
    PROVE  \A i \in 1..Len(owned.events) : owned.events[i].event \in FileEvents(file)
<1>1. file \in Seq(Byte) /\ owned \in OwnedFiles /\ OwnedFollows
  BY DEF IInv, Typed, Follow
<1>2. CASE owned = EmptyOwned
  <2>1. owned.events = <<>>
    BY <1>2, EmptyResults
  <2>2. Len(owned.events) = 0
    BY <2>1, EmptySeq
  <2> QED BY <2>2
<1>3. CASE owned # EmptyOwned
  <2>1. PICK n \in Nat : Stored(Walk(file)[n])
    BY <1>1, <1>3 DEF OwnedFollows
  <2>2. PICK w : w = Walk(file)[n] /\ Stored(w) /\ w \in Positions(file)
    BY <1>1, <2>1, WalkSteps
  <2>3. PICK s : s = w.events /\ s \in Seq(FileEvents(file)) /\ s = StoredEvents
    BY <2>2, PositionFields DEF Stored
  <2>4. DOMAIN owned.events = 1..Len(owned.events)
    BY <1>1, OwnedParts
  <2>5. Len(s) = Len(owned.events)
    <3>1. Len(owned.events) = Len(w.events)
      BY <1>1, <2>2, StoredLength
    <3> QED BY <2>3, <3>1
  <2>6. ASSUME NEW i \in 1..Len(owned.events)
        PROVE  owned.events[i].event \in FileEvents(file)
    <3>1. s[i] = owned.events[i].event
      BY <2>3, <2>4 DEF StoredEvents
    <3>2. s[i] \in FileEvents(file)
      BY <2>3, <2>5, ElementOfSeq
    <3> QED BY <3>1, <3>2
  <2> QED BY <2>6
<1> QED BY <1>2, <1>3

(* The records are those of the tracks, and read back what the file holds. *)
LEMMA ReadBackFollows == IInv /\ StoreInv => RecordsReadBack
<1> SUFFICES ASSUME IInv, StoreInv
             PROVE  RecordsReadBack
  OBVIOUS
<1>1. Shelved(owned, Closed) /\ owned \in OwnedFiles
  BY DEF StoreInv, IInv, Typed
<1>2. DOMAIN owned.events = 1..Len(owned.events)
  BY <1>1, OwnedParts
<1>3. FlattenSeq([t \in DOMAIN owned.tracks |-> TrackEvents(owned.tracks[t])]) =
         SubSeq(owned.events, 1, IF stage = "events" /\ turn = "owned" THEN start ELSE Len(owned.events))
  BY <1>1 DEF Shelved, TracksOf, TrackEvents, Closed
<1>4. ASSUME NEW i \in DOMAIN owned.events, ~IsChannel(owned.events[i].event.status)
      PROVE  /\ owned.events[i].start <= U32Max /\ owned.events[i].len <= U32Max
             /\ owned.events[i].start + owned.events[i].len <= Len(owned.payloads)
             /\ EventData(owned.events[i]) =
                   SubSeq(file, owned.events[i].event.at + 1,
                                owned.events[i].event.at + owned.events[i].len)
  <2>1. PICK r : r = owned.events[i]
    OBVIOUS
  <2>2. Stores(owned, r) /\ ~IsChannel(r.event.status)
    BY <1>1, <1>2, <1>4, <2>1 DEF Shelved
  <2>3. /\ r.start <= U32Max /\ r.len <= U32Max
        /\ r.len = Len(r.event.data) /\ r.start + r.len <= Len(owned.payloads)
        /\ SubSeq(owned.payloads, r.start + 1, r.start + r.len) = r.event.data
    BY <2>2 DEF Stores
  <2>4. r.event \in FileEvents(file)
    BY <1>2, <2>1, StoredInFile
  <2>5. r.event.data = SubSeq(file, r.event.at + 1, r.event.at + Len(r.event.data))
    BY <2>2, <2>4 DEF FileEvents
  <2>6. EventData(r) = r.event.data
    BY <2>2, <2>3 DEF EventData
  <2> QED BY <2>1, <2>3, <2>5, <2>6
<1>5. \A t \in DOMAIN owned.tracks : owned.tracks[t].start + owned.tracks[t].len <= U32Max
  BY <1>1, OwnedParts DEF Shelved
<1> QED BY <1>3, <1>4, <1>5 DEF RecordsReadBack

(* Every step keeps the records shelved.                                   *)
LEMMA AlwaysStored == Spec => []StoreInv
<1>1. Init => StoreInv
  <2> SUFFICES ASSUME Init
               PROVE  StoreInv
    OBVIOUS
  <2>1. owned = EmptyOwned /\ stage = "header" /\ Len(owned.events) = 0
    <3>1. EmptyOwned.events = <<>> /\ Len(<<>>) = 0
      BY EmptyResults, EmptySeq
    <3> QED BY <3>1 DEF Init
  <2>2. Closed = 0
    BY <2>1 DEF Closed
  <2> QED BY <2>1, <2>2, EmptyShelved DEF StoreInv
<1>2. IInv /\ StoreInv /\ [Next]_vars => StoreInv'
  <2>1. ASSUME IInv, StoreInv, UNCHANGED vars
        PROVE  StoreInv'
    BY <2>1 DEF StoreInv, Shelved, TracksOf, Stores, Closed, vars, reader, chunk, results
  <2> QED BY <2>1, StoreKept
<1> QED BY <1>1, <1>2, AlwaysIInv, PTL DEF Spec

(* Every record reads back the bytes of its event, the ranges of the       *)
(* tracks divide the records among them in order, and every range fits     *)
(* 32 bits, whatever the file holds: what does not fit is refused and      *)
(* nothing of it is kept (event_data, track_events, parse_track,           *)
(* push_variable_event).                                                   *)
THEOREM RecordsAlwaysReadBack == Spec => []RecordsReadBack
BY AlwaysIInv, AlwaysStored, ReadBackFollows, PTL

--------------------------------------------------------------------------------

(* The event with this index of the file is read in this track. *)
ReadIn(f, i, t) ==
    \E n \in Nat : /\ Walk(f)[n].stage = "events" /\ Walk(f)[n].track = t
                   /\ Len(Walk(f)[n].events) + 1 = i /\ Len(Walk(f)[n + 1].events) = i

(* What a caller is told of an event of a track. *)
Told(t, e) ==
    [track |-> t - 1, delta |-> e.delta,
     status |-> IF IsSysEx(e.status) THEN 240 ELSE e.status, type |-> e.type,
     data |-> IF IsSysEx(e.status) THEN NormalizeSysEx(e.data) ELSE e.data]
ToldOf(t, o) == [i \in 1..o.tracks[t].len |-> Told(t, o.events[o.tracks[t].start + i].event)]
AllTold(o) == FlattenSeq([t \in DOMAIN o.tracks |-> ToldOf(t, o)])

(* Of the first b records, each is told in the track it was read in. *)
Tells(f, o, b) ==
    /\ Len(AllTold(o)) = b
    /\ \A i \in 1..b : \E t \in Nat : ReadIn(f, i, t) /\ AllTold(o)[i] = Told(t, o.events[i].event)

AnyTold == {Told(t, e) : t \in Nat, e \in Events}

(* No event is read twice, so that it is read in one track.                *)
LEMMA OneTrack ==
    ASSUME NEW f \in Seq(Byte), NEW i \in Nat, NEW t, NEW u, ReadIn(f, i, t), ReadIn(f, i, u)
    PROVE  t = u
<1>1. PICK n \in Nat : /\ Walk(f)[n].track = t /\ Len(Walk(f)[n].events) + 1 = i
                       /\ Len(Walk(f)[n + 1].events) = i
  BY DEF ReadIn
<1>2. PICK m \in Nat : /\ Walk(f)[m].track = u /\ Len(Walk(f)[m].events) + 1 = i
                       /\ Len(Walk(f)[m + 1].events) = i
  BY DEF ReadIn
<1>3. Len(Walk(f)[n].events) \in Nat /\ Len(Walk(f)[m].events) \in Nat
  BY WalkSteps, PositionFields
<1>4. ASSUME n < m
      PROVE  FALSE
  <2>1. n + 1 \in Nat /\ n + 1 <= m
    BY <1>4
  <2>2. Len(Walk(f)[n + 1].events) <= Len(Walk(f)[m].events)
    BY <2>1, WalkOn DEF Farther
  <2> QED BY <1>1, <1>2, <1>3, <2>2
<1>5. ASSUME m < n
      PROVE  FALSE
  <2>1. m + 1 \in Nat /\ m + 1 <= n
    BY <1>5
  <2>2. Len(Walk(f)[m + 1].events) <= Len(Walk(f)[n].events)
    BY <2>1, WalkOn DEF Farther
  <2> QED BY <1>1, <1>2, <1>3, <2>2
<1>6. n = m
  BY <1>4, <1>5
<1> QED BY <1>1, <1>2, <1>6

(* What is told of a track is a sequence.                                  *)
LEMMA ToldType ==
    ASSUME NEW o \in OwnedFiles, NEW t \in 1..Len(o.tracks),
           o.tracks[t].start + o.tracks[t].len <= Len(o.events)
    PROVE  ToldOf(t, o) \in Seq(AnyTold) /\ Len(ToldOf(t, o)) = o.tracks[t].len
<1>1. PICK a, n \in Nat : a = o.tracks[t].start /\ n = o.tracks[t].len
  BY OwnedParts
<1>2. PICK m \in Nat : m = Len(o.events) /\ a + n <= m
  BY <1>1, OwnedParts
<1>3. t \in Nat
  BY OwnedParts
<1>4. ASSUME NEW i \in 1..n
      PROVE  Told(t, o.events[a + i].event) \in AnyTold
  <2>1. a + i \in 1..m
    <3>1. a + n <= m
      BY <1>2
    <3> QED BY <3>1
  <2>2. o.events[a + i].event \in Events
    BY <1>2, <2>1, OwnedParts
  <2> QED BY <1>3, <2>2 DEF AnyTold
<1>5. PICK g : g = ToldOf(t, o) /\ g = [i \in 1..n |-> Told(t, o.events[a + i].event)]
  BY <1>1 DEF ToldOf
<1>6. PICK T : T = AnyTold
  OBVIOUS
<1>7. g \in [1..n -> T]
  BY <1>4, <1>5, <1>6
<1>8. g \in Seq(T) /\ Len(g) = n
  BY <1>7, SeqDef, LenProperties
<1> QED BY <1>1, <1>5, <1>6, <1>8

(* What is told of the tracks is a sequence of sequences.                  *)
LEMMA AllToldType ==
    ASSUME NEW o \in OwnedFiles,
           \A t \in 1..Len(o.tracks) : o.tracks[t].start + o.tracks[t].len <= Len(o.events)
    PROVE  LET q == [t \in DOMAIN o.tracks |-> ToldOf(t, o)]
           IN  q \in Seq(Seq(AnyTold)) /\ Len(q) = Len(o.tracks)
<1>1. PICK k \in Nat : k = Len(o.tracks) /\ DOMAIN o.tracks = 1..k
  BY OwnedParts
<1>2. PICK q : q = [t \in DOMAIN o.tracks |-> ToldOf(t, o)]
  OBVIOUS
<1>3. \A t \in 1..k : ToldOf(t, o) \in Seq(AnyTold)
  BY <1>1, ToldType
<1>4. PICK T : T = Seq(AnyTold)
  OBVIOUS
<1>5. q \in [1..k -> T]
  BY <1>1, <1>2, <1>3, <1>4
<1>6. q \in Seq(T) /\ Len(q) = k
  BY <1>5, SeqDef, LenProperties
<1> QED BY <1>1, <1>2, <1>4, <1>6

(* A record that is pushed is not told yet, and changes nothing told.      *)
LEMMA PushTells ==
    ASSUME NEW f, NEW o \in OwnedFiles, NEW p \in OwnedFiles, NEW e \in Events, NEW b,
           Shelved(o, b), Pushes(o, p, e), Tells(f, o, b)
    PROVE  Tells(f, p, b)
<1>1. PICK n, m : /\ n = Len(o.events) /\ m = Len(o.payloads) /\ n \in Nat /\ m \in Nat
                  /\ o.events \in Seq(Records)
                  /\ Len(o.tracks) \in Nat /\ DOMAIN o.tracks = 1..Len(o.tracks)
                  /\ \A t \in 1..Len(o.tracks) : o.tracks[t].start \in Nat /\ o.tracks[t].len \in Nat
  BY OwnedParts
<1>2. PICK r : r = Record(e, IF IsChannel(e.status) THEN 0 ELSE m, Len(e.data))
  OBVIOUS
<1>3. p.events = Append(o.events, r) /\ p.tracks = o.tracks
  BY <1>1, <1>2 DEF Pushes, RecordOf
<1>4. r \in Records
  <2>1. e.data \in Seq(Byte)
    BY DEF Events
  <2>2. Len(e.data) \in Nat
    BY <2>1, LenProperties
  <2> QED BY <1>1, <1>2, <2>2 DEF Record, Records
<1>5. \A i \in 1..n : p.events[i] = o.events[i]
  BY <1>1, <1>3, <1>4, AppendProperties
<1>6. b \in 0..n /\ \A t \in 1..Len(o.tracks) : o.tracks[t].start + o.tracks[t].len <= b
  BY <1>1 DEF Shelved
<1>7. ASSUME NEW t \in DOMAIN o.tracks
      PROVE  ToldOf(t, p) = ToldOf(t, o)
  <2>1. PICK a, l \in Nat : a = o.tracks[t].start /\ l = o.tracks[t].len
    BY <1>1
  <2>2. a + l <= b
    BY <1>1, <1>6, <2>1
  <2>3. ASSUME NEW i \in 1..l
        PROVE  p.events[a + i] = o.events[a + i]
    <3>1. a + i \in 1..n
      <4>1. PICK c \in Nat : c = a + l /\ c <= n
        BY <1>1, <1>6, <2>2
      <4>2. n \in Nat
        BY <1>1
      <4> QED BY <4>1, <4>2
    <3> QED BY <1>5, <3>1
  <2> QED BY <1>3, <2>1, <2>3 DEF ToldOf
<1>8. AllTold(p) = AllTold(o)
  BY <1>3, <1>7 DEF AllTold
<1>9. ASSUME NEW i \in 1..b
      PROVE  p.events[i] = o.events[i]
  BY <1>1, <1>5, <1>6
<1> QED BY <1>8, <1>9 DEF Tells

(* The records of a track are told when its range is kept.                 *)
LEMMA CloseTells ==
    ASSUME NEW f, NEW o \in OwnedFiles, NEW p \in OwnedFiles, NEW b, Shelved(o, b), Closes(o, p, b),
           Tells(f, o, b), \A i \in (b + 1)..Len(o.events) : ReadIn(f, i, Len(o.tracks) + 1)
    PROVE  Tells(f, p, Len(p.events))
<1>1. PICK n, k, s : /\ s = o.events /\ n = Len(s) /\ n \in Nat /\ s \in Seq(Records)
                     /\ k = Len(o.tracks) /\ k \in Nat /\ o.tracks \in Seq(Ranges)
                     /\ DOMAIN o.tracks = 1..k
                     /\ \A t \in 1..k : o.tracks[t].start \in Nat /\ o.tracks[t].len \in Nat
                     /\ \A i \in 1..n : s[i].event \in Events
  BY OwnedParts
<1>2. PICK range : range = [start |-> b, len |-> n - b]
  OBVIOUS
<1>3. b \in 0..n /\ \A t \in 1..k : o.tracks[t].start + o.tracks[t].len <= b
  BY <1>1 DEF Shelved
<1>4. range \in Ranges /\ range.start = b /\ range.len = n - b
  BY <1>1, <1>2, <1>3 DEF Ranges
<1>5. p.tracks = Append(o.tracks, range) /\ p.events = s
  BY <1>1, <1>2 DEF Closes
<1>6. /\ Len(p.tracks) = k + 1 /\ p.tracks[k + 1] = range /\ \A t \in 1..k : p.tracks[t] = o.tracks[t]
      /\ p.tracks \in Seq(Ranges)
  BY <1>1, <1>4, <1>5, AppendProperties
<1>7. PICK q, x, z, S : /\ q = [t \in DOMAIN o.tracks |-> ToldOf(t, o)] /\ x = ToldOf(k + 1, p)
                        /\ z = Append(q, x) /\ S = AnyTold
  OBVIOUS
<1>8. q \in Seq(Seq(S)) /\ Len(q) = k
  <2>1. ASSUME NEW t \in 1..Len(o.tracks)
        PROVE  o.tracks[t].start + o.tracks[t].len <= Len(o.events)
    <3>1. PICK a, l \in Nat : a = o.tracks[t].start /\ l = o.tracks[t].len
      BY <1>1
    <3>2. a + l <= b
      BY <1>1, <1>3, <3>1
    <3> QED BY <1>1, <1>3, <3>1, <3>2
  <2> QED BY <1>1, <1>7, <2>1, AllToldType
<1>9. x \in Seq(S) /\ Len(x) = n - b
  <2>1. k + 1 \in 1..Len(p.tracks)
    BY <1>1, <1>6
  <2>2. p.tracks[k + 1].start + p.tracks[k + 1].len <= Len(p.events)
    BY <1>1, <1>3, <1>4, <1>5, <1>6
  <2> QED BY <1>4, <1>6, <1>7, <2>1, <2>2, ToldType
<1>10. [t \in DOMAIN p.tracks |-> ToldOf(t, p)] = z
  <2>1. /\ z \in Seq(Seq(S)) /\ Len(z) = k + 1 /\ z[k + 1] = x /\ \A t \in 1..k : z[t] = q[t]
    BY <1>7, <1>8, <1>9, AppendProperties
  <2>2. z = [t \in 1..(k + 1) |-> z[t]]
    <3>1. z \in [1..(k + 1) -> Seq(S)]
      BY <2>1, SeqDef, LenProperties
    <3> QED BY <3>1
  <2>3. DOMAIN p.tracks = 1..(k + 1)
    BY <1>6, LenProperties
  <2>4. ASSUME NEW t \in 1..(k + 1)
        PROVE  ToldOf(t, p) = z[t]
    <3>1. CASE t = k + 1
      BY <1>7, <2>1, <3>1
    <3>2. CASE t # k + 1
      <4>1. t \in 1..k /\ p.tracks[t] = o.tracks[t] /\ z[t] = q[t]
        BY <1>1, <1>6, <2>1, <3>2
      <4>2. q[t] = ToldOf(t, o)
        BY <1>1, <1>7, <4>1
      <4>3. p.events = o.events
        BY <1>1, <1>5
      <4> QED BY <4>1, <4>2, <4>3 DEF ToldOf
    <3> QED BY <3>1, <3>2
  <2> QED BY <2>2, <2>3, <2>4
<1>11. PICK h : h = FlattenSeq(q) /\ h \in Seq(S) /\ Len(h) = b /\ AllTold(p) = h \o x
  <2>1. FlattenSeq(q) \in Seq(S) /\ FlattenSeq(Append(q, x)) = FlattenSeq(q) \o x
    BY <1>8, <1>9, FlattenProperties
  <2>2. FlattenSeq(q) = AllTold(o)
    BY <1>7 DEF AllTold
  <2>3. AllTold(p) = FlattenSeq(z)
    BY <1>10 DEF AllTold
  <2> QED BY <1>7, <2>1, <2>2, <2>3 DEF Tells
<1>12. /\ Len(h \o x) = b + (n - b)
       /\ \A i \in 1..(b + (n - b)) : (h \o x)[i] = IF i <= b THEN h[i] ELSE x[i - b]
  <2>1. /\ Len(h \o x) = Len(h) + Len(x)
        /\ \A i \in 1..(Len(h) + Len(x)) : (h \o x)[i] = IF i <= Len(h) THEN h[i] ELSE x[i - Len(h)]
    BY <1>9, <1>11, ConcatProperties
  <2>2. Len(h) = b /\ Len(x) = n - b
    BY <1>9, <1>11
  <2> QED BY <2>1, <2>2, Zenon
<1>13. b + (n - b) = n
  BY <1>1, <1>3
<1>14. ASSUME NEW i \in 1..n
       PROVE  \E t \in Nat : ReadIn(f, i, t) /\ AllTold(p)[i] = Told(t, p.events[i].event)
  <2>1. CASE i <= b
    <3>1. i \in 1..b /\ AllTold(p)[i] = h[i] /\ h = AllTold(o)
      BY <1>3, <1>7, <1>11, <1>12, <1>13, <2>1 DEF AllTold
    <3>2. PICK t \in Nat : ReadIn(f, i, t) /\ AllTold(o)[i] = Told(t, o.events[i].event)
      BY <3>1 DEF Tells
    <3> QED BY <1>1, <1>5, <3>1, <3>2
  <2>2. CASE i > b
    <3>1. i \in (b + 1)..n /\ i - b \in 1..(n - b) /\ b + (i - b) = i /\ ~(i <= b)
      BY <1>1, <1>3, <2>2
    <3>2. AllTold(p)[i] = x[i - b]
      BY <1>11, <1>12, <1>13, <3>1
    <3>3. x = [j \in 1..(n - b) |-> Told(k + 1, s[b + j].event)]
      BY <1>4, <1>5, <1>6, <1>7 DEF ToldOf
    <3>4. x[i - b] = Told(k + 1, s[i].event)
      BY <3>1, <3>3
    <3>5. ReadIn(f, i, k + 1) /\ k + 1 \in Nat
      BY <1>1, <3>1
    <3> QED BY <1>5, <3>2, <3>4, <3>5
  <2> QED BY <1>1, <1>3, <2>1, <2>2
<1> QED BY <1>1, <1>5, <1>11, <1>12, <1>13, <1>14 DEF Tells

(* A sequence that is not empty, without its first or its last element.    *)
LEMMA FirstAndLast ==
    ASSUME NEW s \in Seq(Byte), s # <<>>
    PROVE  /\ s = <<s[1]>> \o Tail(s) /\ Tail(s) \in Seq(Byte)
           /\ s = Front(s) \o <<Last(s)>> /\ Front(s) \in Seq(Byte)
<1>1. PICK n \in Nat : n = Len(s) /\ 1 \in 1..n /\ n \in 1..n
  <2>1. Len(s) \in Nat \ {0}
    BY EmptySeq
  <2> QED BY <2>1
<1>2. SubSeq(s, 1, n) = s
  BY <1>1, SubSeqFull
<1>3. SubSeq(s, 1, n) = <<s[1]>> \o SubSeq(s, 1 + 1, n)
  BY <1>1, SubSeqRecursiveFirst
<1>4. Tail(s) = SubSeq(s, 2, n) /\ Tail(s) \in Seq(Byte)
  BY <1>1, TailIsSubSeq, HeadTailProperties
<1>5. SubSeq(s, 1, n) = SubSeq(s, 1, n - 1) \o <<s[n]>>
  BY <1>1, SubSeqRecursiveSecond
<1>6. Front(s) = SubSeq(s, 1, n - 1) /\ Last(s) = s[n]
  BY <1>1 DEF Front, Last
<1>7. Front(s) \in Seq(Byte)
  <2>1. \A i \in 1..(n - 1) : s[i] \in Byte
    BY <1>1, ElementOfSeq
  <2>2. 1 \in Int /\ n - 1 \in Int
    OBVIOUS
  <2> QED BY <1>6, <2>1, <2>2, SubSeqProperties
<1>8. 1 + 1 = 2
  OBVIOUS
<1> QED BY <1>2, <1>3, <1>4, <1>5, <1>6, <1>7, <1>8

(* Bytes put together in either order.                                     *)
LEMMA Regrouped ==
    \A x, y, z \in Seq(Byte) : (x \o y) \o z = x \o (y \o z)
BY ConcatAssociative, SMTT(60)

(* Without one opening and one closing status byte, the bytes of a SysEx   *)
(* event are its message.                                                  *)
LEMMA Normalized ==
    ASSUME NEW raw \in Seq(Byte)
    PROVE  IsMessage(raw, NormalizeSysEx(raw))
<1> DEFINE Opens(opening, opened) ==
               /\ opening \in {<<>>, <<240>>} /\ opening \in Seq(Byte) /\ opened \in Seq(Byte)
               /\ raw = opening \o opened
               /\ opening = <<>> => raw = <<>> \/ raw[1] # 240
           Ends(opened, data, closing) ==
               /\ closing \in {<<>>, <<247>>} /\ closing \in Seq(Byte) /\ data \in Seq(Byte)
               /\ opened = data \o closing
               /\ closing = <<>> => data = <<>> \/ Last(data) # 247
<1>1. <<>> \in Seq(Byte) /\ <<240>> \in Seq(Byte) /\ <<247>> \in Seq(Byte)
  <2>1. 240 \in Byte /\ 247 \in Byte
    BY DEF Byte
  <2> HIDE DEF Byte
  <2> QED BY <2>1, EmptySeq
<1>2. PICK opened : opened = IF raw # <<>> /\ raw[1] = 240 THEN Tail(raw) ELSE raw
  OBVIOUS
<1>3. \E opening : Opens(opening, opened)
  <2>1. CASE raw # <<>> /\ raw[1] = 240
    <3>1. raw = <<240>> \o opened /\ opened \in Seq(Byte) /\ <<240>> # <<>>
      BY <1>2, <2>1, FirstAndLast
    <3> QED BY <1>1, <3>1
  <2>2. CASE ~(raw # <<>> /\ raw[1] = 240)
    <3>1. raw = <<>> \o opened /\ opened \in Seq(Byte)
      BY <1>2, <2>2, ConcatEmptySeq
    <3> QED BY <1>1, <2>2, <3>1
  <2> QED BY <2>1, <2>2
<1>4. opened \in Seq(Byte)
  BY <1>3
<1>5. PICK data : data = IF opened # <<>> /\ Last(opened) = 247 THEN Front(opened) ELSE opened
  OBVIOUS
<1>6. \E closing : Ends(opened, data, closing)
  <2>1. CASE opened # <<>> /\ Last(opened) = 247
    <3>1. opened = Front(opened) \o <<Last(opened)>> /\ Front(opened) \in Seq(Byte)
      BY <1>4, <2>1, FirstAndLast
    <3>2. opened = data \o <<247>> /\ data \in Seq(Byte) /\ <<247>> # <<>>
      BY <1>5, <2>1, <3>1
    <3> QED BY <1>1, <3>2
  <2>2. CASE ~(opened # <<>> /\ Last(opened) = 247)
    <3>1. opened = data \o <<>> /\ data = opened /\ data \in Seq(Byte)
      BY <1>4, <1>5, <2>2, ConcatEmptySeq
    <3> QED BY <1>1, <2>2, <3>1
  <2> QED BY <2>1, <2>2
<1>7. NormalizeSysEx(raw) = data
  BY <1>2, <1>5 DEF NormalizeSysEx
<1> HIDE DEF Opens, Ends
<1>11. PICK opening : Opens(opening, opened)
  BY <1>3
<1>12. PICK closing : Ends(opened, data, closing)
  BY <1>6
<1>9. raw = (opening \o data) \o closing
  <2>1. opening \in Seq(Byte) /\ data \in Seq(Byte) /\ closing \in Seq(Byte)
    BY <1>11, <1>12 DEF Opens, Ends
  <2>2. raw = opening \o opened /\ opened = data \o closing
    BY <1>11, <1>12 DEF Opens, Ends
  <2>3. (opening \o data) \o closing = opening \o (data \o closing)
    BY <2>1, Regrouped
  <2> QED BY <2>2, <2>3
<1>10. /\ opening \in {<<>>, <<240>>} /\ closing \in {<<>>, <<247>>}
       /\ opening = <<>> => raw = <<>> \/ raw[1] # 240
       /\ closing = <<>> => data = <<>> \/ Last(data) # 247
  BY <1>11, <1>12 DEF Opens, Ends
<1>13. IsMessage(raw, data)
  <2> DEFINE Fits(a, b) == /\ raw = a \o data \o b
                           /\ a = <<>> => raw = <<>> \/ raw[1] # 240
                           /\ b = <<>> => data = <<>> \/ Last(data) # 247
  <2>1. Fits(opening, closing)
    BY <1>9, <1>10
  <2>2. PICK A, B : A = {<<>>, <<240>>} /\ B = {<<>>, <<247>>}
    OBVIOUS
  <2>3. opening \in A /\ closing \in B
    BY <1>10, <2>2
  <2>4. IsMessage(raw, data) <=> \E a \in A, b \in B : Fits(a, b)
    BY <2>2 DEF IsMessage
  <2> HIDE DEF Fits
  <2>5. \E a \in A, b \in B : Fits(a, b)
    BY <2>1, <2>3
  <2> QED BY <2>4, <2>5
<1> QED BY <1>7, <1>13

(* Each event the score decoder heard is in the track it was read in. *)
HeardIn(f, s) == \A i \in 1..Len(s.events) : ReadIn(f, i, s.events[i].track)

TellInv ==
    /\ Tells(file, owned, Closed)
    /\ \A i \in (Closed + 1)..Len(owned.events) : ReadIn(file, i, track)
    /\ HeardIn(file, scored)

(* As many events are seen as are kept.                                    *)
LEMMA MappedLength ==
    ASSUME NEW S, NEW s \in Seq(S), NEW T, NEW z \in Seq(T), z = [i \in DOMAIN s |-> s[i].event]
    PROVE  Len(z) = Len(s)
<1>1. PICK m, n \in Nat : m = Len(z) /\ n = Len(s)
  BY LenProperties
<1>2. DOMAIN z = 1..m /\ DOMAIN s = 1..n
  BY <1>1, LenProperties
<1>3. 1..m = 1..n
  BY <1>2
<1>4. m = n
  BY <1>3
<1> QED BY <1>1, <1>4

(* What is told does not depend on the header or the payloads.             *)
LEMMA SameTells ==
    ASSUME NEW f, NEW o, NEW p, NEW b, Tells(f, o, b), p.events = o.events, p.tracks = o.tracks
    PROVE  Tells(f, p, b)
<1>1. AllTold(p) = AllTold(o)
  BY DEF AllTold, ToldOf
<1> QED BY <1>1 DEF Tells

(* While parse_smf goes on, each record is told in its track.              *)
LEMMA OwnedTells ==
    ASSUME IInv, Next, StoreInv, TellInv, turn = "owned", turn' = turn, owned' \in OwnedFiles
    PROVE  /\ Tells(file', owned', Closed')
           /\ \A i \in (Closed' + 1)..Len(owned'.events) : ReadIn(file', i, track')
<1>1. owned \in OwnedFiles /\ file' = file
  BY SameFile DEF IInv, Typed
<1>2. PICK f, o, p, b, c : /\ f = file /\ o = owned /\ p = owned' /\ b = Closed /\ c = Closed'
                           /\ o \in OwnedFiles /\ p \in OwnedFiles /\ Shelved(o, b) /\ Tells(f, o, b)
  BY <1>1 DEF StoreInv, TellInv
<1>3. \A i \in (b + 1)..Len(o.events) : ReadIn(f, i, track)
  BY <1>2 DEF TellInv
<1>4. Len(p.events) \in Nat /\ Len(o.events) \in Nat
  BY <1>2, OwnedParts
<1>5. SUFFICES Tells(f, p, c) /\ \A i \in (c + 1)..Len(p.events) : ReadIn(f, i, track')
  BY <1>1, <1>2
<1>6. ASSUME c = Len(p.events)
      PROVE  \A i \in (c + 1)..Len(p.events) : ReadIn(f, i, track')
  BY <1>4, <1>6
<1>7. CASE OwnedReads
  <2>1. c = b /\ c = Len(p.events) /\ p.events = o.events /\ p.tracks = o.tracks
    BY <1>2, <1>7 DEF Closed, OwnedReads
  <2>2. Tells(f, p, c)
    BY <1>2, <2>1, SameTells
  <2> QED BY <1>6, <2>1, <2>2
<1>8. CASE OwnedOpens
  <2>1. c = b /\ p = o /\ c = Len(p.events)
    BY <1>2, <1>8 DEF Closed, OwnedOpens
  <2> QED BY <1>2, <1>6, <2>1
<1>9. CASE OwnedPushes
  <2>1. stage = "events" /\ track' = track /\ c = b
    BY <1>2, <1>9 DEF Closed, OwnedPushes
  <2>2. PICK e \in Events : Pushes(o, p, e)
    BY <1>2, <1>9 DEF OwnedPushes
  <2>3. Tells(f, p, b)
    BY <1>2, <2>2, PushTells
  <2>4. PICK s, q, z : /\ s = o.events /\ q = p.events /\ q = Append(s, z)
                       /\ s \in Seq(Records) /\ q \in Seq(Records)
    BY <1>2, <2>2, OwnedParts DEF Pushes
  <2>5. PICK m \in Nat : m = Len(s) /\ Len(q) = m + 1
    BY <2>4, LenProperties
  <2>6. ReadIn(f, m + 1, track)
    <3>1. PICK n \in Nat : Stands(Walk(file)[n], Walk(file)[n + 1]) /\ Moved(Walk(file)[n + 1])
      BY GoesOn
    <3>2. PICK w, x : /\ w = Walk(f)[n] /\ x = Walk(f)[n + 1] /\ Stands(w, x) /\ Moved(x)
                      /\ w \in Positions(f) /\ x \in Positions(f)
      BY <1>2, <3>1 DEF Stands
    <3>3. w.stage = "events" /\ w.track = track /\ StoredEvents = w.events /\ StoredEvents' = x.events
      BY <2>1, <3>2 DEF Stands, Moved, Placed, Built, Stored
    <3>4. w.events \in Seq(FileEvents(f)) /\ x.events \in Seq(FileEvents(f))
      BY <3>2, PositionFields
    <3>5. Len(w.events) = m
      <4>1. w.events = [i \in DOMAIN s |-> s[i].event]
        BY <1>2, <2>4, <3>3 DEF StoredEvents
      <4> QED BY <2>4, <2>5, <3>4, <4>1, MappedLength
    <3>6. Len(x.events) = m + 1
      <4>1. x.events = [i \in DOMAIN q |-> q[i].event]
        BY <1>2, <2>4, <3>3 DEF StoredEvents
      <4> QED BY <2>4, <2>5, <3>4, <4>1, MappedLength
    <3> QED BY <3>2, <3>3, <3>5, <3>6 DEF ReadIn
  <2>7. ASSUME NEW i \in (b + 1)..Len(p.events)
        PROVE  ReadIn(f, i, track')
    <3>1. CASE i = m + 1
      BY <2>1, <2>6, <3>1
    <3>2. CASE i # m + 1
      <4>1. b \in 0..m
        BY <1>2, <2>4, <2>5 DEF Shelved
      <4>2. i \in (b + 1)..m
        BY <2>4, <2>5, <3>2, <4>1
      <4> QED BY <1>3, <2>1, <2>4, <2>5, <4>2
    <3> QED BY <3>1, <3>2
  <2> QED BY <2>1, <2>3, <2>7
<1>10. CASE OwnedCloses
  <2>1. b = start /\ c = Len(p.events) /\ Closes(o, p, b)
    BY <1>2, <1>10 DEF Closed, OwnedCloses
  <2>2. Len(o.tracks) + 1 = track
    <3>1. Len(o.tracks) = track - 1
      BY <1>2 DEF IInv, Follow, OwnedFollows
    <3>2. track \in Nat
      <4>1. PICK w \in Positions(file) : track = w.track
        BY SomewherePlaced DEF Placed
      <4> QED BY <4>1, PositionFields
    <3> QED BY <3>1, <3>2
  <2>3. Tells(f, p, Len(p.events))
    BY <1>2, <1>3, <2>1, <2>2, CloseTells
  <2> QED BY <1>6, <2>1, <2>3
<1> QED BY <1>7, <1>8, <1>9, <1>10, OwnedSteps

(* The score decoder writes its own track next to each event.              *)
LEMMA ScoreHears ==
    ASSUME IInv, Next, HeardIn(file, scored)
    PROVE  HeardIn(file', scored')
<1>1. PICK f, s, z : f = file /\ s = scored /\ z = scored' /\ file' = f /\ HeardIn(f, s)
  BY SameFile
<1>2. SUFFICES HeardIn(f, z)
  BY <1>1
<1>3. z.events = s.events => HeardIn(f, z)
  BY <1>1 DEF HeardIn
<1>4. s \in ScoredFiles /\ z \in ScoredFiles
  BY <1>1, NextIInv DEF IInv, Typed
<1>5. CASE turn' # turn
  <2>1. PICK n \in Nat :
           \/ Moved(Walk(file)[n + 1])
           \/ Stops(Walk(file)[n], Walk(file)[n + 1])
           \/ StopsBadly(Walk(file)[n], Walk(file)[n + 1])
           \/ StopsLarge(Walk(file)[n + 1])
           \/ EndOfFile
    BY StepOnWalk
  <2>2. PICK w, x : w = Walk(file)[n] /\ x = Walk(file)[n + 1]
    OBVIOUS
  <2>3. ~Moved(x)
    BY <1>5 DEF Moved
  <2>4. CASE Stops(w, x) \/ StopsBadly(w, x) \/ StopsLarge(x)
    BY <1>1, <1>3, <2>4 DEF Stops, StopsBadly, StopsLarge, results
  <2>5. CASE EndOfFile
    BY <1>1, <1>3, <1>4, <2>5 DEF EndOfFile, ConsumedBy, ScoredFiles
  <2> QED BY <2>1, <2>2, <2>3, <2>4, <2>5
<1>6. CASE turn' = turn
  <2>1. PICK n \in Nat : Stands(Walk(file)[n], Walk(file)[n + 1]) /\ Moved(Walk(file)[n + 1])
    BY <1>6, GoesOn
  <2>2. PICK w, x : /\ w = Walk(f)[n] /\ x = Walk(f)[n + 1] /\ Stands(w, x) /\ Moved(x)
                    /\ w \in Positions(f) /\ x \in Positions(f)
    BY <1>1, <2>1 DEF Stands
  <2>3. CASE turn # "score"
    BY <1>1, <1>3, <2>2, <2>3 DEF Moved
  <2>4. CASE turn = "score"
    <3>1. turn \in Decoders
      BY <2>4 DEF Decoders
    <3>2. (\A r : ~Refuse(r)) /\ ~EndOfFile
      BY <1>6, <3>1, NoAnswer
    <3>3. CASE ReadHeader
      <4>1. PICK h : KeepHeader(h)
        BY <3>2, <3>3 DEF ReadHeader
      <4>2. scored' = [scored EXCEPT !.header = h]
        BY <2>4, <4>1 DEF KeepHeader
      <4> QED BY <1>1, <1>3, <1>4, <4>2 DEF ScoredFiles
    <3>4. CASE OpenChunk
      BY <1>1, <1>3, <3>2, <3>4 DEF OpenChunk, results
    <3>5. CASE CloseChunk
      BY <1>1, <1>3, <3>2, <3>5 DEF CloseChunk, NextTrack
    <3>6. CASE Decode
      <4>1. PICK e : stage = "events" /\ Hears(e)
        <5>1. PICK r : stage = "events" /\ Accept(r.value.event, r)
          BY <1>6, <3>6, DecodeAccepts
        <5> QED BY <2>4, <5>1 DEF Accept, Counts, Shelves
      <4>2. stage = "events"
        BY <4>1
      <4>3. PICK y : y.track = track /\ z.events = Append(s.events, y)
        <5>1. PICK length, y : /\ y = [event |-> e, track |-> track, time |-> time']
                               /\ scored' = [scored EXCEPT !.events = Append(@, y), !.text = @ + length]
          BY <4>1 DEF Hears
        <5> QED BY <1>1, <1>4, <5>1 DEF ScoredFiles
      <4>4. PICK a, b : /\ a = s.events /\ b = z.events /\ b = Append(a, y)
                        /\ a \in Seq(ScoreEvents) /\ b \in Seq(ScoreEvents)
        BY <1>4, <4>3 DEF ScoredFiles
      <4>5. PICK m \in Nat : m = Len(a) /\ Len(b) = m + 1 /\ b[m + 1] = y /\ \A i \in 1..m : b[i] = a[i]
        BY <4>4, LenProperties
      <4>6. w.stage = "events" /\ w.track = track /\ HeardEvents = w.events /\ HeardEvents' = x.events
        BY <2>2, <2>4, <4>2 DEF Stands, Moved, Placed, Built, Heard
      <4>7. w.events \in Seq(FileEvents(f)) /\ x.events \in Seq(FileEvents(f))
        BY <2>2, PositionFields
      <4>8. Len(w.events) = m
        <5>1. w.events = [i \in DOMAIN a |-> a[i].event]
          BY <1>1, <4>4, <4>6 DEF HeardEvents
        <5> QED BY <4>4, <4>5, <4>7, <5>1, MappedLength
      <4>9. Len(x.events) = m + 1
        <5>1. x.events = [i \in DOMAIN b |-> b[i].event]
          BY <1>1, <4>4, <4>6 DEF HeardEvents
        <5> QED BY <4>4, <4>5, <4>7, <5>1, MappedLength
      <4>10. ReadIn(f, m + 1, track)
        BY <2>2, <4>6, <4>8, <4>9 DEF ReadIn
      <4>11. ASSUME NEW i \in 1..Len(z.events)
             PROVE  ReadIn(f, i, z.events[i].track)
        <5>1. CASE i = m + 1
          BY <4>3, <4>4, <4>5, <4>10, <5>1
        <5>2. CASE i # m + 1
          <6>1. i \in 1..m
            BY <4>4, <4>5, <5>2
          <6> QED BY <1>1, <4>4, <4>5, <6>1 DEF HeardIn
        <5> QED BY <5>1, <5>2
      <4> QED BY <4>11 DEF HeardIn
    <3> QED BY <3>2, <3>3, <3>4, <3>5, <3>6 DEF Next
  <2> QED BY <2>3, <2>4
<1> QED BY <1>5, <1>6

(* Of no file nothing is told.                                             *)
LEMMA NothingTold ==
    ASSUME NEW f
    PROVE  Tells(f, EmptyOwned, 0) /\ Len(EmptyOwned.events) = 0
<1>1. EmptyOwned.events = <<>> /\ EmptyOwned.tracks = <<>>
  BY EmptyResults
<1>2. Len(<<>>) = 0 /\ DOMAIN <<>> = {}
  BY EmptySeq
<1>3. [t \in DOMAIN EmptyOwned.tracks |-> ToldOf(t, EmptyOwned)] = <<>>
  BY <1>1, <1>2
<1>4. FlattenSeq(<<>>) = <<>>
  <2>1. <<>> \in Seq(Seq(AnyTold))
    BY EmptySeq
  <2> QED BY <2>1, FlattenProperties
<1>5. AllTold(EmptyOwned) = <<>>
  BY <1>3, <1>4 DEF AllTold
<1> QED BY <1>1, <1>2, <1>5 DEF Tells

(* Every step keeps what is told and heard in its track.                   *)
LEMMA TellKept ==
    ASSUME IInv, Next, StoreInv, TellInv
    PROVE  TellInv'
<1>1. HeardIn(file, scored)'
  BY ScoreHears DEF TellInv
<1>2. owned \in OwnedFiles /\ owned' \in OwnedFiles /\ file' = file
  BY NextIInv, SameFile DEF IInv, Typed
<1>3. CASE turn = "owned" /\ turn' = turn
  BY <1>1, <1>2, <1>3, OwnedTells DEF TellInv
<1>4. CASE Dropped
  <2>1. PICK f, o : f = file /\ f = file' /\ o = owned' /\ Closed' = 0 /\ o = EmptyOwned
    BY <1>2, <1>4 DEF Dropped
  <2>2. Tells(f, o, 0) /\ Len(o.events) = 0
    BY <2>1, NothingTold
  <2> QED BY <1>1, <2>1, <2>2 DEF TellInv
<1>5. CASE owned' = owned /\ Closed = Len(owned.events) /\ Closed' = Len(owned.events)
  <2>1. PICK f, o, b : /\ f = file /\ f = file' /\ o = owned /\ o = owned' /\ b = Len(o.events)
                       /\ Closed = b /\ Closed' = b /\ b \in Nat
    BY <1>2, <1>5, OwnedParts
  <2>2. Tells(f, o, b)
    BY <2>1 DEF TellInv
  <2>3. \A i \in (b + 1)..Len(o.events) : ReadIn(f, i, track')
    BY <2>1
  <2> QED BY <1>1, <2>1, <2>2, <2>3 DEF TellInv
<1> QED BY <1>3, <1>4, <1>5, OwnedRests

(* Before there is an event.                                               *)
LEMMA TellBegins == Init => TellInv
<1> SUFFICES ASSUME Init
             PROVE  TellInv
  OBVIOUS
<1>1. EmptyScored.events = <<>> /\ Len(<<>>) = 0
  BY EmptyResults, EmptySeq
<1>2. owned = EmptyOwned /\ scored = EmptyScored /\ stage = "header"
  BY DEF Init
<1>3. Tells(file, owned, 0) /\ Len(owned.events) = 0
  BY <1>2, NothingTold
<1>4. Closed = 0 /\ Len(scored.events) = 0
  BY <1>1, <1>2, <1>3 DEF Closed
<1> QED BY <1>3, <1>4 DEF TellInv, HeardIn

(* The tuples of the binding are what is told of the records.              *)
LEMMA RecordsAreTold ==
    ASSUME IInv, StoreInv
    PROVE  SemanticRecords = AllTold(owned)
<1>1. Shelved(owned, Closed) /\ owned \in OwnedFiles
  BY DEF StoreInv, IInv, Typed
<1>2. PICK o, b : o = owned /\ b = Closed /\ o \in OwnedFiles /\ Shelved(o, b)
  BY <1>1
<1>3. PICK n, k \in Nat : /\ n = Len(o.events) /\ k = Len(o.tracks) /\ DOMAIN o.tracks = 1..k
                          /\ \A t \in 1..k : o.tracks[t].start \in Nat /\ o.tracks[t].len \in Nat
  BY <1>2, OwnedParts
<1>4. ASSUME NEW t \in 1..k, NEW i \in 1..o.tracks[t].len
      PROVE  SemanticRecord(t, o.events[o.tracks[t].start + i]) =
             Told(t, o.events[o.tracks[t].start + i].event)
  <2>1. PICK a, l \in Nat : a = o.tracks[t].start /\ l = o.tracks[t].len
    BY <1>3
  <2>2. PICK c \in Nat : c = a + l /\ c <= n
    <3>1. b \in 0..n /\ a + l <= b
      BY <1>2, <1>3, <2>1 DEF Shelved
    <3> QED BY <2>1, <3>1
  <2>3. i \in 1..l
    BY <2>1
  <2>4. a + i \in 1..n
    BY <2>2, <2>3
  <2>5. PICK r : r = o.events[a + i]
    OBVIOUS
  <2>6. Stores(owned, r)
    BY <1>2, <1>3, <2>4, <2>5 DEF Shelved
  <2>7. EventData(r) = r.event.data
    BY <2>6 DEF Stores, EventData
  <2>8. SemanticRecord(t, r) = Told(t, r.event)
    BY <2>7 DEF SemanticRecord, Told
  <2> QED BY <2>1, <2>5, <2>8
<1>5. ASSUME NEW t \in 1..k
      PROVE  [i \in 1..o.tracks[t].len |-> SemanticRecord(t, o.events[o.tracks[t].start + i])] = ToldOf(t, o)
  BY <1>4 DEF ToldOf
<1>6. [t \in DOMAIN o.tracks |->
          [i \in 1..o.tracks[t].len |-> SemanticRecord(t, o.events[o.tracks[t].start + i])]] =
      [t \in DOMAIN o.tracks |-> ToldOf(t, o)]
  BY <1>3, <1>5
<1> QED BY <1>2, <1>6 DEF SemanticRecords, AllTold

(* What a caller sees of an event that the score decoder heard. *)
Matches(heard, seen) ==
    LET raw == SubSeq(file, heard.event.to - Len(heard.event.data) + 1, heard.event.to)
    IN  /\ seen.track + 1 = heard.track
        /\ <<seen.delta, seen.type>> = <<heard.event.delta, heard.event.type>>
        /\ IF IsSysEx(heard.event.status)
           THEN seen.status = 240 /\ IsMessage(raw, seen.data)
           ELSE seen.status = heard.event.status /\ seen.data = heard.event.data

(* A caller is told what the score decoder heard.                          *)
LEMMA MatchFollows == IInv /\ StoreInv /\ TellInv => SemanticRecordsMatch
<1> SUFFICES ASSUME IInv, StoreInv, TellInv, answer["owned"] = Ok, answer["score"] = Ok
             PROVE  /\ Len(SemanticRecords) = Len(scored.events)
                    /\ \A i \in DOMAIN SemanticRecords :
                          Matches(scored.events[i], SemanticRecords[i])
  BY DEF SemanticRecordsMatch, Matches
<1>1. owned \in OwnedFiles /\ scored \in ScoredFiles /\ file \in Seq(Byte) /\ Typed
  BY DEF IInv, Typed
<1>2. turn = "done"
  <2>1. answer["score"] # Pending
    BY AnswersDiffer
  <2> QED BY <1>1, <2>1 DEF IInv, Follow, ScoreFollows, Typed, Decoders
<1>3. HeardEvents = StoredEvents
  <2>1. ScoreAccepts(HeardEvents, StoredEvents)
    BY AgreeFollows, AnswersDiffer DEF DecodersAgree, HeardEvents, StoredEvents
  <2> QED BY <2>1 DEF ScoreAccepts
<1>4. PICK s, h, n : /\ s = owned.events /\ s \in Seq(Records) /\ h = scored.events /\ h \in Seq(ScoreEvents)
                     /\ n = Len(s) /\ n \in Nat /\ DOMAIN s = 1..n
  BY <1>1, OwnedParts, LenProperties DEF ScoredFiles
<1>5. DOMAIN h = 1..n /\ Len(h) = n /\ \A i \in 1..n : h[i].event = s[i].event
  <2>1. [i \in DOMAIN h |-> h[i].event] = [i \in DOMAIN s |-> s[i].event]
    BY <1>3, <1>4 DEF HeardEvents, StoredEvents
  <2>2. DOMAIN h = DOMAIN s /\ \A i \in DOMAIN s : h[i].event = s[i].event
    BY <2>1
  <2>3. DOMAIN h = 1..Len(h) /\ Len(h) \in Nat
    BY <1>4, LenProperties
  <2>4. PICK m \in Nat : m = Len(h) /\ 1..m = 1..n
    BY <1>4, <2>2, <2>3
  <2>5. m = n
    BY <1>4, <2>4
  <2> QED BY <1>4, <2>2, <2>4, <2>5
<1>6. PICK z : z = SemanticRecords /\ z = AllTold(owned)
  BY RecordsAreTold
<1>7. Len(z) = n /\ \A i \in 1..n : \E t \in Nat : ReadIn(file, i, t) /\ z[i] = Told(t, s[i].event)
  <2>1. Closed = n
    BY <1>2, <1>4 DEF Closed
  <2> QED BY <1>4, <1>6, <2>1 DEF TellInv, Tells
<1>8. DOMAIN z = 1..n
  <2>1. z \in Seq(AnyTold)
    <3>1. ASSUME NEW t \in 1..Len(owned.tracks)
          PROVE  owned.tracks[t].start + owned.tracks[t].len <= Len(owned.events)
      <4>1. PICK a, l \in Nat : a = owned.tracks[t].start /\ l = owned.tracks[t].len
        BY <1>1, OwnedParts
      <4>2. Closed = n
        BY <1>2, <1>4 DEF Closed
      <4>3. a + l <= n
        BY <4>1, <4>2 DEF StoreInv, Shelved
      <4> QED BY <1>4, <4>1, <4>3
    <3> QED BY <1>1, <1>6, <3>1, AllToldType, FlattenProperties DEF AllTold
  <2> QED BY <1>7, <2>1, LenProperties
<1>9. ASSUME NEW i \in 1..n
      PROVE  Matches(h[i], z[i])
  <2>1. PICK t \in Nat : ReadIn(file, i, t) /\ z[i] = Told(t, s[i].event)
    BY <1>7
  <2>2. PICK e : e = s[i].event /\ e = h[i].event /\ e \in FileEvents(file)
    BY <1>4, <1>5, StoredInFile
  <2>3. h[i].track = t
    <3>1. ReadIn(file, i, h[i].track)
      BY <1>4, <1>5 DEF TellInv, HeardIn
    <3>2. i \in Nat
      OBVIOUS
    <3> QED BY <1>1, <2>1, <3>1, <3>2, OneTrack
  <2>4. PICK y : y = z[i] /\ y = Told(t, e)
    BY <2>1, <2>2
  <2>5. y.track + 1 = t /\ y.delta = e.delta /\ y.type = e.type
    BY <2>4 DEF Told
  <2>6. CASE ~IsSysEx(e.status)
    <3>1. y.status = e.status /\ y.data = e.data
      BY <2>4, <2>6 DEF Told
    <3> QED BY <2>2, <2>3, <2>4, <2>5, <2>6, <3>1 DEF Matches
  <2>7. CASE IsSysEx(e.status)
    <3>1. y.status = 240 /\ y.data = NormalizeSysEx(e.data)
      BY <2>4, <2>7 DEF Told
    <3>2. e.data = SubSeq(file, e.at + 1, e.at + Len(e.data)) /\ e.at + Len(e.data) = e.to
      <4>1. ~IsChannel(e.status)
        BY <2>7 DEF IsSysEx, IsChannel
      <4> QED BY <2>2, <4>1 DEF FileEvents
    <3>3. e.data \in Seq(Byte) /\ e.at \in Nat /\ e.to \in Nat /\ Len(e.data) \in Nat
      <4>1. e.data \in Seq(Byte) /\ e.at \in Nat /\ e.to \in Nat
        BY <2>2 DEF FileEvents, Events
      <4> QED BY <4>1, LenProperties
    <3>4. e.to - Len(e.data) = e.at
      <4>1. PICK a, l, c \in Nat : a = e.at /\ l = Len(e.data) /\ c = e.to
        BY <3>3
      <4>2. a + l = c
        BY <3>2, <4>1
      <4>3. c - l = a
        BY <4>2
      <4> QED BY <4>1, <4>3
    <3>5. SubSeq(file, e.to - Len(e.data) + 1, e.to) = e.data
      BY <3>2, <3>4
    <3>6. IsMessage(e.data, NormalizeSysEx(e.data))
      BY <3>3, Normalized
    <3>7. IsMessage(SubSeq(file, e.to - Len(e.data) + 1, e.to), y.data)
      BY <3>1, <3>5, <3>6
    <3> QED BY <2>2, <2>3, <2>4, <2>5, <2>7, <3>1, <3>7 DEF Matches
  <2> QED BY <2>6, <2>7
<1>10. Len(z) = Len(h) /\ \A i \in DOMAIN z : Matches(h[i], z[i])
  BY <1>5, <1>7, <1>8, <1>9
<1> QED BY <1>4, <1>6, <1>10

(* A Python caller reads the events the score parser reads, each in its    *)
(* track and with the bytes of the file, whenever parse_smf and the score  *)
(* parser both accept it: either may refuse for its size what the other    *)
(* accepts (semantic_records, normalize_sysex).                            *)
THEOREM CallerReadsEvents == Spec => []SemanticRecordsMatch
<1>1. IInv /\ StoreInv /\ TellInv /\ [Next]_vars => TellInv'
  <2>1. ASSUME TellInv, UNCHANGED vars
        PROVE  TellInv'
    BY <2>1 DEF TellInv, Tells, AllTold, ToldOf, Hears, Closed, vars, reader, chunk, results
  <2> QED BY <2>1, TellKept
<1> QED BY <1>1, TellBegins, AlwaysIInv, AlwaysStored, MatchFollows, PTL DEF Spec

--------------------------------------------------------------------------------
(* The length of a chunk in its four bytes is the number they spell.       *)
LEMMA LengthSplit ==
    ASSUME NEW a \in Byte, NEW b \in Byte, NEW c \in Byte, NEW d \in Byte
    PROVE  LengthBytes(((a * 256 + b) * 256 + c) * 256 + d) = <<a, b, c, d>>
<1>1. PICK n \in Nat : n = ((a * 256 + b) * 256 + c) * 256 + d
  BY DEF Byte
<1>2. n % 256 = d
  BY <1>1 DEF Byte
<1>3. n \div 256 = (a * 256 + b) * 256 + c /\ (n \div 256) % 256 = c
  BY <1>1 DEF Byte
<1>4. n \div 65536 = a * 256 + b /\ (n \div 65536) % 256 = b
  BY <1>1 DEF Byte
<1>5. n \div 16777216 = a
  BY <1>1 DEF Byte
<1> QED BY <1>1, <1>2, <1>3, <1>4, <1>5 DEF LengthBytes

(* Four bytes are those of the number they spell.                          *)
LEMMA FourBytes ==
    ASSUME NEW s \in Seq(Byte), Len(s) = 4
    PROVE  LengthBytes(BigEndian(s)) = s
<1>1. /\ s \in Seq(Nat) /\ s = <<s[1], s[2], s[3], s[4]>>
      /\ s[1] \in Byte /\ s[2] \in Byte /\ s[3] \in Byte /\ s[4] \in Byte
  <2>1. Byte \subseteq Nat
    BY DEF Byte
  <2>2. s \in Seq(Nat)
    BY <2>1, SeqMonotonic
  <2>3. s \in [1..4 -> Byte]
    BY LenProperties
  <2> QED BY <2>2, <2>3
<1>2. PICK f : BigEndian(s) = f[4] /\ Spells(s, 256, f)
  <2>1. \E f : Spelled(s, 256) = f[Len(s)] /\ Spells(s, 256, f)
    <3>1. 256 \in Nat
      OBVIOUS
    <3> QED BY <1>1, <3>1, SpelledUnrolls
  <2> QED BY <2>1 DEF BigEndian
<1>3. \A n \in 0..4 : f[n] = IF n = 0 THEN 0 ELSE f[n - 1] * 256 + s[n]
  BY <1>2 DEF Spells
<1>4. /\ f[0] = 0 /\ f[1] = f[0] * 256 + s[1] /\ f[2] = f[1] * 256 + s[2]
      /\ f[3] = f[2] * 256 + s[3] /\ f[4] = f[3] * 256 + s[4]
  BY <1>3
<1>5. PICK a, b, c, d \in Byte : a = s[1] /\ b = s[2] /\ c = s[3] /\ d = s[4]
  BY <1>1
<1>6. f[1] = a
  BY <1>4, <1>5 DEF Byte
<1>7. f[2] = a * 256 + b
  BY <1>4, <1>5, <1>6
<1>8. f[3] = (a * 256 + b) * 256 + c
  BY <1>4, <1>5, <1>7
<1>9. f[4] = ((a * 256 + b) * 256 + c) * 256 + d
  BY <1>4, <1>5, <1>8
<1>10. LengthBytes(((a * 256 + b) * 256 + c) * 256 + d) = <<a, b, c, d>>
  BY LengthSplit
<1>11. BigEndian(s) = ((a * 256 + b) * 256 + c) * 256 + d
  BY <1>2, <1>9
<1>12. LengthBytes(BigEndian(s)) = <<a, b, c, d>>
  BY <1>10, <1>11, Zenon
<1>13. s = <<a, b, c, d>>
  BY <1>1, <1>5, Zenon
<1> QED BY <1>12, <1>13, Zenon

(* What an integer of a header is.                                         *)
LEMMA IntegerValue ==
    ASSUME NEW c, IsCursor(c), NEW width \in Nat, ReadInteger(c, width).ok = TRUE
    PROVE  LET s == SubSeq(c.data, c.position + 1, c.position + width)
           IN  /\ ReadInteger(c, width).value = BigEndian(s)
               /\ s \in Seq(Byte) /\ Len(s) = width
<1> DEFINE b == Take(c, width)
           r == ReadInteger(c, width)
<1>1. /\ b.ok = TRUE \/ b.ok = FALSE
      /\ b.ok = TRUE => /\ b.value \in Seq(Byte) /\ Len(b.value) = width
                        /\ b.value = SubSeq(c.data, c.position + 1, c.position + width)
  BY TakeReads DEF ReadsOn
<1>2. r = IF b.ok THEN Read(BigEndian(b.value), b.cursor) ELSE b
  BY DEF ReadInteger, Then
<1> HIDE DEF b, r
<1>3. r.ok = TRUE
  BY DEF r
<1>4. b.ok = TRUE
  BY <1>1, <1>2, <1>3
<1>5. r = [ok |-> TRUE, value |-> BigEndian(b.value), cursor |-> b.cursor]
  BY <1>2, <1>4 DEF Read
<1>6. r.value = BigEndian(b.value)
  BY <1>5
<1> QED BY <1>1, <1>4, <1>6 DEF r

(* A chunk that is entered has its tag and the bytes of its length before  *)
(* it.                                                                     *)
LEMMA ChunkHead ==
    ASSUME NEW c, IsCursor(c), SizedBody(CheckedTag(c)).ok = TRUE
    PROVE  /\ SubSeq(c.data, c.position + 1, c.position + 4) = Mtrk
           /\ SubSeq(c.data, c.position + 5, c.position + 8) =
                 LengthBytes(Len(SizedBody(CheckedTag(c)).value.data))
<1> DEFINE tag == CheckedTag(c)
           size == ReadU32(tag.cursor)
           body == TakeCursor(size.cursor, size.value)
           r == SizedBody(tag)
<1>1. /\ ReadsOn(tag, c)
      /\ tag.ok = TRUE => tag = Take(c, 4) /\ tag.cursor.position = c.position + 4
  BY ExpectReads DEF CheckedTag
<1>2. r = IF tag.ok THEN (IF size.ok THEN body ELSE size) ELSE tag
  BY DEF SizedBody, Then
<1>3. tag.ok = TRUE => tag.value = Mtrk
  <2>1. PICK b : b = Take(c, 4)
    OBVIOUS
  <2>2. tag = IF b.ok THEN (IF b.value = Mtrk THEN b ELSE Error("ExpectedChunk", AbsoluteOffset(c))) ELSE b
    BY <2>1 DEF CheckedTag, Expect, Then, ReadTag
  <2>3. Error("ExpectedChunk", AbsoluteOffset(c)).ok = FALSE
    BY DEF Error
  <2> HIDE DEF tag
  <2> QED BY <2>2, <2>3
<1> HIDE DEF tag
<1>4. r.ok = TRUE
  BY DEF tag
<1>5. tag.ok = TRUE /\ tag.value = Mtrk
  <2>1. tag.ok = FALSE => r = tag
    BY <1>2
  <2> HIDE DEF r
  <2>2. tag.ok # FALSE
    BY <1>4, <2>1
  <2> QED BY <1>1, <1>3, <2>2 DEF ReadsOn
<1>6. Onward(c, tag.cursor) /\ IsCursor(tag.cursor) /\ c.position \in Nat /\ tag.cursor.data = c.data
  BY <1>1, <1>5 DEF ReadsOn, Onward, IsCursor
<1>7. ReadsOn(size, tag.cursor) /\ (size.ok = TRUE => size.value \in Nat)
  BY <1>6, IntegerReads DEF ReadU32
<1>8. size.ok = TRUE
  <2> HIDE DEF size
  <2>1. size.ok = FALSE => r = size
    BY <1>2, <1>5
  <2> HIDE DEF r
  <2>2. size.ok # FALSE
    BY <1>4, <2>1
  <2> QED BY <1>7, <2>2 DEF ReadsOn
<1>9. /\ size.value = BigEndian(SubSeq(c.data, c.position + 5, c.position + 8))
      /\ SubSeq(c.data, c.position + 5, c.position + 8) \in Seq(Byte)
      /\ Len(SubSeq(c.data, c.position + 5, c.position + 8)) = 4
  <2>1. PICK d : d = tag.cursor /\ IsCursor(d) /\ d.data = c.data /\ d.position = c.position + 4
    BY <1>1, <1>5, <1>6
  <2>2. ReadInteger(d, 4).ok = TRUE
    BY <1>8, <2>1 DEF ReadU32
  <2>3. /\ ReadInteger(d, 4).value = BigEndian(SubSeq(d.data, d.position + 1, d.position + 4))
        /\ SubSeq(d.data, d.position + 1, d.position + 4) \in Seq(Byte)
        /\ Len(SubSeq(d.data, d.position + 1, d.position + 4)) = 4
    BY <2>1, <2>2, IntegerValue
  <2>4. d.position + 1 = c.position + 5 /\ d.position + 4 = c.position + 8
    BY <1>6, <2>1
  <2> QED BY <2>1, <2>3, <2>4 DEF ReadU32
<1>10. Len(r.value.data) = size.value
  <2>1. PICK d, n : d = size.cursor /\ n = size.value /\ n \in Nat /\ IsCursor(d)
    BY <1>7, <1>8 DEF ReadsOn, Onward
  <2>2. TakeCursor(d, n).ok = TRUE => Len(TakeCursor(d, n).value.data) = n
    BY <2>1, TakeCursorReads
  <2>3. PICK b : b = TakeCursor(d, n) /\ (b.ok = TRUE => Len(b.value.data) = n)
    BY <2>2
  <2> HIDE DEF size
  <2>4. r = b
    BY <1>2, <1>5, <1>8, <2>1, <2>3
  <2> HIDE DEF r
  <2> QED BY <1>4, <2>1, <2>3, <2>4
<1>11. LengthBytes(size.value) = SubSeq(c.data, c.position + 5, c.position + 8)
  BY <1>9, FourBytes
<1>12. SubSeq(c.data, c.position + 1, c.position + 4) = Mtrk
  <2>1. Take(c, 4).ok = TRUE => Take(c, 4).value = SubSeq(c.data, c.position + 1, c.position + 4)
    BY TakeReads
  <2> QED BY <1>1, <1>5, <2>1
<1> HIDE DEF size, r
<1> QED BY <1>10, <1>11, <1>12 DEF r, tag

(* Behind the header is what its length says.                              *)
LEMMA HeaderSize ==
    ASSUME NEW c, IsCursor(c), CheckedHeader(c).ok = TRUE
    PROVE  LET v == BigEndian(SubSeq(c.data, c.position + 5, c.position + 8))
           IN  v \in Nat /\ CheckedHeader(c).cursor.position = c.position + (8 + v)
<1> DEFINE tag == Expect(Mthd, ReadTag(c), AbsoluteOffset(c))
           size == ReadU32(tag.cursor)
           body == HeaderBody(size, AbsoluteOffset(tag.cursor))
           r == CheckedHeader(c)
<1>1. /\ ReadsOn(tag, c)
      /\ tag.ok = TRUE => tag = Take(c, 4) /\ tag.cursor.position = c.position + 4
  BY ExpectReads
<1>2. r = IF tag.ok THEN (IF size.ok THEN body ELSE size) ELSE tag
  BY DEF CheckedHeader, Then
<1> HIDE DEF tag
<1>3. r.ok = TRUE
  BY DEF tag
<1>4. tag.ok = TRUE
  <2>1. tag.ok = FALSE => r = tag
    BY <1>2
  <2> HIDE DEF r
  <2>2. tag.ok # FALSE
    BY <1>3, <2>1
  <2> QED BY <1>1, <2>2 DEF ReadsOn
<1>5. /\ Onward(c, tag.cursor) /\ IsCursor(tag.cursor) /\ c.position \in Nat /\ tag.cursor.data = c.data
      /\ tag.cursor.position = c.position + 4
  BY <1>1, <1>4 DEF ReadsOn, Onward, IsCursor
<1>6. /\ ReadsOn(size, tag.cursor)
      /\ size.ok = TRUE => size.value \in Nat /\ size.cursor.position = tag.cursor.position + 4
  BY <1>5, IntegerReads DEF ReadU32
<1>7. size.ok = TRUE
  <2> HIDE DEF size
  <2>1. size.ok = FALSE => r = size
    BY <1>2, <1>4
  <2> HIDE DEF r
  <2>2. size.ok # FALSE
    BY <1>3, <2>1
  <2> QED BY <1>6, <2>2 DEF ReadsOn
<1>8. size.value = BigEndian(SubSeq(c.data, c.position + 5, c.position + 8))
  <2>1. PICK d : d = tag.cursor /\ IsCursor(d) /\ d.data = c.data /\ d.position = c.position + 4
    BY <1>5
  <2>2. ReadInteger(d, 4).ok = TRUE
    BY <1>7, <2>1 DEF ReadU32
  <2>3. ReadInteger(d, 4).value = BigEndian(SubSeq(d.data, d.position + 1, d.position + 4))
    BY <2>1, <2>2, IntegerValue
  <2>4. d.position + 1 = c.position + 5 /\ d.position + 4 = c.position + 8
    BY <1>5, <2>1
  <2> QED BY <2>1, <2>3, <2>4 DEF ReadU32
<1>9. body.ok = TRUE => body.cursor.position = size.cursor.position + size.value
  <2>1. Onward(tag.cursor, size.cursor) /\ size.value \in Nat
    BY <1>6, <1>7 DEF ReadsOn
  <2>2. AbsoluteOffset(tag.cursor) \in Nat /\ AbsoluteOffset(tag.cursor) <= AbsoluteOffset(tag.cursor)
    BY <1>5 DEF AbsoluteOffset, IsCursor
  <2> HIDE DEF size
  <2> QED BY <1>5, <2>1, <2>2, HeaderBodyReads
<1>10. r = body
  <2> HIDE DEF size, body
  <2> QED BY <1>2, <1>4, <1>7
<1> HIDE DEF body
<1>11. r.cursor.position = size.cursor.position + size.value
  <2> HIDE DEF size, r
  <2> QED BY <1>3, <1>9, <1>10
<1>12. PICK v, q \in Nat : v = size.value /\ q = c.position /\ size.cursor.position = (q + 4) + 4
  <2> HIDE DEF size
  <2> QED BY <1>5, <1>6, <1>7
<1>13. r.cursor.position = ((q + 4) + 4) + v
  <2> HIDE DEF size, r
  <2> QED BY <1>11, <1>12
<1>14. ((q + 4) + 4) + v = q + (8 + v)
  OBVIOUS
<1> HIDE DEF size, r
<1> QED BY <1>8, <1>12, <1>13, <1>14 DEF r

--------------------------------------------------------------------------------

(* The bytes of the records, of the chunk that holds just them, and of all *)
(* the chunks; the bytes of the header.                                    *)
BytesOf(f, s) == FlattenSeq([i \in DOMAIN s |-> SubSeq(f, s[i].event.from + 1, s[i].event.to)])
ChunkIn(f, s) == Mtrk \o LengthBytes(Len(BytesOf(f, s))) \o BytesOf(f, s)
ChunksIn(f, o) == FlattenSeq([t \in DOMAIN TracksOf(o) |-> ChunkIn(f, TracksOf(o)[t])])
HeaderIn(f) == SubSeq(f, 1, 8 + BigEndian(SubSeq(f, 5, 8)))

(* What a part of a file is made of, wherever it is. *)
Cells(f) == Nat \cup {f[i] : i \in Int}

(* The first n bytes are the header and the chunks of the tracks. *)
Accounts(f, o, n) ==
    HeaderIn(f) \in Seq(Byte) /\ SubSeq(f, 1, n) = HeaderIn(f) \o ChunksIn(f, o)

(* So are the bytes before the open chunk, whose head is there and whose   *)
(* bytes up to its cursor are those of the records behind the first b.     *)
OpenAccounts(f, o, b, c, n) ==
    /\ Accounts(f, o, n) /\ c.base = n + 8
    /\ SubSeq(f, n + 1, n + 4) = Mtrk
    /\ SubSeq(f, n + 5, n + 8) = LengthBytes(Len(c.data))
    /\ SubSeq(f, c.base + 1, AbsoluteOffset(c)) = BytesOf(f, SubSeq(o.events, b + 1, Len(o.events)))
Opens(f, o, b, c) == \E n \in Nat : OpenAccounts(f, o, b, c, n)

(* A part of anything is a sequence.                                       *)
LEMMA PartType ==
    ASSUME NEW f, NEW m \in Int, NEW n \in Int
    PROVE  SubSeq(f, m, n) \in Seq(Cells(f))
<1>1. \A i \in m..n : f[i] \in Cells(f)
  BY DEF Cells
<1> QED BY <1>1, SubSeqProperties

(* Two parts next to each other are one.                                   *)
LEMMA Glued ==
    ASSUME NEW f \in Seq(Byte), NEW a \in Nat, NEW b \in Nat, NEW c \in Nat,
           a <= b, b <= c, c <= Len(f)
    PROVE  /\ SubSeq(f, a + 1, b) \o SubSeq(f, b + 1, c) = SubSeq(f, a + 1, c)
           /\ SubSeq(f, a + 1, c) \in Seq(Byte) /\ Len(SubSeq(f, a + 1, c)) = c - a
<1>1. PICK n \in Nat : n = Len(f) /\ \A i \in 1..n : f[i] \in Byte
  BY LenProperties
<1>2. a + 1 \in 1..(n + 1) /\ b \in ((a + 1) - 1)..n /\ c \in b..n
  BY <1>1
<1>3. SubSeq(f, a + 1, b) \o SubSeq(f, b + 1, c) = SubSeq(f, a + 1, c)
  BY <1>1, <1>2, ConcatAdjacentSubSeq
<1>4. \A i \in (a + 1)..c : f[i] \in Byte
  BY <1>1
<1>5. a + 1 \in Int /\ c \in Int
  OBVIOUS
<1>6. /\ SubSeq(f, a + 1, c) \in Seq(Byte)
      /\ Len(SubSeq(f, a + 1, c)) = IF a + 1 <= c THEN c - (a + 1) + 1 ELSE 0
  BY <1>4, <1>5, SubSeqProperties
<1>7. (IF a + 1 <= c THEN c - (a + 1) + 1 ELSE 0) = c - a
  OBVIOUS
<1> QED BY <1>3, <1>6, <1>7

(* What a function makes of the elements of a sequence.                    *)
LEMMA MapType ==
    ASSUME NEW S, NEW T, NEW h \in [S -> T], NEW s \in Seq(S)
    PROVE  [i \in DOMAIN s |-> h[s[i]]] \in Seq(T) /\ Len([i \in DOMAIN s |-> h[s[i]]]) = Len(s)
<1>1. PICK n \in Nat : n = Len(s) /\ DOMAIN s = 1..n /\ \A i \in 1..n : s[i] \in S
  BY LenProperties
<1>2. PICK g : g = [i \in DOMAIN s |-> h[s[i]]]
  OBVIOUS
<1>3. g \in [1..n -> T]
  BY <1>1, <1>2
<1>4. g \in Seq(T) /\ Len(g) = n
  BY <1>3, SeqDef, LenProperties
<1> QED BY <1>1, <1>2, <1>4

(* What it makes of a longer one.                                          *)
LEMMA MapAppend ==
    ASSUME NEW S, NEW T, NEW h \in [S -> T], NEW s \in Seq(S), NEW z \in S
    PROVE  [i \in DOMAIN Append(s, z) |-> h[Append(s, z)[i]]] =
              Append([i \in DOMAIN s |-> h[s[i]]], h[z])
<1>1. PICK n \in Nat : n = Len(s) /\ DOMAIN s = 1..n /\ \A i \in 1..n : s[i] \in S
  BY LenProperties
<1>2. PICK q : q = Append(s, z) /\ Len(q) = n + 1 /\ DOMAIN q = 1..(n + 1)
               /\ q[n + 1] = z /\ \A i \in 1..n : q[i] = s[i]
  <2>1. /\ Append(s, z) \in Seq(S) /\ Len(Append(s, z)) = Len(s) + 1 /\ Append(s, z)[Len(s) + 1] = z
        /\ \A i \in 1..Len(s) : Append(s, z)[i] = s[i]
    BY AppendProperties
  <2>2. DOMAIN Append(s, z) = 1..Len(Append(s, z))
    BY <2>1, LenProperties
  <2> QED BY <1>1, <2>1, <2>2
<1>3. PICK g : g = [i \in DOMAIN s |-> h[s[i]]]
  OBVIOUS
<1>4. g \in Seq(T) /\ Len(g) = n /\ \A i \in 1..n : g[i] = h[s[i]]
  <2>1. g \in Seq(T) /\ Len(g) = n
    BY <1>1, <1>3, MapType
  <2> QED BY <1>1, <1>3, <2>1
<1>5. h[z] \in T
  OBVIOUS
<1>6. PICK k : k = Append(g, h[z]) /\ k \in Seq(T) /\ Len(k) = n + 1 /\ k[n + 1] = h[z]
               /\ \A i \in 1..n : k[i] = g[i]
  <2>1. /\ Append(g, h[z]) \in Seq(T) /\ Len(Append(g, h[z])) = Len(g) + 1
        /\ Append(g, h[z])[Len(g) + 1] = h[z]
        /\ \A i \in 1..Len(g) : Append(g, h[z])[i] = g[i]
    BY <1>4, <1>5, AppendProperties
  <2> QED BY <1>4, <2>1
<1>7. k = [i \in 1..(n + 1) |-> k[i]]
  <2>1. k \in [1..(n + 1) -> T]
    BY <1>6, LenProperties
  <2> QED BY <2>1
<1>8. ASSUME NEW i \in 1..(n + 1)
      PROVE  k[i] = h[q[i]]
  <2>1. CASE i = n + 1
    BY <1>2, <1>6, <2>1
  <2>2. CASE i # n + 1
    <3>1. i \in 1..n
      BY <2>2
    <3> QED BY <1>2, <1>4, <1>6, <3>1
  <2> QED BY <2>1, <2>2
<1>9. [i \in DOMAIN q |-> h[q[i]]] = k
  BY <1>2, <1>7, <1>8
<1> QED BY <1>2, <1>3, <1>4, <1>6, <1>9

(* The bytes of the records, one record more, or none.                     *)
LEMMA BytesGrow ==
    ASSUME NEW f, NEW s \in Seq(Records)
    PROVE  /\ BytesOf(f, s) \in Seq(Cells(f))
           /\ s = <<>> => BytesOf(f, s) = <<>>
           /\ \A z \in Records :
                 BytesOf(f, Append(s, z)) = BytesOf(f, s) \o SubSeq(f, z.event.from + 1, z.event.to)
<1>1. PICK S, T : S = Cells(f) /\ T = Seq(S)
  OBVIOUS
<1>2. PICK h : h = [r \in Records |-> SubSeq(f, r.event.from + 1, r.event.to)]
  OBVIOUS
<1>3. h \in [Records -> T]
  <2>1. ASSUME NEW r \in Records
        PROVE  SubSeq(f, r.event.from + 1, r.event.to) \in T
    <3>1. r.event.from \in Nat /\ r.event.to \in Nat
      BY DEF Records, Events
    <3>2. r.event.from + 1 \in Int /\ r.event.to \in Int
      BY <3>1
    <3> QED BY <1>1, <3>2, PartType
  <2> QED BY <1>2, <2>1
<1>4. \A q \in Seq(Records) : BytesOf(f, q) = FlattenSeq([i \in DOMAIN q |-> h[q[i]]])
  <2>1. ASSUME NEW q \in Seq(Records)
        PROVE  [i \in DOMAIN q |-> h[q[i]]] =
                  [i \in DOMAIN q |-> SubSeq(f, q[i].event.from + 1, q[i].event.to)]
    <3>1. \A i \in DOMAIN q : q[i] \in Records
      BY LenProperties
    <3> QED BY <1>2, <3>1
  <2> QED BY <2>1 DEF BytesOf
<1>5. PICK g : g = [i \in DOMAIN s |-> h[s[i]]] /\ g \in Seq(T)
  <2>1. [i \in DOMAIN s |-> h[s[i]]] \in Seq(T)
    BY <1>3, MapType
  <2> QED BY <2>1
<1>6. BytesOf(f, s) = FlattenSeq(g)
  BY <1>4, <1>5
<1>7. FlattenSeq(g) \in Seq(S) /\ (g = <<>> => FlattenSeq(g) = <<>>)
  BY <1>1, <1>5, FlattenProperties
<1>8. s = <<>> => g = <<>>
  <2>1. DOMAIN <<>> = {}
    BY EmptySeq
  <2> QED BY <1>5, <2>1
<1>9. ASSUME NEW z \in Records
      PROVE  BytesOf(f, Append(s, z)) = BytesOf(f, s) \o SubSeq(f, z.event.from + 1, z.event.to)
  <2>1. PICK q : q = Append(s, z) /\ q \in Seq(Records)
    BY AppendProperties
  <2>2. [i \in DOMAIN q |-> h[q[i]]] = Append(g, h[z])
    BY <1>3, <1>5, <2>1, MapAppend
  <2>3. h[z] \in Seq(S) /\ h[z] = SubSeq(f, z.event.from + 1, z.event.to)
    BY <1>1, <1>2, <1>3
  <2>4. FlattenSeq(Append(g, h[z])) = FlattenSeq(g) \o h[z]
    BY <1>1, <1>5, <2>3, FlattenProperties
  <2>5. BytesOf(f, q) = FlattenSeq([i \in DOMAIN q |-> h[q[i]]])
    BY <1>4, <2>1
  <2> QED BY <1>6, <2>1, <2>2, <2>3, <2>4, <2>5
<1> QED BY <1>1, <1>6, <1>7, <1>8, <1>9

(* A chunk is a part like those of a file.                                 *)
LEMMA ChunkType ==
    ASSUME NEW f, NEW s \in Seq(Records)
    PROVE  ChunkIn(f, s) \in Seq(Cells(f))
<1>1. PICK x : x = BytesOf(f, s) /\ x \in Seq(Cells(f))
  BY BytesGrow
<1>2. PICK n \in Nat : n = Len(x)
  BY <1>1, LenProperties
<1>3. PICK a, b, c, d \in Nat : LengthBytes(n) = <<a, b, c, d>>
  <2>1. /\ n \div 16777216 \in Nat /\ (n \div 65536) % 256 \in Nat
        /\ (n \div 256) % 256 \in Nat /\ n % 256 \in Nat
    OBVIOUS
  <2> QED BY <2>1 DEF LengthBytes
<1>4. Nat \subseteq Cells(f)
  BY DEF Cells
<1>5. PICK y : y = LengthBytes(n) /\ y \in Seq(Cells(f))
  <2>1. <<a, b, c, d>> \in Seq(Nat)
    OBVIOUS
  <2>2. <<a, b, c, d>> \in Seq(Cells(f))
    BY <1>4, <2>1, SeqMonotonic
  <2> QED BY <1>3, <2>2
<1>6. Mtrk \in Seq(Cells(f))
  <2>1. Mtrk \in Seq(Nat)
    BY DEF Mtrk
  <2> QED BY <1>4, <2>1, SeqMonotonic
<1>7. Mtrk \o y \in Seq(Cells(f))
  BY <1>5, <1>6, ConcatProperties
<1>8. (Mtrk \o y) \o x \in Seq(Cells(f))
  BY <1>1, <1>7, ConcatProperties
<1> QED BY <1>1, <1>2, <1>5, <1>8 DEF ChunkIn

(* All the chunks, with one track more or none.                            *)
LEMMA ChunksGrow ==
    ASSUME NEW f, NEW o, TracksOf(o) \in Seq(Seq(Records))
    PROVE  /\ ChunksIn(f, o) \in Seq(Cells(f))
           /\ TracksOf(o) = <<>> => ChunksIn(f, o) = <<>>
           /\ \A p, x : x \in Seq(Records) /\ TracksOf(p) = Append(TracksOf(o), x)
                           => ChunksIn(f, p) = ChunksIn(f, o) \o ChunkIn(f, x)
<1>1. PICK S, T, R : S = Cells(f) /\ T = Seq(S) /\ R = Seq(Records)
  OBVIOUS
<1>2. PICK h : h = [x \in R |-> ChunkIn(f, x)]
  OBVIOUS
<1>3. h \in [R -> T]
  <2>1. ASSUME NEW x \in R
        PROVE  ChunkIn(f, x) \in T
    BY <1>1, ChunkType
  <2> QED BY <1>2, <2>1
<1>4. ASSUME NEW p, TracksOf(p) \in Seq(R)
      PROVE  ChunksIn(f, p) = FlattenSeq([t \in DOMAIN TracksOf(p) |-> h[TracksOf(p)[t]]])
  <2>1. PICK q : q = TracksOf(p) /\ q \in Seq(R)
    BY <1>4
  <2>2. \A t \in DOMAIN q : q[t] \in R
    BY <2>1, LenProperties
  <2>3. [t \in DOMAIN q |-> h[q[t]]] = [t \in DOMAIN q |-> ChunkIn(f, q[t])]
    BY <1>2, <2>2
  <2> QED BY <2>1, <2>3 DEF ChunksIn
<1>5. PICK s : s = TracksOf(o) /\ s \in Seq(R)
  BY <1>1
<1>6. PICK g : g = [t \in DOMAIN s |-> h[s[t]]] /\ g \in Seq(T)
  <2>1. [t \in DOMAIN s |-> h[s[t]]] \in Seq(T)
    BY <1>3, <1>5, MapType
  <2> QED BY <2>1
<1>7. ChunksIn(f, o) = FlattenSeq(g)
  BY <1>4, <1>5, <1>6
<1>8. FlattenSeq(g) \in Seq(S) /\ (g = <<>> => FlattenSeq(g) = <<>>)
  BY <1>1, <1>6, FlattenProperties
<1>9. s = <<>> => g = <<>>
  <2>1. DOMAIN <<>> = {}
    BY EmptySeq
  <2> QED BY <1>6, <2>1
<1>10. ASSUME NEW p, NEW x, x \in Seq(Records), TracksOf(p) = Append(TracksOf(o), x)
       PROVE  ChunksIn(f, p) = ChunksIn(f, o) \o ChunkIn(f, x)
  <2>1. x \in R /\ TracksOf(p) = Append(s, x) /\ TracksOf(p) \in Seq(R)
    <3>1. x \in R
      BY <1>1, <1>10
    <3>2. Append(s, x) \in Seq(R)
      BY <1>5, <3>1, AppendProperties
    <3> QED BY <1>5, <1>10, <3>1, <3>2
  <2>2. PICK q : q = TracksOf(p) /\ q = Append(s, x) /\ q \in Seq(R)
    BY <2>1
  <2>3. [t \in DOMAIN q |-> h[q[t]]] = Append(g, h[x])
    BY <1>3, <1>5, <1>6, <2>1, <2>2, MapAppend
  <2>4. h[x] \in Seq(S) /\ h[x] = ChunkIn(f, x)
    BY <1>1, <1>2, <1>3, <2>1
  <2>5. FlattenSeq(Append(g, h[x])) = FlattenSeq(g) \o h[x]
    BY <1>1, <1>6, <2>4, FlattenProperties
  <2>6. ChunksIn(f, p) = FlattenSeq([t \in DOMAIN q |-> h[q[t]]])
    BY <1>4, <2>2
  <2> QED BY <1>7, <2>3, <2>4, <2>5, <2>6
<1> QED BY <1>1, <1>5, <1>7, <1>8, <1>9, <1>10

(* The place of a chunk cursor in the file.                                *)
LEMMA CursorInFile ==
    ASSUME NEW f \in Seq(Byte), NEW w \in Positions(f), w.stage = "events"
    PROVE  /\ w.cursor.base \in Nat /\ w.cursor.position \in Nat /\ Len(w.cursor.data) \in Nat
           /\ w.cursor.position <= Len(w.cursor.data)
           /\ w.cursor.base + Len(w.cursor.data) = AbsoluteOffset(w.outer)
           /\ AbsoluteOffset(w.outer) <= Len(f) /\ Len(f) \in Nat
<1>1. IsCursor(w.cursor) /\ IsCursor(w.outer) /\ InBytes(f, w)
  BY PositionFields
<1>2. /\ w.cursor.base \in Nat /\ w.cursor.position \in Nat /\ Len(w.cursor.data) \in Nat
      /\ w.cursor.position <= Len(w.cursor.data)
  BY <1>1, LenProperties DEF IsCursor
<1>3. AbsoluteOffset(w.outer) <= Len(f) /\ Len(f) \in Nat
  BY <1>1, LenProperties DEF IsCursor, InBytes, AbsoluteOffset
<1> QED BY <1>1, <1>2, <1>3 DEF InBytes

(* Nothing is read yet of a chunk that is entered.                         *)
LEMMA OpenBytes ==
    ASSUME NEW f \in Seq(Byte), NEW w \in Positions(f), w.stage = "chunk", w.track <= w.header.tracks,
           BodyOf(w).ok = TRUE, NEW o \in OwnedFiles, Accounts(f, o, AbsoluteOffset(w.outer))
    PROVE  Opens(f, o, Len(o.events), BodyOf(w).value)
<1>1. /\ IsCursor(w.outer) /\ w.outer.data = f /\ w.outer.base = 0
  BY PositionFields DEF InBytes
<1>2. PICK n \in Nat : n = w.outer.position /\ n = AbsoluteOffset(w.outer)
  BY <1>1 DEF IsCursor, AbsoluteOffset
<1>3. PICK c : c = BodyOf(w).value /\ c.position = 0 /\ c.base = n + 8
  <2>1. SizedBody(CheckedTag(w.outer)).ok = TRUE
    BY DEF BodyOf
  <2>2. /\ SizedBody(CheckedTag(w.outer)).value.position = 0
        /\ SizedBody(CheckedTag(w.outer)).value.base = AbsoluteOffset(w.outer) + 8
    BY <1>1, <2>1, BodyReads
  <2> QED BY <1>2, <2>2 DEF BodyOf
<1>4. SubSeq(f, n + 1, n + 4) = Mtrk /\ SubSeq(f, n + 5, n + 8) = LengthBytes(Len(c.data))
  BY <1>1, <1>2, <1>3, ChunkHead DEF BodyOf
<1>5. SubSeq(f, c.base + 1, AbsoluteOffset(c)) = <<>>
  <2>1. c.base + 1 \in Int /\ AbsoluteOffset(c) \in Int /\ AbsoluteOffset(c) < c.base + 1
    BY <1>3 DEF AbsoluteOffset
  <2> QED BY <2>1, SubSeqEmpty
<1>6. PICK m \in Nat : m = Len(o.events)
  BY OwnedParts
<1>7. SubSeq(o.events, m + 1, m) = <<>>
  BY <1>6, SubSeqEmpty
<1>8. BytesOf(f, <<>>) = <<>>
  <2>1. <<>> \in Seq(Records)
    BY EmptySeq
  <2> QED BY <2>1, BytesGrow
<1>9. OpenAccounts(f, o, m, c, n)
  BY <1>2, <1>3, <1>4, <1>5, <1>6, <1>7, <1>8 DEF OpenAccounts
<1> QED BY <1>3, <1>6, <1>9 DEF Opens

(* The bytes of an event are those of its record.                          *)
LEMMA PushBytes ==
    ASSUME NEW f \in Seq(Byte), NEW w \in Positions(f), w.stage = "events", EventOf(w).ok = TRUE,
           EventOf(w).cursor.position <= Len(w.cursor.data),
           NEW o \in OwnedFiles, NEW p \in OwnedFiles, NEW b, Shelved(o, b),
           Pushes(o, p, EventOf(w).value.event), Opens(f, o, b, w.cursor)
    PROVE  Opens(f, p, b, EventOf(w).cursor)
<1>1. PICK c, d, e : /\ c = w.cursor /\ d = EventOf(w).cursor /\ e = EventOf(w).value.event
                     /\ e.from = AbsoluteOffset(c) /\ e.to = AbsoluteOffset(d)
                     /\ d.data = c.data /\ d.base = c.base /\ e \in Events
                     /\ d.position \in Nat /\ d.position > c.position
  <2>1. EventOf(w).value.event \in FileEvents(f) /\ Onward(w.cursor, EventOf(w).cursor)
    BY EventInFile
  <2>2. EventOf(w).value.event \in Events
    BY <2>1 DEF FileEvents
  <2> QED BY <2>1, <2>2, EventInFile DEF Onward, IsCursor
<1>2. PICK n \in Nat : OpenAccounts(f, o, b, c, n)
  BY <1>1 DEF Opens
<1>3. PICK m \in Nat : m = Len(o.events) /\ o.events \in Seq(Records) /\ Len(o.payloads) \in Nat
  BY OwnedParts
<1>4. PICK s : s = o.events /\ s \in Seq(Records) /\ m = Len(s) /\ Len(o.payloads) \in Nat
  BY <1>3
<1>5. PICK z : /\ z = Record(e, IF IsChannel(e.status) THEN 0 ELSE Len(o.payloads), Len(e.data))
               /\ p.events = Append(s, z)
  BY <1>1, <1>4 DEF Pushes, RecordOf
<1>6. z \in Records /\ z.event = e
  <2>1. e.data \in Seq(Byte)
    BY <1>1 DEF Events
  <2>2. Len(e.data) \in Nat
    BY <2>1, LenProperties
  <2> QED BY <1>1, <1>4, <1>5, <2>2 DEF Record, Records
<1>7. p.events = s \o <<z>> /\ <<z>> \in Seq(Records) /\ Len(p.events) = m + 1
  BY <1>4, <1>5, <1>6, AppendIsConcat, AppendProperties
<1>8. TracksOf(p) = TracksOf(o)
  BY <1>1, <1>4, <1>7, SameTracks DEF Pushes
<1>9. Accounts(f, p, n)
  BY <1>2, <1>8 DEF OpenAccounts, Accounts, ChunksIn
<1>10. b \in 0..m
  BY <1>4 DEF Shelved
<1>11. PICK x : x = SubSeq(s, b + 1, m) /\ x \in Seq(Records)
  <2>1. \A i \in (b + 1)..m : s[i] \in Records
    BY <1>4, <1>10, ElementOfSeq
  <2>2. b + 1 \in Int /\ m \in Int
    BY <1>10
  <2> QED BY <2>1, <2>2, SubSeqProperties
<1>12. SubSeq(p.events, b + 1, m + 1) = Append(x, z)
  <2>1. PICK q : q = p.events /\ q \in Seq(Records) /\ Len(q) = m + 1 /\ q[m + 1] = z /\ q = s \o <<z>>
    <3>1. Append(s, z) \in Seq(Records) /\ Append(s, z)[Len(s) + 1] = z
      BY <1>4, <1>6, AppendProperties
    <3> QED BY <1>4, <1>5, <1>7, <3>1
  <2>2. b + 1 \in 1..Len(q) /\ m + 1 \in (b + 1)..Len(q)
    BY <1>10, <2>1
  <2>3. SubSeq(q, b + 1, m + 1) = SubSeq(q, b + 1, (m + 1) - 1) \o <<q[m + 1]>>
    BY <2>1, <2>2, SubSeqRecursiveSecond
  <2>4. (m + 1) - 1 = m
    OBVIOUS
  <2>5. SubSeq(q, b + 1, m) = x
    <3>1. PICK a \in Nat : a = b /\ a + 1 \in 1..(m + 1)
      BY <1>10
    <3>2. m <= Len(s) /\ s \in Seq(Records) /\ <<z>> \in Seq(Records)
      BY <1>4, <1>7
    <3>3. SubSeq(s \o <<z>>, a + 1, m) = SubSeq(s, a + 1, m)
      BY <3>2, PartOfLonger
    <3> QED BY <1>11, <2>1, <3>1, <3>3
  <2>6. Append(x, z) = x \o <<z>>
    BY <1>6, <1>11, AppendIsConcat
  <2> QED BY <2>1, <2>3, <2>4, <2>5, <2>6
<1>13. BytesOf(f, Append(x, z)) = BytesOf(f, x) \o SubSeq(f, e.from + 1, e.to)
  BY <1>6, <1>11, BytesGrow
<1>14. BytesOf(f, x) = SubSeq(f, c.base + 1, e.from)
  BY <1>1, <1>2, <1>4, <1>11 DEF OpenAccounts
<1>15. SubSeq(f, c.base + 1, e.from) \o SubSeq(f, e.from + 1, e.to) = SubSeq(f, c.base + 1, e.to)
  <2>1. PICK k, i, j, l \in Nat : k = c.base /\ i = c.position /\ j = d.position /\ l = Len(c.data)
    BY <1>1, CursorInFile
  <2>2. i <= j /\ j <= l /\ k + l <= Len(f) /\ Len(f) \in Nat
    BY <1>1, <2>1, CursorInFile
  <2>3. e.from = k + i /\ e.to = k + j
    BY <1>1, <2>1 DEF AbsoluteOffset
  <2>4. k <= k + i /\ k + i <= k + j /\ k + j <= Len(f) /\ k + i \in Nat /\ k + j \in Nat
    BY <2>2
  <2>5. SubSeq(f, k + 1, k + i) \o SubSeq(f, (k + i) + 1, k + j) = SubSeq(f, k + 1, k + j)
    BY <2>4, Glued
  <2> QED BY <2>1, <2>3, <2>5
<1>16. SubSeq(f, d.base + 1, AbsoluteOffset(d)) = BytesOf(f, SubSeq(p.events, b + 1, Len(p.events)))
  BY <1>1, <1>7, <1>12, <1>13, <1>14, <1>15
<1>17. OpenAccounts(f, p, b, d, n)
  BY <1>1, <1>2, <1>9, <1>16 DEF OpenAccounts
<1> QED BY <1>1, <1>17 DEF Opens

(* Sequences over S can be put together in either order. *)
Regroups(S) == \A x, y, z \in Seq(S) : (x \o y) \o z = x \o (y \o z)

(* So can the parts of a file.                                             *)
LEMMA CellsRegroup == \A f : Regroups(Cells(f))
<1>1. ASSUME NEW S
      PROVE  \A x, y, z \in Seq(S) : (x \o y) \o z = x \o (y \o z)
  BY ConcatAssociative, SMTT(60)
<1>2. \A S : Regroups(S)
  BY <1>1 DEF Regroups
<1> QED BY <1>2

(* The chunk of a track that is closed is in the file as its records are.  *)
LEMMA CloseBytes ==
    ASSUME NEW f \in Seq(Byte), NEW w \in Positions(f), w.stage = "events", Remaining(w.cursor) = 0,
           NEW o \in OwnedFiles, NEW p \in OwnedFiles, NEW b, Shelved(o, b),
           Closes(o, p, b), Opens(f, o, b, w.cursor)
    PROVE  Accounts(f, p, AbsoluteOffset(w.outer))
<1>1. PICK n \in Nat : OpenAccounts(f, o, b, w.cursor, n)
  BY DEF Opens
<1>2. /\ w.cursor.base \in Nat /\ w.cursor.position \in Nat /\ Len(w.cursor.data) \in Nat
      /\ w.cursor.position <= Len(w.cursor.data)
      /\ w.cursor.base + Len(w.cursor.data) = AbsoluteOffset(w.outer)
      /\ AbsoluteOffset(w.outer) <= Len(f) /\ Len(f) \in Nat
  BY CursorInFile
<1>3. PICK k, l, e, m \in Nat : /\ k = w.cursor.base /\ l = Len(w.cursor.data) /\ e = AbsoluteOffset(w.outer)
                             /\ w.cursor.position = l /\ k + l = e /\ e <= m /\ m = Len(f)
  <2>1. PICK k, l, q, m \in Nat : /\ k = w.cursor.base /\ l = Len(w.cursor.data)
                                   /\ q = w.cursor.position /\ m = Len(f)
    BY <1>2
  <2>2. l - q = 0
    BY <2>1 DEF Remaining
  <2>3. q = l
    BY <2>2
  <2>4. k + l = AbsoluteOffset(w.outer) /\ AbsoluteOffset(w.outer) <= m
    BY <1>2, <2>1
  <2>5. PICK e \in Nat : e = k + l
    OBVIOUS
  <2> QED BY <2>1, <2>3, <2>4, <2>5
<1>4. k = n + 8 /\ AbsoluteOffset(w.cursor) = e
  BY <1>1, <1>3 DEF OpenAccounts, AbsoluteOffset
<1>5. PICK x : /\ x = SubSeq(o.events, b + 1, Len(o.events)) /\ x \in Seq(Records)
               /\ TracksOf(o) \in Seq(Seq(Records)) /\ TracksOf(p) = Append(TracksOf(o), x)
  BY TracksClose
<1>6. PICK h, y, z : h = HeaderIn(f) /\ y = ChunksIn(f, o) /\ z = ChunkIn(f, x)
  OBVIOUS
<1>7. PICK S : S = Cells(f) /\ y \in Seq(S) /\ z \in Seq(S) /\ ChunksIn(f, p) = y \o z
  BY <1>5, <1>6, ChunksGrow, ChunkType
<1>8. h \in Seq(S) /\ h \in Seq(Byte)
  <2>1. Byte \subseteq S
    BY <1>7 DEF Cells, Byte
  <2>2. h \in Seq(Byte)
    BY <1>1, <1>6 DEF OpenAccounts, Accounts
  <2> QED BY <2>1, <2>2, SeqMonotonic
<1>9. SubSeq(f, 1, n) = h \o y
  BY <1>1, <1>6 DEF OpenAccounts, Accounts
<1>10. PICK bytes : bytes = BytesOf(f, x) /\ bytes = SubSeq(f, (n + 8) + 1, e)
  <2>1. SubSeq(f, w.cursor.base + 1, AbsoluteOffset(w.cursor)) = BytesOf(f, x)
    BY <1>1, <1>5 DEF OpenAccounts
  <2> QED BY <1>3, <1>4, <2>1
<1>11. k = n + 8 /\ k + l = e /\ e <= m
  BY <1>3, <1>4
<1>12. n + 8 <= e /\ n <= n + 8 /\ n <= n + 4 /\ n + 4 <= n + 8 /\ n + 8 <= m /\ n <= e
  BY <1>11
<1>13. \A i, j, q \in Nat : i <= j /\ j <= q /\ q <= m =>
           /\ SubSeq(f, i + 1, j) \o SubSeq(f, j + 1, q) = SubSeq(f, i + 1, q)
           /\ Len(SubSeq(f, i + 1, q)) = q - i
  BY <1>3, Glued
<1>14. n + 8 \in Nat /\ n + 4 \in Nat /\ 0 \in Nat /\ 0 <= n /\ e <= m /\ e <= e
  BY <1>3
<1>15. Len(bytes) = l
  <2>1. Len(SubSeq(f, (n + 8) + 1, e)) = e - (n + 8)
    BY <1>12, <1>13, <1>14
  <2>2. e - (n + 8) = l
    BY <1>11
  <2> QED BY <1>10, <2>1, <2>2
<1>16. SubSeq(f, n + 1, n + 4) = Mtrk /\ SubSeq(f, n + 5, n + 8) = LengthBytes(l)
  BY <1>1, <1>3 DEF OpenAccounts
<1>17. z = SubSeq(f, n + 1, e)
  <2>1. SubSeq(f, n + 1, n + 4) \o SubSeq(f, (n + 4) + 1, n + 8) = SubSeq(f, n + 1, n + 8)
    BY <1>12, <1>13, <1>14
  <2>2. SubSeq(f, n + 1, n + 8) \o SubSeq(f, (n + 8) + 1, e) = SubSeq(f, n + 1, e)
    BY <1>12, <1>13, <1>14
  <2>3. (n + 4) + 1 = n + 5
    OBVIOUS
  <2>4. Mtrk \o LengthBytes(l) = SubSeq(f, n + 1, n + 8)
    BY <1>16, <2>1, <2>3
  <2>5. z = (Mtrk \o LengthBytes(l)) \o bytes
    BY <1>6, <1>10, <1>15 DEF ChunkIn
  <2> QED BY <1>10, <2>2, <2>4, <2>5
<1>18. SubSeq(f, 1, e) = (h \o y) \o z
  <2>1. SubSeq(f, 0 + 1, n) \o SubSeq(f, n + 1, e) = SubSeq(f, 0 + 1, e)
    BY <1>12, <1>13, <1>14
  <2>2. 0 + 1 = 1
    OBVIOUS
  <2> QED BY <1>9, <1>17, <2>1, <2>2
<1>19. (h \o y) \o z = h \o (y \o z)
  <2>1. y \in Seq(S) /\ z \in Seq(S) /\ h \in Seq(S)
    BY <1>7, <1>8
  <2>2. Regroups(S)
    BY <1>7, CellsRegroup
  <2> QED BY <2>1, <2>2 DEF Regroups
<1> QED BY <1>3, <1>6, <1>7, <1>8, <1>18, <1>19 DEF Accounts

(* The header is behind the cursor that has read it, and no chunk yet.     *)
LEMMA HeaderBytes ==
    ASSUME NEW f \in Seq(Byte), NEW w \in Positions(f), w.stage = "header", w.outer = CursorAt(f, 0),
           HeaderOf(w).ok = TRUE, NEW x \in Positions(f), x.outer = HeaderOf(w).cursor,
           NEW o \in OwnedFiles, Len(o.tracks) = 0
    PROVE  Accounts(f, o, AbsoluteOffset(x.outer))
<1>1. PICK c : c = w.outer /\ IsCursor(c) /\ c.data = f /\ c.position = 0 /\ c.base = 0
  <2>1. IsCursor(w.outer)
    BY PositionFields
  <2>2. w.outer.data = f /\ w.outer.position = 0 /\ w.outer.base = 0
    BY DEF CursorAt
  <2> QED BY <2>1, <2>2
<1>2. CheckedHeader(c).ok = TRUE /\ x.outer = CheckedHeader(c).cursor
  BY <1>1 DEF HeaderOf
<1>3. PICK v \in Nat : v = BigEndian(SubSeq(f, 5, 8)) /\ x.outer.position = 8 + v
  <2>1. /\ BigEndian(SubSeq(c.data, c.position + 5, c.position + 8)) \in Nat
        /\ CheckedHeader(c).cursor.position =
              c.position + (8 + BigEndian(SubSeq(c.data, c.position + 5, c.position + 8)))
    BY <1>1, <1>2, HeaderSize
  <2>2. c.position + 5 = 5 /\ c.position + 8 = 8
    BY <1>1
  <2>3. PICK v \in Nat : v = BigEndian(SubSeq(f, 5, 8)) /\ x.outer.position = 0 + (8 + v)
    BY <1>1, <1>2, <2>1, <2>2
  <2> QED BY <2>3
<1>4. IsCursor(x.outer) /\ x.outer.data = f /\ x.outer.base = 0
  BY PositionFields DEF InBytes
<1>5. PICK e \in Nat : e = 8 + v /\ e = AbsoluteOffset(x.outer) /\ e <= Len(f)
  <2>1. x.outer.position <= Len(f)
    BY <1>4 DEF IsCursor
  <2>2. PICK e \in Nat : e = 8 + v
    OBVIOUS
  <2> QED BY <1>3, <1>4, <2>1, <2>2 DEF AbsoluteOffset
<1>6. HeaderIn(f) = SubSeq(f, 1, e)
  BY <1>3, <1>5 DEF HeaderIn
<1>7. SubSeq(f, 1, e) \in Seq(Byte)
  <2>1. 0 \in Nat /\ 0 <= 0 /\ 0 <= e
    OBVIOUS
  <2>2. SubSeq(f, 0 + 1, e) \in Seq(Byte)
    BY <1>5, <2>1, Glued
  <2>3. 0 + 1 = 1
    OBVIOUS
  <2> QED BY <2>2, <2>3
<1>8. ChunksIn(f, o) = <<>>
  <2>1. o.tracks = <<>>
    BY OwnedParts, EmptySeq
  <2>2. TracksOf(o) = <<>>
    BY <2>1, EmptySeq DEF TracksOf
  <2>3. TracksOf(o) \in Seq(Seq(Records))
    BY <2>2, EmptySeq
  <2> QED BY <2>2, <2>3, ChunksGrow
<1>9. SubSeq(f, 1, e) \o <<>> = SubSeq(f, 1, e)
  BY <1>7, ConcatEmptySeq
<1> QED BY <1>5, <1>6, <1>7, <1>8, <1>9 DEF Accounts

--------------------------------------------------------------------------------
(* What parse_smf has walked over is the header and the chunks of its      *)
(* records, and so is what it has consumed when it is done.                *)
WalkedBytes ==
    /\ stage = "header" => outer = CursorAt(file, 0)
    /\ stage = "chunk" => Accounts(file, owned, AbsoluteOffset(outer))
    /\ stage = "events" => Opens(file, owned, start, cursor)
ConsumedBytes ==
    Accounts(file, owned, owned.consumed) /\ owned.consumed + owned.trailing = Len(file)
BytesInv ==
    /\ turn = "owned" => WalkedBytes
    /\ answer["owned"] = Ok => ConsumedBytes

(* While parse_smf goes on, each step accounts for the bytes it walks over. *)
LEMMA OwnedWalks ==
    ASSUME IInv, Next, StoreInv, BytesInv, turn = "owned", turn' = turn, owned' \in OwnedFiles
    PROVE  WalkedBytes'
<1>1. owned \in OwnedFiles /\ file \in Seq(Byte) /\ file' = file /\ WalkedBytes
  BY SameFile DEF IInv, Typed, BytesInv
<1>2. PICK n \in Nat : Stands(Walk(file)[n], Walk(file)[n + 1]) /\ Moved(Walk(file)[n + 1])
  BY GoesOn
<1>3. PICK f, o, p, w, x : /\ f = file /\ o = owned /\ p = owned' /\ w = Walk(f)[n] /\ x = Walk(f)[n + 1]
                           /\ f \in Seq(Byte) /\ o \in OwnedFiles /\ p \in OwnedFiles
                           /\ Stands(w, x) /\ Moved(x) /\ w \in Positions(f) /\ x \in Positions(f)
  BY <1>1, <1>2 DEF Stands
<1>4. /\ x = Onto(w) /\ Placed(w) /\ x.stage # "refused" /\ Len(o.tracks) = track - 1
      /\ stage' = x.stage /\ outer' = x.outer /\ cursor' = x.cursor /\ track' = x.track
  BY <1>3 DEF Stands, Moved, Placed, Built
<1>5. \A r : Refused(w, r).stage = "refused"
  BY <1>3 DEF Refused, Positions, Position
<1>6. w \in Position(f) /\ w.track \in Nat /\ w.header.tracks \in Nat
  BY <1>3, PositionFields DEF Positions
<1>7. CASE OwnedReads
  <2>1. stage = "header" /\ stage' = "chunk" /\ owned'.tracks = owned.tracks
    BY <1>7 DEF OwnedReads
  <2>2. w.stage = "header" /\ w.outer = CursorAt(f, 0) /\ w.track = track
    BY <1>1, <1>3, <1>4, <2>1 DEF Placed, WalkedBytes
  <2>3. w.track = 1
    BY <1>3, <2>2, PositionFields DEF InTracks
  <2>4. Len(p.tracks) = 0
    BY <1>3, <1>4, <2>1, <2>2, <2>3
  <2>5. PICK r : r = HeaderOf(w) /\ x = IF r.ok THEN PastHeader(w, r) ELSE Refused(w, r)
    BY <1>4, <2>2 DEF Onto
  <2>6. r.ok = TRUE
    <3>1. r.ok = TRUE \/ r.ok = FALSE
      BY <1>3, <2>5, PositionFields, HeaderReads DEF HeaderOf, ReadsOn
    <3> QED BY <1>4, <1>5, <2>5, <3>1
  <2>7. x.outer = r.cursor
    <3>1. x = PastHeader(w, r)
      BY <2>5, <2>6
    <3> QED BY <1>6, <3>1 DEF PastHeader, Position
  <2>8. Accounts(f, p, AbsoluteOffset(x.outer))
    BY <1>3, <2>2, <2>4, <2>5, <2>6, <2>7, HeaderBytes
  <2> QED BY <1>1, <1>3, <1>4, <2>1, <2>8 DEF WalkedBytes
<1>8. CASE OwnedOpens
  <2>1. stage = "chunk" /\ stage' = "events" /\ start' = Len(owned.events) /\ owned' = owned
    BY <1>8 DEF OwnedOpens
  <2>2. w.stage = "chunk" /\ outer = w.outer /\ x.stage = "events"
    BY <1>4, <2>1 DEF Placed
  <2>3. w.track <= w.header.tracks
    <3>1. Finished(w).stage = "finished"
      BY <1>3 DEF Finished, Positions, Position
    <3>2. w.track \in Nat /\ w.header.tracks \in Nat
      BY <1>3, PositionFields
    <3>3. w.track > w.header.tracks => x = Finished(w)
      BY <1>4, <2>2, <3>2 DEF Onto
    <3> QED BY <2>2, <3>1, <3>2, <3>3
  <2>4. PICK r : r = BodyOf(w) /\ x = IF r.ok THEN InChunk(w, r) ELSE Refused(w, r)
    <3>1. ~(w.track > w.header.tracks)
      BY <1>6, <2>3
    <3> QED BY <1>4, <2>2, <2>3, <3>1 DEF Onto
  <2>5. r.ok = TRUE
    <3>1. r.ok = TRUE \/ r.ok = FALSE
      BY <1>3, <2>4, PositionFields, BodyReads DEF BodyOf, ReadsOn
    <3> QED BY <1>4, <1>5, <2>4, <3>1
  <2>6. x.cursor = r.value
    <3>1. x = InChunk(w, r)
      BY <2>4, <2>5
    <3> QED BY <1>6, <3>1 DEF InChunk, Position
  <2>7. Accounts(f, o, AbsoluteOffset(w.outer))
    BY <1>1, <1>3, <2>1, <2>2 DEF WalkedBytes
  <2>8. Opens(f, o, Len(o.events), x.cursor)
    BY <1>3, <2>2, <2>3, <2>4, <2>5, <2>6, <2>7, OpenBytes
  <2> QED BY <1>1, <1>3, <1>4, <2>1, <2>8 DEF WalkedBytes
<1>9. CASE OwnedPushes
  <2>1. PICK r : /\ r = ReadEvent(cursor, running) /\ r.ok = TRUE
                 /\ Pushes(owned, owned', r.value.event)
    BY <1>9 DEF OwnedPushes
  <2>2. stage = "events" /\ Remaining(cursor) # 0 /\ stage' = stage /\ start' = start
    BY <1>9 DEF OwnedPushes
  <2>3. PICK e : e = r.value.event /\ Pushes(o, p, e)
    BY <1>3, <2>1
  <2>4. w.stage = "events" /\ cursor = w.cursor /\ running = w.running /\ r = EventOf(w)
    BY <1>4, <2>1, <2>2 DEF Placed, EventOf
  <2>5. x = IF r.ok THEN PastEvent(w, r) ELSE Refused(w, r)
    BY <1>4, <2>2, <2>4 DEF Onto
  <2>6. x.cursor = r.cursor
    <3>1. x = PastEvent(w, r)
      BY <2>1, <2>5
    <3> QED BY <1>6, <3>1 DEF PastEvent, Position
  <2>7. r.cursor.position <= Len(w.cursor.data)
    <3>1. IsCursor(x.cursor)
      BY <1>3, PositionFields
    <3>2. r.cursor.data = w.cursor.data
      <4>1. IsCursor(w.cursor) /\ w.running \in Runs
        BY <1>3, PositionFields
      <4>2. IsRead(w.cursor, r)
        BY <2>4, <4>1, EventReads DEF EventOf
      <4> QED BY <2>1, <4>2 DEF IsRead, ReadsOn, Onward
    <3> QED BY <2>6, <3>1, <3>2 DEF IsCursor
  <2>8. PICK b : b = start /\ Shelved(o, b) /\ Opens(f, o, b, w.cursor)
    BY <1>1, <1>3, <2>2, <2>4 DEF StoreInv, Closed, WalkedBytes
  <2>9. Opens(f, p, b, x.cursor)
    BY <1>3, <2>1, <2>3, <2>4, <2>6, <2>7, <2>8, PushBytes
  <2> QED BY <1>1, <1>3, <1>4, <2>2, <2>8, <2>9 DEF WalkedBytes
<1>10. CASE OwnedCloses
  <2>1. stage = "events" /\ stage' = "chunk" /\ outer' = outer /\ Remaining(cursor) = 0
    BY <1>10 DEF OwnedCloses
  <2>2. w.stage = "events" /\ cursor = w.cursor /\ outer = w.outer
    BY <1>4, <2>1 DEF Placed
  <2>3. PICK b : b = start /\ Shelved(o, b) /\ Opens(f, o, b, w.cursor)
    BY <1>1, <1>3, <2>1, <2>2 DEF StoreInv, Closed, WalkedBytes
  <2>4. Closes(o, p, b)
    BY <1>3, <1>10, <2>3 DEF OwnedCloses
  <2>5. Accounts(f, p, AbsoluteOffset(w.outer))
    BY <1>3, <2>1, <2>2, <2>3, <2>4, CloseBytes
  <2> QED BY <1>1, <1>3, <2>1, <2>2, <2>5 DEF WalkedBytes
<1> QED BY <1>7, <1>8, <1>9, <1>10, OwnedSteps

(* The second pass ends where the first did.                               *)
LEMMA OwnedEnds ==
    ASSUME IInv, BytesInv, turn = "owned", EndOfFile
    PROVE  ConsumedBytes
<1>1. Typed /\ ScanFollows /\ OwnedFollows /\ owned \in OwnedFiles /\ file \in Seq(Byte) /\ WalkedBytes
  BY DEF IInv, Follow, Typed, BytesInv
<1>2. PICK n \in Nat : Stands(Walk(file)[n], Walk(file)[n + 1])
  <2>1. turn \in Decoders
    BY DEF Decoders
  <2> QED BY <2>1, OnWalk
<1>3. PICK f, w, x : /\ f = file /\ f \in Seq(Byte) /\ w = Walk(f)[n] /\ x = Walk(f)[n + 1] /\ Stands(w, x)
                     /\ w \in Positions(f) /\ x \in Positions(f) /\ x = Onto(w) /\ Placed(w)
  BY <1>1, <1>2 DEF Stands
<1>4. stage = "chunk" /\ w.stage = "chunk" /\ w.outer = outer /\ TakenOver
  BY <1>1, <1>3 DEF EndOfFile, Placed, OwnedFollows
<1>5. x = Finished(w)
  <2>1. DeclaredTracks = w.header.tracks /\ w.track = track
    BY <1>3, <1>4, Declared DEF Placed
  <2>2. w.track > w.header.tracks /\ w.track \in Nat /\ w.header.tracks \in Nat
    BY <1>3, <2>1, PositionFields DEF EndOfFile
  <2>3. ~(w.track <= w.header.tracks)
    BY <2>2
  <2> QED BY <1>3, <1>4, <2>2, <2>3 DEF Onto
<1>6. x.stage = "finished" /\ x.outer = outer
  BY <1>3, <1>4, <1>5 DEF Finished, Positions, Position
<1>7. PICK m \in Nat : Verdict(Ok, Walk(f)[m]) /\ Left(summary, Walk(f)[m])
  <2>1. answer["scan"] = Ok
    BY <1>1 DEF OwnedFollows
  <2> QED BY <1>1, <1>3, <2>1 DEF ScanFollows
<1>8. PICK y : y = Walk(f)[m] /\ Verdict(Ok, y) /\ Left(summary, y)
  BY <1>7
<1>9. x = y
  <2>1. Stopped(x) /\ Stopped(y) /\ n + 1 \in Nat
    BY <1>6, <1>8, AnswersDiffer DEF Verdict, Stopped
  <2> QED BY <1>3, <1>8, <2>1, WalkEnds
<1>10. owned.consumed = AbsoluteOffset(outer) /\ owned.trailing = Remaining(outer)
  BY <1>4, <1>6, <1>8, <1>9 DEF Left, TakenOver
<1>11. IsCursor(outer) /\ outer.data = file /\ outer.base = 0
  BY <1>3, <1>4, PositionFields DEF InBytes
<1>12. PICK k, l \in Nat : /\ k = outer.position /\ l = Len(file)
                           /\ AbsoluteOffset(outer) = 0 + k /\ Remaining(outer) = l - k
  BY <1>1, <1>11, LenProperties DEF IsCursor, AbsoluteOffset, Remaining
<1>13. (0 + k) + (l - k) = l
  OBVIOUS
<1>14. owned.consumed + owned.trailing = Len(file)
  BY <1>10, <1>12, <1>13
<1>15. Accounts(file, owned, owned.consumed)
  BY <1>1, <1>4, <1>10 DEF WalkedBytes
<1> QED BY <1>14, <1>15 DEF ConsumedBytes

(* Every step keeps the account.                                           *)
LEMMA BytesKept ==
    ASSUME IInv, Next, StoreInv, BytesInv
    PROVE  BytesInv'
<1>1. owned' \in OwnedFiles /\ file' = file /\ turn \in Decoders /\ Typed
  BY NextIInv, SameFile, StepOnWalk DEF IInv, Typed
<1>2. CASE turn' = turn
  <2>1. answer' = answer
    <3>1. PICK n \in Nat : Moved(Walk(file)[n + 1])
      BY <1>2, GoesOn
    <3> QED BY <3>1 DEF Moved
  <2>2. CASE turn = "owned"
    <3>1. answer["owned"] # Ok
      BY <2>2, AnswersDiffer DEF IInv, Follow, OwnedFollows
    <3>2. WalkedBytes'
      BY <1>1, <1>2, <2>2, OwnedWalks
    <3> QED BY <2>1, <3>1, <3>2 DEF BytesInv
  <2>3. CASE turn # "owned"
    <3>1. owned' = owned
      BY <2>3, OwnedRests DEF Dropped
    <3>2. ConsumedBytes => ConsumedBytes'
      BY <1>1, <3>1 DEF ConsumedBytes
    <3> QED BY <1>2, <2>1, <2>3, <3>2 DEF BytesInv
  <2> QED BY <2>2, <2>3
<1>3. CASE turn' # turn
  <2>1. PICK w, x : Moved(x) \/ Stops(w, x) \/ StopsBadly(w, x) \/ StopsLarge(x) \/ EndOfFile
    BY StepOnWalk
  <2>2. ~Moved(x)
    BY <1>3 DEF Moved
  <2>3. PICK a : Answer(a)
    BY <2>1, <2>2 DEF Stops, StopsBadly, StopsLarge, EndOfFile
  <2>4. stage' = "header" /\ outer' = CursorAt(file, 0) /\ answer' = [answer EXCEPT ![turn] = a]
    BY <2>3 DEF Answer
  <2>5. WalkedBytes'
    BY <1>1, <2>4 DEF WalkedBytes
  <2>6. CASE Dropped
    <3>1. answer'["owned"] # Ok
      BY <2>6, AnswersDiffer DEF Dropped
    <3> QED BY <2>5, <3>1 DEF BytesInv
  <2>7. CASE owned' = owned
    <3>1. ConsumedBytes => ConsumedBytes'
      BY <1>1, <2>7 DEF ConsumedBytes
    <3>2. CASE turn = "owned" /\ EndOfFile
      BY <2>5, <3>1, <3>2, OwnedEnds DEF BytesInv
    <3>3. CASE turn = "owned" /\ ~EndOfFile
      <4>1. PICK r : TooLarge(r) /\ Answer(r)
        BY <2>1, <2>2, <3>3 DEF Stops, StopsBadly, StopsLarge
      <4>2. answer'[turn] = r /\ r.ok = FALSE
        <5>1. r.ok = FALSE
          BY <4>1 DEF TooLarge
        <5> QED BY <1>1, <4>1, <5>1, Answered
      <4> QED BY <2>5, <3>3, <4>2, AnswersDiffer DEF BytesInv
    <3>4. CASE turn # "owned"
      <4>1. answer'["owned"] = answer["owned"]
        BY <2>4, <3>4
      <4> QED BY <2>5, <3>1, <4>1 DEF BytesInv
    <3> QED BY <3>2, <3>3, <3>4
  <2> QED BY <1>3, <2>6, <2>7, OwnedRests
<1> QED BY <1>2, <1>3

(* Nothing is walked over at the start.                                    *)
LEMMA BytesBegin == Init => BytesInv
<1> SUFFICES ASSUME Init
             PROVE  BytesInv
  OBVIOUS
<1>1. turn = "scan" /\ answer["owned"] = Pending
  BY DEF Init, Decoders
<1> QED BY <1>1, AnswersDiffer DEF BytesInv

(* The account is that of the whole file.                                  *)
LEMMA AccountFollows == IInv /\ BytesInv => BytesAccounted
<1> SUFFICES ASSUME IInv, BytesInv, answer["owned"] = Ok
             PROVE  BytesAccounted
  BY DEF BytesAccounted
<1>1. ConsumedBytes
  BY DEF BytesInv
<1>2. TracksOf(owned) = [t \in DOMAIN owned.tracks |-> TrackEvents(owned.tracks[t])]
  BY DEF TracksOf, TrackEvents
<1>3. \A s : ChunkIn(file, s) = ChunkOf(s)
  BY DEF ChunkIn, ChunkOf, BytesOf
<1>4. [t \in DOMAIN TracksOf(owned) |-> ChunkIn(file, TracksOf(owned)[t])] =
      [t \in DOMAIN owned.tracks |-> ChunkOf(TrackEvents(owned.tracks[t]))]
  BY <1>2, <1>3
<1>5. ChunksIn(file, owned) =
         FlattenSeq([t \in DOMAIN owned.tracks |-> ChunkOf(TrackEvents(owned.tracks[t]))])
  BY <1>4 DEF ChunksIn
<1> QED BY <1>1, <1>5 DEF BytesAccounted, ConsumedBytes, Accounts, HeaderIn

(* Nothing of an accepted file is skipped or read twice, whatever the file *)
(* holds: its header, the chunks of its tracks with the bytes of their     *)
(* records, and what is left over make it up (parse_smf, which walks the   *)
(* chunks without the checks of scan_smf).                                 *)
THEOREM NothingSkipped == Spec => []BytesAccounted
<1>1. IInv /\ StoreInv /\ BytesInv /\ [Next]_vars => BytesInv'
  <2>1. ASSUME BytesInv, UNCHANGED vars
        PROVE  BytesInv'
    BY <2>1 DEF BytesInv, WalkedBytes, ConsumedBytes, Accounts, ChunksIn, TracksOf, Opens, OpenAccounts,
                vars, reader, chunk, results
  <2> QED BY <2>1, BytesKept
<1> QED BY <1>1, BytesBegin, AlwaysIInv, AlwaysStored, AccountFollows, PTL DEF Spec

================================================================================
