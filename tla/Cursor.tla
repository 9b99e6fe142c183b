--------------------------------- MODULE Cursor --------------------------------
(***************************************************************************)
(* The reader all decoders share: a position in a slice of bytes, and the  *)
(* offset of the slice in the file (base).  A read answers the value and   *)
(* the cursor after it, or the error and its absolute offset.              *)
(***************************************************************************)
EXTENDS Integers, SequencesExt

CursorAt(data, base) == [data |-> data, position |-> 0, base |-> base]
AbsoluteOffset(c) == c.base + c.position
Remaining(c) == Len(c.data) - c.position

Read(v, c) == [ok |-> TRUE, value |-> v, cursor |-> c]
Error(kind, at) == [ok |-> FALSE, kind |-> kind, offset |-> at]

(* The ? of the code: a read goes on with its result, an error is final. *)
Then(r, f(_)) == IF r.ok THEN f(r) ELSE r

ReadU8(c) ==
    IF Remaining(c) = 0 THEN Error("UnexpectedEnd", AbsoluteOffset(c))
    ELSE Read(c.data[c.position + 1], [c EXCEPT !.position = @ + 1])

(* take: a slice, or nothing is consumed. *)
Take(c, size) ==
    IF size > Remaining(c) THEN Error("UnexpectedEnd", AbsoluteOffset(c))
    ELSE Read(SubSeq(c.data, c.position + 1, c.position + size),
              [c EXCEPT !.position = @ + size])

(* The number that digits spell, the most significant one first. *)
Spelled(digits, base) ==
    LET value[n \in 0..Len(digits)] == IF n = 0 THEN 0 ELSE value[n - 1] * base + digits[n]
    IN  value[Len(digits)]

(* The fixed-width integers of headers are big-endian. *)
BigEndian(bytes) == Spelled(bytes, 256)
ReadInteger(c, width) == Then(Take(c, width), LAMBDA b : Read(BigEndian(b.value), b.cursor))
ReadU16(c) == ReadInteger(c, 2)
ReadU32(c) == ReadInteger(c, 4)
ReadTag(c) == Take(c, 4)

(* Mutant: the bytes of a chunk count from the chunk, not from the file. *)
TakeCursorFromZero(c, size) == Then(Take(c, size), LAMBDA b : Read(CursorAt(b.value, 0), b.cursor))

(* A cursor of its own over the next bytes, which this one steps over. *)
TakeCursor(c, size) ==
    Then(Take(c, size), LAMBDA b : Read(CursorAt(b.value, AbsoluteOffset(c)), b.cursor))

(* A variable-length quantity has at most four bytes. *)
VlqMax == 4

(* Seven bits a byte, most significant first, the last byte below 0x80. *)
ReadVlq(c) ==
    LET Byte(i) == c.data[c.position + i]
        available == IF Remaining(c) < VlqMax THEN Remaining(c) ELSE VlqMax
        last == {i \in 1..available : Byte(i) < 128}
        first == CHOOSE i \in last : \A j \in last : i <= j
        value == Spelled([i \in 1..first |-> Byte(i) % 128], 128)
    IN  IF last # {} THEN Read(value, [c EXCEPT !.position = @ + first])
        ELSE IF available < VlqMax THEN Error("UnexpectedEnd", AbsoluteOffset(c) + available)
        ELSE Error("VariableLengthQuantityTooLong", AbsoluteOffset(c))

(* validate_data_byte: below 0x80, or refused where it was read. *)
ValidDataByte(byte, at, c) ==
    IF byte < 128 THEN Read(byte, c) ELSE Error("InvalidDataByte", at)

================================================================================
