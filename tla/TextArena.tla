------------------------------- MODULE TextArena -------------------------------
(***************************************************************************)
(* push_text and the three meta events that call it: track name, lyric and *)
(* marker.  A text is appended to text_data piece by piece, valid runs as  *)
(* they are and each malformed sequence as U+FFFD, under the text budget   *)
(* of the policy, and is kept as a u32 range.                              *)
(*                                                                         *)
(* The encodings of characters are a constant: of UTF-8 nothing matters    *)
(* but that none of them begins another one.  A byte out of place makes a  *)
(* text malformed.                                                         *)
(***************************************************************************)
EXTENDS Integers, Sequences, FiniteSets, SequencesExt, FiniteSetsExt

CONSTANTS
    Bytes,      \* the bytes of payloads
    Chars,      \* the encodings of characters
    MaxBytes,   \* bound: bytes of all texts of a file together
    MaxTexts,   \* bound: texts of a file
    TextLimits, \* bound: values of max_text_bytes
    Unlimited,  \* the limit of the trusted parser, beyond anything reached
    U32Max      \* the greatest u32, made small

Begins(b, s) == Len(b) <= Len(s) /\ SubSeq(s, 1, Len(b)) = b

ASSUME CharsAssumption ==
    /\ Chars \subseteq Seq(Bytes) \ {<<>>}
    /\ \A c, d \in Chars : Begins(c, d) => c = d

ASSUME BoundAssumption ==
    /\ TextLimits \subseteq Nat /\ {Unlimited, U32Max, MaxBytes} \subseteq Nat

VARIABLES
    limit,      \* max_text_bytes
    textData,   \* text_data
    kind,       \* the meta event whose text is being pushed, or "none"
    source,     \* its payload
    start,      \* start of its range
    remaining,  \* what push_text has not looked at
    invalid,    \* length of the malformed sequence to replace, 0 for none
    kept,       \* the texts kept: kind, range, and payload as it came
    outcome     \* reading, or the error

vars == <<limit, textData, kind, source, start, remaining, invalid, kept, outcome>>

Replacement == <<239, 191, 189>>
Payloads == BoundedSeq(Bytes, MaxBytes)

--------------------------------------------------------------------------------
(* core::str::from_utf8. *)

(* The first n bytes are whole characters: they can be cut into them. *)
IsWhole(s, n) ==
    \E cuts \in SUBSET (0..n) :
        /\ 0 \in cuts
        /\ \A a \in cuts \ {n} :
               \E c \in Chars : a + Len(c) \in cuts /\ SubSeq(s, a + 1, a + Len(c)) = c

(* The longest such prefix. *)
ValidUpTo(s) == Max({n \in 0..Len(s) : IsWhole(s, n)})

IsBeginning(s) == \E c \in Chars : Begins(s, c)

(* The malformed sequence at p: the longest beginning of a character, one  *)
(* byte at least.                                                          *)
BrokenLen(s, p) ==
    LET begun == {n \in 1..(Len(s) - p + 1) : IsBeginning(SubSeq(s, p, p + n - 1))}
    IN  Max(begun \cup {1})

(* Mutant: a sequence cut by the end is as long as the whole text. *)
ErrorLenOfText(s) ==
    LET at == ValidUpTo(s)
    IN  IF IsBeginning(SubSeq(s, at + 1, Len(s))) THEN Len(s) ELSE 1

(* The malformed sequence behind the valid prefix.  Cut by the end of the  *)
(* text, error_len is None and everything left is taken, which is as long. *)
ErrorLen(s) == BrokenLen(s, ValidUpTo(s) + 1)

--------------------------------------------------------------------------------
Init ==
    /\ limit \in TextLimits \cup {Unlimited}
    /\ textData = <<>> /\ kind = "none" /\ source = <<>>
    /\ start = 0 /\ remaining = <<>> /\ invalid = 0
    /\ kept = <<>> /\ outcome = "reading"

Read == FoldLeft(LAMBDA n, k : n + Len(k.source), 0, kept)

Fail(error) ==
    /\ outcome' = error
    /\ UNCHANGED <<limit, textData, kind, source, start, remaining, invalid, kept>>

(* check_text_append *)
FitsBudget(appended) == Len(textData) <= limit /\ appended <= limit - Len(textData)

(* extend_from_slice *)
Extend(piece) == textData' = textData \o piece

(* meta: a name may be empty, a lyric without text is skipped; a marker is *)
(* treated like a lyric.                                                   *)
Begin(k, bytes) ==
    /\ outcome = "reading" /\ kind = "none"
    /\ Len(kept) < MaxTexts /\ Read + Len(bytes) <= MaxBytes
    /\ k = "name" \/ bytes # <<>>
    /\ IF Len(textData) > U32Max THEN Fail("SizeOverflow")
       ELSE /\ kind' = k /\ source' = bytes
            /\ start' = Len(textData) /\ remaining' = bytes /\ invalid' = 0
            /\ UNCHANGED <<limit, textData, kept, outcome>>

InPush == outcome = "reading" /\ kind # "none"

(* Mutant: the range starts where the last piece was put. *)
RangeOfLastPiece == [start |-> Len(textData) - Len(remaining), len |-> Len(remaining)]

TextRange == [start |-> start, len |-> Len(textData) + Len(remaining) - start]

(* The rest is valid: one append, and the range is published.              *)
PushRest ==
    /\ InPush /\ invalid = 0
    /\ ValidUpTo(remaining) = Len(remaining)
    /\ IF ~FitsBudget(Len(remaining)) THEN Fail("TextBytes")
       ELSE /\ Extend(remaining)
            /\ IF Len(textData') > U32Max
               THEN outcome' = "SizeOverflow" /\ UNCHANGED kept
               ELSE /\ kept' = Append(kept, [kind |-> kind, range |-> TextRange, source |-> source])
                    /\ UNCHANGED outcome
            /\ kind' = "none" /\ remaining' = <<>>
            /\ UNCHANGED <<limit, source, start, invalid>>

(* The valid run before a malformed sequence. *)
PushValid ==
    /\ InPush /\ invalid = 0
    /\ LET valid == ValidUpTo(remaining)
       IN  /\ valid < Len(remaining)
           /\ IF ~FitsBudget(valid) THEN Fail("TextBytes")
              ELSE /\ Extend(SubSeq(remaining, 1, valid))
                   /\ invalid' = ErrorLen(remaining)
                   /\ remaining' = SubSeq(remaining, valid + 1, Len(remaining))
                   /\ UNCHANGED <<limit, kind, source, start, kept, outcome>>

(* Mutant: the replacement is not charged. *)
FitsFree == TRUE

FitsReplacement == FitsBudget(Len(Replacement))

(* The replacement character in its place. *)
PushReplacement ==
    /\ InPush /\ invalid # 0
    /\ IF ~FitsReplacement THEN Fail("TextBytes")
       ELSE /\ Extend(Replacement)
            /\ remaining' = SubSeq(remaining, invalid + 1, Len(remaining))
            /\ invalid' = 0
            /\ UNCHANGED <<limit, kind, source, start, kept, outcome>>

Next ==
    \/ \E k \in {"name", "lyric"}, s \in Payloads : Begin(k, s)
    \/ PushRest \/ PushValid \/ PushReplacement

Spec == Init /\ [][Next]_vars

--------------------------------------------------------------------------------
TypeOK ==
    /\ kind \in {"none", "name", "lyric"}
    /\ outcome \in {"reading", "TextBytes", "SizeOverflow"}
    /\ start \in 0..U32Max /\ start <= Len(textData)
    /\ Len(remaining) <= Len(source) /\ invalid \in 0..Len(remaining)

CharsAt(s, p) == {c \in Chars : Begins(c, SubSeq(s, p, Len(s)))}

(* What becomes of the bytes at p, and how many of them: a character, or a *)
(* malformed sequence.                                                     *)
Piece(s, p) == IF CharsAt(s, p) = {} THEN Replacement ELSE CHOOSE c \in CharsAt(s, p) : TRUE
Taken(s, p) == IF CharsAt(s, p) = {} THEN BrokenLen(s, p) ELSE Len(Piece(s, p))

(* The text with each malformed sequence replaced, piece by piece: from[p] *)
(* is what the bytes from p on become.                                     *)
NormalFrom(s) ==
    LET from[p \in 1..(Len(s) + 1)] ==
            IF p > Len(s) THEN <<>> ELSE Piece(s, p) \o from[p + Taken(s, p)]
    IN  from

Normal(s) == NormalFrom(s)[1]

End(range) == range.start + range.len

(* Every text kept reads back its own payload, malformed sequences         *)
(* replaced; the ranges follow each other and u32 holds their ends         *)
(* (push_text, TickScore::text).                                           *)
TextsReadBack ==
    \A i \in DOMAIN kept :
        LET range == kept[i].range
        IN  /\ range.start = IF i = 1 THEN 0 ELSE End(kept[i - 1].range)
            /\ End(range) <= U32Max /\ End(range) <= Len(textData)
            /\ SubSeq(textData, range.start + 1, End(range)) = Normal(kept[i].source)

(* Normalized bytes of the texts kept, and of the one under way. *)
KeptBytes ==
    LET sum[n \in 0..Len(kept)] ==
            IF n = 0 THEN 0 ELSE sum[n - 1] + Len(Normal(kept[n].source))
    IN  sum[Len(kept)]

Wanted ==
    KeptBytes + (IF outcome = "reading" /\ kind = "none" THEN 0 ELSE Len(Normal(source)))

(* The budget is on normalized bytes, is never passed even between two     *)
(* pieces of a text, and refuses a text exactly when the whole of it does  *)
(* not fit (LimitedScoreParsePolicy::check_text_append in push_text).      *)
BudgetExact ==
    /\ Len(textData) <= limit
    /\ outcome = "TextBytes" => Wanted > limit
    /\ outcome = "reading" /\ kind = "none" => Wanted <= limit
    /\ outcome = "SizeOverflow" => Wanted <= limit /\ Wanted > U32Max

(* As documented: a text whose range would pass u32 fails before anything  *)
(* of it is appended.                                                      *)
OverflowBeforeAppend == Len(textData) <= U32Max

================================================================================
