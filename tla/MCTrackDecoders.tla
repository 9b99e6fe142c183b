---------------------------- MODULE MCTrackDecoders ----------------------------
(***************************************************************************)
(* Files for TLC.  Whole files of one track of any few bytes of a small    *)
(* alphabet that has a data byte, a continuation or note-off byte, a       *)
(* one-byte channel message, a bad status, SysEx and meta; of one or two   *)
(* tracks put together from whole and cut events; and files whose header,  *)
(* chunk heads, declared tracks or length are wrong in every way the       *)
(* decoders tell apart, or right with bytes to spare; and files of one to  *)
(* seven notes, of long payloads and of texts, which pass the small U32Max *)
(* in records, payloads, rows and text.                                    *)
(***************************************************************************)
EXTENDS SmfRecords

MCBytes == {0, 1, 130, 192, 240, 241, 255}

MCPieces ==
    {<<0, 192, 1>>, <<0, 1>>, <<1, 130, 1, 1>>, <<0, 1, 1>>, <<0, 240, 1, 130>>, <<0, 247, 0>>,
     <<0, 240, 3, 240, 7, 247>>, <<0, 255, 1, 2, 7, 247>>, <<0, 255, 89, 2, 0, 0>>,
     <<0, 255, 89, 1, 0>>, <<0, 255, 88, 4, 4, 64, 24, 8>>, <<129, 0, 255, 47, 0>>,
     <<130, 130, 130, 130>>, <<0, 130, 130>>}

Joined(n) == {FlattenSeq(s) : s \in BoundedSeq(MCPieces, n)}

U32(n) == <<0, 0, n \div 256, n % 256>>
Header(size, format, tracks) ==
    Mthd \o U32(size) \o <<0, format, 0, tracks, 0, 96>> \o [i \in 1..(size - 6) |-> 130]
Chunk(tag, size, body) == tag \o U32(size) \o body
Whole(body) == Chunk(Mtrk, Len(body), body)

OneTrack(body) == Header(6, 0, 1) \o Whole(body)
TwoTracks(one, two) == Header(6, 1, 2) \o Whole(one) \o Whole(two)

(* Headers: of six and of seven bytes, of five, of another tag or format,  *)
(* of more bytes than there are, of none to three tracks, and one whose    *)
(* spare bytes look like a track.                                          *)
MCHeaders ==
    {Header(6, 1, 2), Header(7, 2, 2), Header(8, 0, 1), Header(6, 1, 0), Header(6, 1, 3),
     Header(6, 3, 2), Mthd \o <<0, 0, 0, 5, 0, 1, 0, 2, 0>>, Mtrk \o U32(6) \o <<0, 1, 0, 2, 0, 96>>,
     Mthd \o U32(14) \o <<0, 0, 0, 1, 0, 96>> \o Whole(<<>>),
     Mthd \o <<0, 0, 1, 0, 0, 1, 0, 2, 0, 96>>, Mthd \o <<127, 0, 0, 6, 0, 1, 0, 2, 0, 96>>}

MCChunks ==
    {<<>>, Whole(<<>>), Whole(<<0, 192, 1, 0, 1>>), Whole(<<0, 240, 1, 247>>), Chunk(Mthd, 1, <<0>>),
     Chunk(Mtrk, 3, <<0, 192, 1, 0>>), Chunk(Mtrk, 9, <<0, 192, 1>>)}

Framed == {h \o c \o d : h \in MCHeaders, c \in MCChunks, d \in MCChunks}
Truncated ==
    UNION {Prefixes(f) : f \in {Header(7, 1, 2) \o Whole(<<0, 192, 1, 0, 1>>)
                                  \o Whole(<<0, 255, 1, 2, 7, 7>>) \o <<9>>}}

Notes(n) == <<0, 145, 1, 1>> \o FlattenSeq([i \in 1..(n - 1) |-> <<0, 1, 1>>])
Texts == {<<0, 255, t, 2, 7, 200>> : t \in {3, 5, 6}} \cup {<<0, 255, 5, 0>>, <<0, 255, 127, 2, 7, 7>>}
Long == <<0, 247, 5, 1, 2, 3, 4, 5>>
Large ==
    {TwoTracks(Notes(n), e \o Notes(m)) : n \in 1..4, m \in 1..3, e \in {<<>>, Long, <<0, 241>>}}
    \cup {TwoTracks(a \o b, c \o d) : a, b, c, d \in Texts \cup {Long}}

MCFiles ==
    {OneTrack(t) : t \in BoundedSeq(MCBytes, 5) \cup Joined(3)}
    \cup {TwoTracks(t, u) : t \in Joined(1), u \in Joined(2)}
    \cup Framed \cup Truncated \cup Large

================================================================================
