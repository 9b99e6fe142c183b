----------------------------- MODULE MCScoreParser -----------------------------
(***************************************************************************)
(* Files and limits for TLC: every pair of tracks of up to three and one   *)
(* items, whole; and every header, chunk and trailing-byte variation of    *)
(* files with short tracks.                                                *)
(***************************************************************************)
EXTENDS ScoreParser, SequencesExt

It(kind, delta, body, text) == [kind |-> kind, delta |-> delta, body |-> body, text |-> text]

MCItems ==
    {It("note", 1, 3, 0), It("other", 2, 3, 0), It("text", 1, 5, 2),
     It("fault", 1, 2, 0), It("fault", 1, 3, 1), It("eot", 1, 3, 0), It("eot", 1, 4, 1)}

File(header, tracks, extra, badTag, cut, trailing) ==
    [header |-> header, tracks |-> tracks, declared |-> Len(tracks) + extra,
     badTag |-> badTag, cut |-> cut, trailing |-> trailing]

Tracks(n) == {[items |-> s] : s \in BoundedSeq(MCItems, n)}

Headers == {"ok", "tag", "short", "format", "division"}

MCFiles ==
    {File("ok", <<t, u>>, 0, 0, 0, 0) : t \in Tracks(3), u \in Tracks(1)}
    \cup {File(h, <<t>>, extra, badTag, 0, trailing) :
             h \in Headers, t \in Tracks(2), extra \in {0, 1}, badTag \in {0, 1}, trailing \in {0, 2}}
    \cup {File(h, <<t>>, extra, badTag, 1, 0) :
             h \in Headers, t \in Tracks(2) \ {[items |-> <<>>]}, extra \in {0, 1}, badTag \in {0, 1}}

(* Tight limits of each kind, and loose ones that only the longest exceed. *)
Limit(input, tracks, bytes, ev, notes, text) ==
    [inputBytes |-> input, sourceTracks |-> tracks, trackBytes |-> bytes,
     events |-> ev, noteStarts |-> notes, textBytes |-> text]

MCLimits ==
    {Limit(60, 2, 20, 3, 1, 2), Limit(40, 1, 8, 9, 9, 9), Limit(60, 2, 20, 9, 1, 3)}

================================================================================
