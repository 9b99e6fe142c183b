----------------------------- MODULE MCScoreAssembly ---------------------------
(***************************************************************************)
(* ScoreRecords for TLC: files of up to two tracks over four alphabets.    *)
(* A time signature of exponent 64 and a tempo of two bytes are malformed; *)
(* two delta times of 9 are too late for u64.                              *)
(***************************************************************************)
EXTENDS ScoreRecords

At(delta, event) == [delta |-> delta, event |-> event]
Meta2(kind, payload) == [kind |-> kind, payload |-> payload]
Words(kind, text) == [kind |-> kind, text |-> text]
On(c) == [kind |-> "note_on", channel |-> c, pitch |-> 60, velocity |-> 64]
Off(c) == [kind |-> "note_off", channel |-> c, pitch |-> 60]
Pedal(value) == [kind |-> "control", channel |-> 0, number |-> 64, value |-> value]
PC(c, p) == [kind |-> "program", channel |-> c, program |-> p]

(* Two tempos, at the same tick or one later. *)
Tempos == {At(d, Meta2("tempo", b)) : d \in {0, 1}, b \in {<<7, 161, 32>>, <<0, 1, 255>>}}

(* One meta event of every kind, and the malformed ones. *)
Metas ==
    {At(0, Meta2("time_signature", <<6, 3, 24, 8>>)), At(1, Meta2("time_signature", <<4, 2, 24, 8>>)),
     At(0, Meta2("key_signature", <<253, 1>>)), At(1, Meta2("key_signature", <<2, 0>>)),
     At(1, Words("marker", <<1, 2>>)), At(0, Words("marker", <<3>>)), At(0, Words("marker", <<>>)),
     At(0, Meta2("time_signature", <<4, 64, 24, 8>>)), At(9, Meta2("tempo", <<1, 2>>)),
     At(9, Meta2("tempo", <<1, 2, 3>>))}

(* Texts among notes on a melodic and on the drum channel. *)
Texts ==
    {At(0, Words("name", <<1>>)), At(0, Words("name", <<2, 3>>)), At(0, Words("name", <<>>)),
     At(1, Words("lyric", <<4, 5>>)), At(0, Words("lyric", <<>>)), At(0, Words("marker", <<6>>)),
     At(1, On(9)), At(1, Off(9)), At(0, On(0)), At(1, Off(0))}

(* What a source track must not leave behind: programs, pedals, open notes. *)
Leftovers ==
    {At(0, On(0)), At(9, Off(0)), At(1, PC(0, 1)), At(0, Pedal(127)), At(1, Pedal(0)),
     At(0, Words("name", <<1>>))}

(* The files of one or two tracks with n events in all. *)
Over(letters, n) ==
    LET Track(k) == [1..k -> letters]
    IN  {<<t>> : t \in Track(n)} \cup
        UNION {{<<first, second>> : first \in Track(k), second \in Track(n - k)} : k \in 0..n}

MCFiles ==
    {<<>>} \cup UNION {Over(Tempos, n) : n \in 0..4} \cup UNION {Over(Metas, n) : n \in 1..3}
    \cup UNION {Over(Texts, n) : n \in 1..3} \cup UNION {Over(Leftovers, n) : n \in 1..4}

MCEvents == {l.event : l \in Tempos \cup Metas \cup Texts \cup Leftovers}

================================================================================
