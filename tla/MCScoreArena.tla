------------------------------ MODULE MCScoreArena -----------------------------
(* Groups for TLC: up to three of them, some without notes or controls;    *)
(* with U32Max = 4 some of the files overflow in either column.            *)
EXTENDS ScoreArena, TLC

MCColumns == <<"controls", "lyrics">>
Shape(n, c, l) == ("notes" :> n) @@ ("controls" :> c) @@ ("lyrics" :> l)
MCInputs == BoundedSeq({Shape(1, 0, 1), Shape(0, 2, 0), Shape(2, 1, 2)}, 3)

================================================================================
