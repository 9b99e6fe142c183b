------------------------------ MODULE MCTextArena ------------------------------
(* Characters of one, two and three bytes, and the bytes they are made of. *)
EXTENDS TextArena

MCChars == {<<65>>, <<195, 169>>, <<226, 169, 169>>}
MCBytes == {65, 169, 195, 226}

================================================================================
