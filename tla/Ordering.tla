------------------------------- MODULE Ordering --------------------------------
(***************************************************************************)
(* Reading a finite set of positions in increasing order.  The code keeps  *)
(* order wherever it drops or regroups elements (compaction of note rows,  *)
(* dense program order, appended columns); a kept subsequence is written   *)
(* here as the positions that stay, in order.                              *)
(***************************************************************************)
EXTENDS Integers, FiniteSets

(* The number of members of S up to i: the place of i in S. *)
Rank(S, i) == Cardinality({j \in S : j <= i})

(* The members of S in increasing order, as a sequence. *)
InOrder(S) == [k \in 1..Cardinality(S) |-> CHOOSE i \in S : Rank(S, i) = k]

(* The elements of sequence s at the positions of S, in order. *)
Kept(s, S) == LET at == InOrder(S) IN [k \in DOMAIN at |-> s[at[k]]]

================================================================================
