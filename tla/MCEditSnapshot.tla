---------------------------- MODULE MCEditSnapshot ----------------------------
(* Instances of EditSnapshot for TLC. *)
EXTENDS EditSnapshot, TLC

CONSTANTS Theirs, Ours

\* The calls of the session bring one text, other programs restore another.
MCText == {Theirs, Ours}
MCTextOf == [c \in Other \cup Outside |-> IF c \in Other THEN Ours ELSE Theirs]

\* Calls of a kind are alike.
Symmetry == Permutations(Read) \cup Permutations(Edit) \cup Permutations(Other)
=============================================================================
