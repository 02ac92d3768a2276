---------------------------- MODULE MCStageHunks ----------------------------
(* Instances of StageHunks for TLC: a file with the same two lines in two
   places, between which a third may come, and a short second file. *)
EXTENDS StageHunks

CONSTANTS a, b

MCLine == 1 .. 13
MCFile == {a, b}
MCFileOf == [l \in MCLine |-> IF l = 13 THEN b ELSE a]
MCText == <<"A", "x", "B", "D", "E", "C", "F", "G", "A", "x", "B", "H", "y">>
MCAnchor == MCLine \ {2, 6, 10, 13}
MCHead == [f \in MCFile |-> IF f = a THEN MCAnchor \cup {6} ELSE {}]
MCScopes == {MCFile, {a}}
=============================================================================
