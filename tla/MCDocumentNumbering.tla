------------------------- MODULE MCDocumentNumbering -------------------------
(* Small instances of DocumentNumbering for TLC. *)
EXTENDS DocumentNumbering, TLC

Symmetry == Permutations(Candidates) \cup Permutations(Workers)
=============================================================================
