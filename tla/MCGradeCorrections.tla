------------------------- MODULE MCGradeCorrections -------------------------
(***************************************************************************)
(* GradeCorrections with interchangeable request threads and grade strings.*)
(***************************************************************************)
EXTENDS GradeCorrections, TLC

Symmetric == Permutations(Requests) \cup Permutations(Values)
=============================================================================
