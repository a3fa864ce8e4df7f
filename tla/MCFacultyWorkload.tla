------------------------- MODULE MCFacultyWorkload -------------------------
(***************************************************************************)
(* Values for FacultyWorkload's constants: professor p1 is scheduled for   *)
(* every class, the others are colleagues who can be substitutes.  Threads *)
(* are interchangeable, and so are the colleagues.                         *)
(***************************************************************************)
EXTENDS FacultyWorkload, TLC

CONSTANT p1

MCPrimary == [c \in Classes |-> p1]
Symmetric == Permutations(Requests) \cup Permutations(Professors \ {p1})
=============================================================================
