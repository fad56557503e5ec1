------------------------ MODULE MCFileScheduleManager ------------------------
(* Instances of FileScheduleManager for TLC. *)
EXTENDS FileScheduleManager

CONSTANTS p1, p2, o1, o2, g1

Symmetry == Permutations(Goroutine) \cup Permutations(Op)
=============================================================================
