---------------------------- MODULE MCExecHistory ----------------------------
(* Instances of ExecHistory for TLC. *)
EXTENDS ExecHistory, TLC

CONSTANTS o1, o2, o3

Symmetry == Permutations(Op)
=============================================================================
