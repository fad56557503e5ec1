---------------------------- MODULE MCExecTracker ----------------------------
(* Instances of ExecTracker for TLC. *)
EXTENDS ExecTracker, TLC

CONSTANTS o1, o2, t1, t2

Symmetry == Permutations(Op) \cup Permutations(Trace)
=============================================================================
