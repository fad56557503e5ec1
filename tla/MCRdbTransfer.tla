----------------------------- MODULE MCRdbTransfer -----------------------------
(* Instances of RdbTransfer for TLC. *)
EXTENDS RdbTransfer, TLC

CONSTANTS p1, p2, d1, d2, t1, t2, r1, r2, garbled

\* The source has both tables or the first.
SomeTables == {{t1}, {t1, t2}}
OnlyTable  == {{t1}}

Plain     == (r1 :> r1)
TwoPlain  == (r1 :> r1) @@ (r2 :> r2)
Backslash == (r1 :> garbled)

AllOps    == {"migrate", "backup", "restore", "generate", "delete"}
Symmetry  == Permutations(Task)
=============================================================================
