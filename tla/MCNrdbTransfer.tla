---------------------------- MODULE MCNrdbTransfer ----------------------------
(* Instances of NrdbTransfer for TLC. *)
EXTENDS NrdbTransfer, TLC

CONSTANTS p1, p2, x, y, a, b

\* Each engine as a source and as a target.
Ring == {<<"aws", "ncp">>, <<"ncp", "gcp">>, <<"gcp", "alibaba">>, <<"alibaba", "aws">>}
ToNcp == {<<"aws", "ncp">>}
ToDynamo == {<<"ncp", "aws">>}

\* A table with two documents beside an empty one.
TwoTables == {x :> {a, b} @@ y :> {}}

OneSource  == {x :> {a}}

AllOps == {"migrate", "backup", "restore", "generate", "delete", "create", "drop"}
Symmetry == Permutations(Task) \cup Permutations({a, b})
=============================================================================
