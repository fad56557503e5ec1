----------------------------- MODULE MCDbInstance -----------------------------
(* Instances of DbInstance for TLC. *)
EXTENDS DbInstance, TLC

CONSTANTS p1, p2, i1, i2, i3, n1

OnlyAlibabaRds == {Rdb("alibaba")}

\* A third row of one name needs a third instance, which AWS shows for all, as the
\* check and the insert are the same.  Of Alibaba RDS, whose goroutine has most to do,
\* two instances are explored without a crash, and one with it.
FewInstances ==
    Cardinality(Known) <= CASE kind = Rdb("aws")   -> 3
                            [] HasFlags /\ crashed -> 1
                            [] OTHER               -> 2

Symmetry       == Permutations(Request) \cup Permutations(Id)
=============================================================================
