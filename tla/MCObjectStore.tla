----------------------------- MODULE MCObjectStore -----------------------------
(* Instances of ObjectStore for TLC. *)
EXTENDS ObjectStore, TLC

Symmetry == Permutations(Client) \cup Permutations(Key) \cup Permutations(Ns)
================================================================================
