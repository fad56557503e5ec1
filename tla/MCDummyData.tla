----------------------------- MODULE MCDummyData -----------------------------
(* Instances of DummyData for TLC. *)
EXTENDS DummyData
=============================================================================
