---------------------------- MODULE MCOscTransfer ----------------------------
(* Instances of OscTransfer for TLC. *)
EXTENDS OscTransfer, TLC

CONSTANTS k1, k2, w1, w2, name

\* Two keys that differ only in case.
TwoCases == k1 :> name @@ k2 :> name
OneKey == k1 :> name
=============================================================================
