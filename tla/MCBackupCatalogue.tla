--------------------------- MODULE MCBackupCatalogue ---------------------------
(* Instances of BackupCatalogue for TLC. *)
EXTENDS BackupCatalogue, TLC

Symmetry == Permutations(Backup) \cup Permutations(Client) \cup Permutations(Part)
=============================================================================
