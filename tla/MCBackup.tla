------------------------------ MODULE MCBackup ------------------------------
(* BackupController with two workers and two backups of one cluster. *)
EXTENDS BackupController, TLC

CONSTANTS b1, b2

BackupSymmetry == Permutations(Backup)

=============================================================================
