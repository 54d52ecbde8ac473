-------------------------- MODULE MCBackupLifecycle --------------------------
(* Two rows: one that is dispatched, one that /upload/prepare may create in *)
(* its place.  The counterexample runs need the dispatched row alone.       *)
EXTENDS BackupLifecycle

CONSTANTS b1, b2

MCBackups == {b1, b2}
MCSpares  == {b2}

MCOneBackup == {b1}
MCNoSpares  == {}
=============================================================================
