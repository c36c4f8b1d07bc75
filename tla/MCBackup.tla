------------------------------ MODULE MCBackup ------------------------------
(***************************************************************************)
(* The test file and another one, two writes and two ticks: a file can     *)
(* change before, during and after its upload, in another tick or in the   *)
(* same one, and be deleted and made again; one restart.                   *)
(***************************************************************************)
EXTENDS Backup
=============================================================================
