-------------------------- MODULE MCStorageMigration --------------------------
(***************************************************************************)
(* A small instance of StorageMigration for TLC.                            *)
(***************************************************************************)
EXTENDS StorageMigration
=============================================================================
