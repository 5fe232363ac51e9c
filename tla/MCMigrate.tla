----------------------------- MODULE MCMigrate ------------------------------
(***************************************************************************)
(* Two databases, three files, one of which could be run twice.            *)
(***************************************************************************)
EXTENDS Migrate

CONSTANTS init, timezone, seed

MCDatabase == <<"technician", "bay">>
MCFiles == <<<<init, timezone, seed>>, <<init, seed>>>>

=============================================================================
