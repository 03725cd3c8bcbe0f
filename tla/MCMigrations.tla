---------------------------- MODULE MCMigrations ----------------------------
(* The fourteen revisions, as they are. *)
EXTENDS Migrations

=============================================================================
