---------------------------- MODULE MCMigrations ----------------------------
(* An instance of Migrations for TLC.                                      *)
EXTENDS Migrations

\* Not set, the first schema, and one in between.
MCVersions == {Null, 1, 4}
=============================================================================
