---------------------------- MODULE MCMigrations ----------------------------
(* A small instance of Migrations: two servers, a run and a revert of the     *)
(* migration runner on one database.                                          *)
EXTENDS Migrations

CONSTANTS s1, s2, run, revert
=============================================================================
