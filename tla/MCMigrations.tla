----------------------------- MODULE MCMigrations ------------------------------
(* The five versions of schema.rs: v3 and v5 add a column.                 *)
EXTENDS Migrations
MCAlters == {3, 5}
================================================================================
