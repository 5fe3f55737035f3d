---------------------------- MODULE MCMigrations ----------------------------
(* The revisions of alembic/versions, one row at a time, all paths up and  *)
(* down.                                                                   *)
EXTENDS Migrations
=============================================================================
