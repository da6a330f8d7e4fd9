-------------------------- MODULE MCSchemaMigration ---------------------------
(* An instance of SchemaMigration for TLC. *)
EXTENDS SchemaMigrationProofs

Versions == 0 .. 3
==============================================================================
