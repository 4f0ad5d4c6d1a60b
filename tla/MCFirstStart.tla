---------------------------- MODULE MCFirstStart ----------------------------
(***************************************************************************)
(* Values of the constants of FirstStart for TLC.                          *)
(***************************************************************************)
EXTENDS FirstStart

\* _migration_0 has five tables and three indexes, _migration_1 one column.
MCStatements == <<8, 1>>

=============================================================================
