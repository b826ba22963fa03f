----------------------------- MODULE MCSqliteWal -----------------------------
(***************************************************************************)
(* SqliteWal on small instances.                                           *)
(***************************************************************************)
EXTENDS SqliteWal
TwoPages == {1, 2}
=============================================================================
