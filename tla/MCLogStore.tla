------------------------------ MODULE MCLogStore ------------------------------
(***************************************************************************)
(* LogStore on small instances.                                            *)
(***************************************************************************)
EXTENDS LogStore

=============================================================================
