------------------------------ MODULE MCFrontEnd ------------------------------
(***************************************************************************)
(* FrontEnd on small instances.                                            *)
(***************************************************************************)
EXTENDS FrontEnd

=============================================================================
