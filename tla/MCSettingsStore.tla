--------------------------- MODULE MCSettingsStore ---------------------------
(***************************************************************************)
(* SettingsStore on small instances.                                       *)
(***************************************************************************)
EXTENDS SettingsStore, TLC

\* Delayed stores are interchangeable, and so are threads of pages.
Symmetry == Permutations(Stores) \cup Permutations(Procs)

=============================================================================
