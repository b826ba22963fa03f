-------------------------- MODULE MCStatusPipeline --------------------------
(***************************************************************************)
(* StatusPipeline on small instances.                                      *)
(***************************************************************************)
EXTENDS StatusPipeline, TLC

\* The members of a set of pages, of logins or of chats are interchangeable.
Symmetry ==
    Permutations(SeqPages) \cup Permutations(RedirectPages)
        \cup Permutations(StorePages) \cup Permutations(Logins)
        \cup Permutations(Chats)

=============================================================================
