--------------------------- MODULE MCApplications ---------------------------
(***************************************************************************)
(* Applications with its model values interchangeable, for TLC.            *)
(***************************************************************************)
EXTENDS Applications, TLC

Symmetry ==
    Permutations(Requests) \cup Permutations(Clients) \cup Permutations(Names)
        \cup Permutations(Suffixes) \cup Permutations(Prefixes)
=============================================================================
