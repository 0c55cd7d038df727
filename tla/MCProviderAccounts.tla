------------------------- MODULE MCProviderAccounts -------------------------
(* Constants for the model checking of ProviderAccounts.                   *)
EXTENDS ProviderAccounts, TLC

\* No definition names a handler, an application, a shop or a secret.
Symmetry ==
    Permutations(Attachers) \cup Permutations(Apps) \cup Permutations(Shops)
        \cup Permutations(Secrets)
=============================================================================
