-------------------------- MODULE MCPaymentService --------------------------
(* Constants for the model checking of PaymentService.                     *)
EXTENDS PaymentService, TLC

\* No definition names a request, a reader, an application, an order, a key or
\* a body, so each of these sets may be permuted.
Symmetry ==
    Permutations(Requests) \cup Permutations(Readers) \cup Permutations(Apps)
        \cup Permutations(Orders) \cup Permutations(Keys) \cup Permutations(Bodies)
=============================================================================
