----------------------- MODULE MCProviderConnections -----------------------
(* Constants for the model checking of ProviderConnections: 5 kopecks need *)
(* a leading zero, and 1.50 may come back as 1.5 or as 1.500.              *)
EXTENDS ProviderConnections

MCAmounts == {5, 150}
=============================================================================
