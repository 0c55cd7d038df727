---------------------------- MODULE ProviderCall ----------------------------
(***************************************************************************)
(* What the payments service relies on when it asks a provider to create a *)
(* payment (providers/provider.go, providers/errors.go): an accepted call  *)
(* has made the payment, a refused one has not made it and never will, and *)
(* any other outcome says nothing.                                         *)
(***************************************************************************)
CONSTANT Callers

VARIABLES
    outcome,   \* outcome[c]: what c knows of its last call
    made       \* made[c]: the provider holds the payment of that call

vars == <<outcome, made>>

Outcomes == {"none", "calling", "accepted", "refused", "unknown"}

Init ==
    /\ outcome = [c \in Callers |-> "none"]
    /\ made = [c \in Callers |-> FALSE]

\* A call for a new payment, under a provider key of its own.
Call(c) ==
    /\ outcome[c] # "calling"
    /\ outcome' = [outcome EXCEPT ![c] = "calling"]
    /\ made' = [made EXCEPT ![c] = FALSE]

\* The caller turns to something else.
Forget(c) ==
    /\ outcome[c] # "calling"
    /\ outcome' = [outcome EXCEPT ![c] = "none"]
    /\ made' = [made EXCEPT ![c] = FALSE]

\* The provider may carry a call out long after its caller gave up.
Make(c) ==
    /\ outcome[c] = "unknown"
    /\ ~made[c]
    /\ made' = [made EXCEPT ![c] = TRUE]
    /\ UNCHANGED outcome

\* The provider carries the call out, or not, and the caller learns what it can.
Answer(c) ==
    /\ outcome[c] = "calling"
    /\ \E m \in BOOLEAN, o \in {"accepted", "refused", "unknown"} :
          /\ o = "accepted" => m
          /\ o = "refused" => ~m
          /\ outcome' = [outcome EXCEPT ![c] = o]
          /\ made' = [made EXCEPT ![c] = m]

Next == \E c \in Callers : Call(c) \/ Forget(c) \/ Make(c) \/ Answer(c)

Spec == Init /\ [][Next]_vars
=============================================================================
