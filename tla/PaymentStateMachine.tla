------------------------ MODULE PaymentStateMachine ------------------------
(***************************************************************************)
(* The pure part of the payment core: the statuses a payment and a         *)
(* provider operation go through, the table of legal status changes, and   *)
(* the mapping of a provider status onto an internal one                   *)
(* (internal/payments/state_machine.go, models.go, validation.go).         *)
(***************************************************************************)

\* models.go: the values of the column payments.status.
Statuses ==
    {"created", "creating", "creation_unknown", "pending", "succeeded", "canceled"}

\* Status.Terminal: no further change is possible.
Terminal(status) == status \in {"succeeded", "canceled"}

\* models.go: the values of the column payment_operations.status that this
\* version of the service writes (needs_review is reserved for the worker).
OperationStatuses == {"pending", "in_progress", "succeeded", "failed", "unknown"}

\* An operation payment_operations_open_idx still lists.
OpenOperation(status) == status \in {"pending", "in_progress", "unknown"}

\* allowedTransitions, the only place that decides which changes are legal.
AllowedTransitions ==
    [s \in Statuses |->
        CASE s = "created"          -> {"creating", "canceled"}
          [] s = "creating"         -> {"pending", "creation_unknown", "canceled"}
          [] s = "creation_unknown" -> {"pending", "succeeded", "canceled"}
          [] s = "pending"          -> {"succeeded", "canceled"}
          [] OTHER                  -> {}]

\* Mutant: the table lacks the way to canceled.
CanTransitionNeverCancels(from, to) ==
    from \in Statuses /\ to \in AllowedTransitions[from] \ {"canceled"}

CanTransition(from, to) == from \in Statuses /\ to \in AllowedTransitions[from]

\* The normalised statuses a provider payment can have (providers.PaymentStatus).
ProviderStatuses == {"pending", "succeeded", "canceled"}

\* internalStatus: the two vocabularies coincide on the recognised statuses.
InternalStatus(providerStatus) ==
    IF providerStatus \in ProviderStatuses THEN providerStatus ELSE ""
=============================================================================
