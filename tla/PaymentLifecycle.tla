-------------------------- MODULE PaymentLifecycle --------------------------
(***************************************************************************)
(* What the payment core promises (docs/PAYMENT_LIFECYCLE.md §2-§4),       *)
(* without handlers, transactions or a provider: a payment belongs to one  *)
(* order and one client key, an order has one unfinished payment at most,  *)
(* a key is spent once, and a status only moves along the legal table.     *)
(***************************************************************************)
EXTENDS PaymentStateMachine

CONSTANTS
    Payments,          \* payment ids
    OrderIds,          \* the orders of every application
    KeyIds,            \* the client keys of every application
    None

VARIABLES
    order,             \* order[p]: the order p is an attempt for
    key,               \* key[p]: the client key p was created under
    status             \* status[p]: the status of p, "absent" before its creation

vars == <<order, key, status>>

Unfinished(p) == status[p] # "absent" /\ ~Terminal(status[p])

Init ==
    /\ order = [p \in Payments |-> None]
    /\ key = [p \in Payments |-> None]
    /\ status = [p \in Payments |-> "absent"]

Create(p, o, k) ==
    /\ status[p] = "absent"
    /\ \A q \in Payments : order[q] = o => ~Unfinished(q)
    /\ \A q \in Payments : key[q] # k
    /\ order' = [order EXCEPT ![p] = o]
    /\ key' = [key EXCEPT ![p] = k]
    /\ status' = [status EXCEPT ![p] = "created"]

Move(p, to) ==
    /\ CanTransition(status[p], to)
    /\ status' = [status EXCEPT ![p] = to]
    /\ UNCHANGED <<order, key>>

Next ==
    \E p \in Payments :
        \/ \E o \in OrderIds, k \in KeyIds : Create(p, o, k)
        \/ \E to \in Statuses : Move(p, to)

Spec == Init /\ [][Next]_vars
=============================================================================
