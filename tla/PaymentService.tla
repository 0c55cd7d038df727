--------------------------- MODULE PaymentService ---------------------------
(***************************************************************************)
(* The payment core (internal/payments/service.go and the statements of    *)
(* db/queries/payments.sql it runs): concurrent create requests, status    *)
(* reads that refresh a payment from the provider, and the provider they   *)
(* call outside any transaction.                                           *)
(*                                                                         *)
(* One step is one SQL statement or one provider interaction of one        *)
(* handler, since PostgreSQL runs the service at READ COMMITTED: every     *)
(* statement sees what is committed when it runs.  A payment, its          *)
(* operation, its provider idempotency key and the provider payment made   *)
(* under that key are all named by the create request that generated them. *)
(***************************************************************************)
EXTENDS PaymentStateMachine, Integers, FiniteSets, FiniteSetsExt

CONSTANTS
    Requests,             \* create requests a client may send, each at most once
    Readers,              \* handlers of GET /v1/payments/{id}
    Apps, Orders, Keys,   \* applications, order ids, client idempotency keys
    Bodies,               \* the rest of a create request's body
    ConfirmationUrls,     \* checkout URLs an accepting provider may answer with
    Null

ASSUME RequestsAssumption == IsFiniteSet(Requests)
ASSUME NullAssumption == Null \notin Requests \cup (Apps \X Keys)
ASSUME ConfirmationAssumption == ConfirmationUrls \subseteq {"url", ""}

VARIABLES
    input,        \* input[r]: what request r asks for, fixed by its client
    payments,     \* table payments: the committed row of payment r
    operations,   \* table payment_operations: the status of r's operation
    idempotency,  \* table idempotency_requests: the payment recorded under a key
    orderLock,    \* holder of the advisory lock of an order
    pc,           \* pc[r]: the statement r's handler runs next
    attempt,      \* attempt[r]: the local attempt number of createLocal
    answer,       \* answer[r]: what the provider call returned to the handler
    result,       \* result[r]: what the client of r was told
    provider,     \* provider[r]: the provider payment made under r's key
    inbox,        \* requests on their way to the provider
    reads         \* reads[g]: the local state of a status read

database == <<payments, operations, idempotency>>
locals == <<attempt, answer>>
external == <<provider, inbox>>
vars == <<input, database, orderLock, pc, locals, result, external, reads>>

Inputs == [app : Apps, order : Orders, key : Keys, body : Bodies]

NoRow == [status |-> "absent", attempt |-> 0,
          provider_payment_id |-> Null, checkout_url |-> "null"]

PaymentRows ==
    [status : Statuses \cup {"absent"}, attempt : Nat,
     provider_payment_id : Requests \cup {Null},
     checkout_url : ConfirmationUrls \cup {"null"}]

CreateLabels ==
    {"received", "lookup", "paidCheck", "lock", "paidRecheck", "keyRecheck",
     "nextAttempt", "insertPayment", "insertKey", "commit", "raced", "replay",
     "markCreating", "startOperation", "callProvider", "awaitProvider",
     "completeOperation", "readBack", "done"}

\* Statements that run inside createLocal's transaction, after the lock.
InTransaction(label) ==
    label \in {"paidRecheck", "keyRecheck", "nextAttempt", "insertPayment",
               "insertKey", "commit"}

\* What a call to the provider can bring back: an acceptance with the checkout
\* URL it carries, or a normalised error code (providers/errors.go).  Codes the
\* service treats alike share a name: PROVIDER_AUTH_FAILED is a refusal like
\* INVALID_REQUEST, PROVIDER_UNAVAILABLE is as open as PAYMENT_STATE_UNKNOWN.
ErrorCodes == {"INVALID_REQUEST", "PROVIDER_TIMEOUT", "PAYMENT_STATE_UNKNOWN"}
Answers == [code : {"ok"}, url : ConfirmationUrls]
           \cup [code : ErrorCodes \cup {"none"}, url : {"null"}]
NoAnswer == [code |-> "none", url |-> "null"]

\* What a create request is answered with: 201, 202 or an error.
Outcomes ==
    {"none", "201", "202", "ErrValidation", "ErrIdempotencyConflict",
     "ErrNotFound", "ErrOrderAlreadySucceeded", "ErrNoProviderAccount",
     "ErrActiveAttemptExists", "providerError", "internalError"}

IdleRead == [at |-> "idle", payment |-> Null, seen |-> "absent", next |-> ""]

OrderOf(r) == <<input[r].app, input[r].order>>
KeyOf(r) == <<input[r].app, input[r].key>>

Exists(p) == payments[p].status # "absent"
Attempts(o) == {p \in Requests : OrderOf(p) = o /\ Exists(p)}
Active(p) == Exists(p) /\ ~Terminal(payments[p].status)

---------------------------------------------------------------------------
(* The statements of db/queries/payments.sql, as functions of a row or as  *)
(* queries over the committed tables.                                      *)

\* Mutant: the fields of the body are left out of the fingerprint.
RequestHashOmitsBody(r) == input[r].order

\* requestHash: the order id and every other field of the body.
RequestHash(r) == <<input[r].order, input[r].body>>

OrderHasSucceededPayment(o) ==
    \E p \in Attempts(o) : payments[p].status = "succeeded"

\* Mutant: the re-check inside the lock is missing.
KeyRecheckSkipped(k) == FALSE

\* GetIdempotencyRequest, as the re-check inside the lock uses it.
KeyRecorded(k) == idempotency[k] # Null

\* Mutant: MAX without + 1.
NextAttemptNumberLast(o) == Max({payments[p].attempt : p \in Attempts(o)} \cup {0})

NextAttemptNumber(o) == Max({payments[p].attempt : p \in Attempts(o)} \cup {0}) + 1

\* Mutant: payments_one_active_attempt_idx is missing.
InsertConflictsOnNumberOnly(r) ==
    \E p \in Attempts(OrderOf(r)) : payments[p].attempt = attempt[r]

\* CreatePayment violates a unique index of 000003_payments: the attempt number
\* is taken, or the order has an attempt that is not terminal.
InsertConflicts(r) ==
    \E p \in Attempts(OrderOf(r)) :
        payments[p].attempt = attempt[r] \/ Active(p)

\* An uncommitted row of another transaction with the same index entry makes
\* an insert wait for that transaction to end.
PaymentInsertWaits(r) ==
    \E q \in Requests \ {r} :
        pc[q] \in {"insertKey", "commit"} /\ OrderOf(q) = OrderOf(r)

\* The client key is in the row that another open transaction has inserted.
KeyInsertedByOther(r) ==
    \E q \in Requests \ {r} : pc[q] = "commit" /\ KeyOf(q) = KeyOf(r)

\* Mutant: the insert gives up at once, as ON CONFLICT DO NOTHING or NOWAIT would.
KeyInsertNeverWaits(r) == FALSE

KeyInsertWaits(r) == KeyInsertedByOther(r)

\* Mutant: idempotency_requests has no unique key.
KeyNotUnique(r) == FALSE

\* CreateIdempotencyRequest violates UNIQUE (application_id, idempotency_key).
KeyTaken(r) == idempotency[KeyOf(r)] # Null \/ KeyInsertedByOther(r)

CreatedRow(n) ==
    [status |-> "created", attempt |-> n,
     provider_payment_id |-> Null, checkout_url |-> "null"]

MarkPaymentCreating(row) ==
    IF row.status = "created" THEN [row EXCEPT !.status = "creating"] ELSE row

\* Unconditional: the statement has no guard on the status.
SetPaymentCreated(row, id, url) ==
    [row EXCEPT !.status = "pending", !.provider_payment_id = id,
                !.checkout_url = url]

\* Mutant: the guard names the status before MarkPaymentCreating.
SetCreationUnknownWhenCreated(row) ==
    IF row.status = "created"
    THEN [row EXCEPT !.status = "creation_unknown"] ELSE row

SetPaymentCreationUnknown(row) ==
    IF row.status = "creating"
    THEN [row EXCEPT !.status = "creation_unknown"] ELSE row

SetPaymentCanceled(row) ==
    IF Terminal(row.status) THEN row ELSE [row EXCEPT !.status = "canceled"]

ApplyProviderStatus(row, status) ==
    IF Terminal(row.status) THEN row ELSE [row EXCEPT !.status = status]

StartPaymentOperation(status) ==
    IF status = "pending" THEN "in_progress" ELSE status

GetPaymentForApplication(app, p) ==
    IF Exists(p) /\ input[p].app = app THEN payments[p] ELSE NoRow

---------------------------------------------------------------------------
(* Steps of a create request's handler.                                    *)

Goto(r, label) == pc' = [pc EXCEPT ![r] = label]

\* Mutant: a session-level lock, which the end of the transaction keeps.
KeepLock(r) == orderLock

\* The end of r's transaction, by commit or by the deferred Rollback, releases
\* its advisory lock.
Unlocked(r) ==
    [o \in Apps \X Orders |-> IF orderLock[o] = r THEN Null ELSE orderLock[o]]

\* The handler answers its client; its locals die with it.
Respond(r, outcome, p) ==
    /\ Goto(r, "done")
    /\ result' = [result EXCEPT ![r] = [outcome |-> outcome, payment |-> p]]
    /\ attempt' = [attempt EXCEPT ![r] = 0]
    /\ answer' = [answer EXCEPT ![r] = NoAnswer]

\* validate: the request is refused before anything is read.
Validate(r) ==
    /\ pc[r] = "received"
    /\ \/ Goto(r, "lookup") /\ UNCHANGED <<locals, result>>
       \/ Respond(r, "ErrValidation", Null)
    /\ UNCHANGED <<input, database, orderLock, external, reads>>

\* replay, first half: the recorded request must have the same hash.
ReplayKey(r) ==
    IF RequestHash(r) = RequestHash(idempotency[KeyOf(r)])
    THEN Goto(r, "replay") /\ UNCHANGED <<locals, result>>
    ELSE Respond(r, "ErrIdempotencyConflict", Null)

\* create, step 3: GetIdempotencyRequest.
LookupKey(r) ==
    /\ pc[r] = "lookup"
    /\ IF idempotency[KeyOf(r)] # Null
       THEN ReplayKey(r)
       ELSE Goto(r, "paidCheck") /\ UNCHANGED <<locals, result>>
    /\ UNCHANGED <<input, database, orderLock, external, reads>>

\* create: the early check that the order is unpaid, then the default provider
\* account, which the application may not have.
CheckPaid(r) ==
    /\ pc[r] = "paidCheck"
    /\ \/ /\ OrderHasSucceededPayment(OrderOf(r))
          /\ Respond(r, "ErrOrderAlreadySucceeded", Null)
       \/ /\ ~OrderHasSucceededPayment(OrderOf(r))
          /\ Respond(r, "ErrNoProviderAccount", Null)
       \/ /\ ~OrderHasSucceededPayment(OrderOf(r))
          /\ Goto(r, "lock") /\ UNCHANGED <<locals, result>>
    /\ UNCHANGED <<input, database, orderLock, external, reads>>

\* Mutant: creation is not serialized per order.
LockIgnored(r) == TRUE

\* pg_advisory_xact_lock returns only when no other transaction holds the lock.
LockFree(r) == orderLock[OrderOf(r)] = Null

\* createLocal: Begin and LockOrderForPayment.
LockOrderForPayment(r) ==
    /\ pc[r] = "lock"
    /\ LockFree(r)
    /\ orderLock' = [orderLock EXCEPT ![OrderOf(r)] = r]
    /\ Goto(r, "paidRecheck")
    /\ UNCHANGED <<input, database, locals, result, external, reads>>

\* createLocal: the authoritative check inside the lock.
RecheckPaid(r) ==
    /\ pc[r] = "paidRecheck"
    /\ IF OrderHasSucceededPayment(OrderOf(r))
       THEN /\ Respond(r, "ErrOrderAlreadySucceeded", Null)
            /\ orderLock' = Unlocked(r)
       ELSE /\ Goto(r, "keyRecheck")
            /\ UNCHANGED <<orderLock, locals, result>>
    /\ UNCHANGED <<input, database, external, reads>>

\* createLocal: a concurrent request with the same key may have won the lock.
RecheckKey(r) ==
    /\ pc[r] = "keyRecheck"
    /\ IF KeyRecorded(KeyOf(r))
       THEN Goto(r, "raced") /\ orderLock' = Unlocked(r)
       ELSE Goto(r, "nextAttempt") /\ UNCHANGED orderLock
    /\ UNCHANGED <<input, database, locals, result, external, reads>>

ReadNextAttempt(r) ==
    /\ pc[r] = "nextAttempt"
    /\ attempt' = [attempt EXCEPT ![r] = NextAttemptNumber(OrderOf(r))]
    /\ Goto(r, "insertPayment")
    /\ UNCHANGED <<input, database, orderLock, answer, result, external, reads>>

\* createLocal: CreatePayment, and CreatePaymentOperation in the same step since
\* neither row is visible to anyone before the commit.
InsertPayment(r) ==
    /\ pc[r] = "insertPayment"
    /\ ~PaymentInsertWaits(r)
    /\ IF InsertConflicts(r)
       THEN /\ Respond(r, "ErrActiveAttemptExists", Null)
            /\ orderLock' = Unlocked(r)
       ELSE /\ Goto(r, "insertKey")
            /\ UNCHANGED <<orderLock, locals, result>>
    /\ UNCHANGED <<input, database, external, reads>>

\* createLocal: CreateIdempotencyRequest; a taken key is errIdempotencyRace.
InsertKey(r) ==
    /\ pc[r] = "insertKey"
    /\ ~KeyInsertWaits(r)
    /\ IF KeyTaken(r)
       THEN Goto(r, "raced") /\ orderLock' = Unlocked(r)
       ELSE Goto(r, "commit") /\ UNCHANGED orderLock
    /\ attempt' = [attempt EXCEPT ![r] = IF KeyTaken(r) THEN 0 ELSE @]
    /\ UNCHANGED <<input, database, answer, result, external, reads>>

\* createLocal: the three rows become visible together and the lock is released.
Commit(r) ==
    /\ pc[r] = "commit"
    /\ payments' = [payments EXCEPT ![r] = CreatedRow(attempt[r])]
    /\ operations' = [operations EXCEPT ![r] = "pending"]
    /\ idempotency' = [idempotency EXCEPT ![KeyOf(r)] = r]
    /\ orderLock' = Unlocked(r)
    /\ Goto(r, "markCreating")
    /\ UNCHANGED <<input, locals, result, external, reads>>

\* create, after errIdempotencyRace: the key is read again, outside the
\* transaction; if it is not there the race itself is the client's error.
RereadKey(r) ==
    /\ pc[r] = "raced"
    /\ IF idempotency[KeyOf(r)] # Null
       THEN ReplayKey(r)
       ELSE Respond(r, "internalError", Null)
    /\ UNCHANGED <<input, database, orderLock, external, reads>>

\* Mutant: every replay is a success.
ReplayedAlwaysCreated(row) == "201"

\* CreateResult.HTTPStatus of a replay: 202 while there is nothing to pay at.
ReplayOutcome(row) ==
    IF ~Terminal(row.status) /\ row.checkout_url = "null" THEN "202" ELSE "201"

\* replay, second half: the current state of the recorded payment.
Replay(r) ==
    LET p == idempotency[KeyOf(r)]
        row == GetPaymentForApplication(input[r].app, p)
    IN /\ pc[r] = "replay"
       /\ IF row = NoRow
          THEN Respond(r, "ErrNotFound", Null)
          ELSE Respond(r, ReplayOutcome(row), p)
       /\ UNCHANGED <<input, database, orderLock, external, reads>>

---------------------------------------------------------------------------
(* callProvider and handleCreateFailure: the call happens outside any      *)
(* transaction and each statement around it commits on its own.            *)

SetRow(r, row) == payments' = [payments EXCEPT ![r] = row]

\* The credentials are read, then the payment is marked.
MarkCreating(r) ==
    /\ pc[r] = "markCreating"
    /\ CanTransition("created", "creating")
    /\ SetRow(r, MarkPaymentCreating(payments[r]))
    /\ Goto(r, "startOperation")
    /\ UNCHANGED <<input, operations, idempotency, orderLock, locals, result,
                   external, reads>>

StartOperation(r) ==
    /\ pc[r] = "startOperation"
    /\ operations' = [operations EXCEPT ![r] = StartPaymentOperation(@)]
    /\ Goto(r, "callProvider")
    /\ UNCHANGED <<input, payments, idempotency, orderLock, locals, result,
                   external, reads>>

CallProvider(r) ==
    /\ pc[r] = "callProvider"
    /\ inbox' = inbox \cup {r}
    /\ Goto(r, "awaitProvider")
    /\ UNCHANGED <<input, database, orderLock, locals, result, provider, reads>>

\* ProviderTimeout passes, or the connection breaks: the request may still be
\* on its way, or may have been carried out.
ProviderTimeout(r) ==
    /\ pc[r] = "awaitProvider"
    /\ answer[r] = NoAnswer
    /\ answer' = [answer EXCEPT ![r] = [code |-> "PROVIDER_TIMEOUT", url |-> "null"]]
    /\ UNCHANGED <<input, database, orderLock, pc, attempt, result, external, reads>>

SaveAccepted(r) ==
    /\ pc[r] = "awaitProvider"
    /\ answer[r].code = "ok"
    /\ SetRow(r, SetPaymentCreated(payments[r], r, answer[r].url))
    /\ Goto(r, "completeOperation")
    /\ UNCHANGED <<input, operations, idempotency, orderLock, locals, result,
                   external, reads>>

\* Mutant: anything but a timeout settles the payment.
DefinitiveUnlessTimeout(code) == code \in ErrorCodes \ {"PROVIDER_TIMEOUT"}

\* providers.Definitive: only a refusal settles the payment.
Definitive(code) == code \in {"INVALID_REQUEST", "PROVIDER_AUTH_FAILED"}

SaveFailed(r) ==
    /\ pc[r] = "awaitProvider"
    /\ answer[r].code \in ErrorCodes
    /\ SetRow(r, IF Definitive(answer[r].code)
                 THEN SetPaymentCanceled(payments[r])
                 ELSE SetPaymentCreationUnknown(payments[r]))
    /\ Goto(r, "completeOperation")
    /\ UNCHANGED <<input, operations, idempotency, orderLock, locals, result,
                   external, reads>>

\* Mutant: an unknown outcome is recorded as a failure.
CompletedFailedUnlessOk(code) == IF code = "ok" THEN "succeeded" ELSE "failed"

\* The status completeOperation records for what the call returned.
CompletedStatus(code) ==
    CASE code = "ok"        -> "succeeded"
      [] Definitive(code)   -> "failed"
      [] OTHER              -> "unknown"

\* completeOperation only logs its own error: the update may be missing.  A
\* refused creation is answered with the provider's error, the other outcomes
\* after the payment is read back.
CompleteOperation(r) ==
    /\ pc[r] = "completeOperation"
    /\ \/ operations' = [operations EXCEPT ![r] = CompletedStatus(answer[r].code)]
       \/ UNCHANGED operations
    /\ IF Definitive(answer[r].code)
       THEN Respond(r, "providerError", Null)
       ELSE Goto(r, "readBack") /\ UNCHANGED <<locals, result>>
    /\ UNCHANGED <<input, payments, idempotency, orderLock, external, reads>>

ReadBack(r) ==
    /\ pc[r] = "readBack"
    /\ Respond(r, IF answer[r].code = "ok" THEN "201" ELSE "202", r)
    /\ UNCHANGED <<input, database, orderLock, external, reads>>

\* Any statement may fail, the request's context may be cancelled, or the
\* process may stop: an open transaction is rolled back, whatever was committed
\* stays, and nobody resumes the handler.
Fail(r) ==
    /\ pc[r] \notin {"received", "done"}
    /\ Respond(r, "internalError", Null)
    /\ orderLock' = Unlocked(r)
    /\ UNCHANGED <<input, database, external, reads>>

---------------------------------------------------------------------------
(* The provider.  It answers a request at any time, also after the handler *)
(* has stopped waiting, in which case nobody receives the answer.          *)

Delivered(r, a) ==
    IF pc[r] = "awaitProvider" /\ answer[r] = NoAnswer
    THEN [answer EXCEPT ![r] = a] ELSE answer

ProviderAccepts(r) ==
    /\ r \in inbox
    /\ inbox' = inbox \ {r}
    /\ provider' = [provider EXCEPT ![r] = "pending"]
    /\ \E url \in ConfirmationUrls :
          answer' = Delivered(r, [code |-> "ok", url |-> url])
    /\ UNCHANGED <<input, database, orderLock, pc, attempt, result, reads>>

ProviderRefuses(r) ==
    /\ r \in inbox
    /\ inbox' = inbox \ {r}
    /\ answer' = Delivered(r, [code |-> "INVALID_REQUEST", url |-> "null"])
    /\ UNCHANGED <<input, database, orderLock, pc, attempt, result, provider, reads>>

\* A 5xx or an undecodable answer says nothing about what was done.
ProviderFails(r) ==
    /\ r \in inbox
    /\ inbox' = inbox \ {r}
    /\ \/ provider' = [provider EXCEPT ![r] = "pending"]
       \/ UNCHANGED provider
    /\ answer' = Delivered(r, [code |-> "PAYMENT_STATE_UNKNOWN", url |-> "null"])
    /\ UNCHANGED <<input, database, orderLock, pc, attempt, result, reads>>

\* The customer pays, or the provider gives the payment up.
ProviderSettles(r) ==
    /\ provider[r] = "pending"
    /\ \E s \in {"succeeded", "canceled"} : provider' = [provider EXCEPT ![r] = s]
    /\ UNCHANGED <<input, database, orderLock, pc, locals, result, inbox, reads>>

---------------------------------------------------------------------------
(* GetPayment: a read refreshes an unfinished payment from the provider.   *)

\* Mutant: a payment the provider has not confirmed is refreshed too.
RefreshWheneverUnfinished(row) == row.status \in Statuses /\ ~Terminal(row.status)

\* maybeRefresh: unfinished, known to the provider, and due.  next_check_at is a
\* time that passes, so a read may always find it due, or not yet due and then
\* change nothing.
NeedsRefresh(row) ==
    /\ row.status \in Statuses
    /\ ~Terminal(row.status)
    /\ row.provider_payment_id # Null

\* getPaymentRow, restricted to the caller's application, finds a due payment.
BeginRefresh(g, app, p) ==
    LET row == GetPaymentForApplication(app, p)
    IN /\ reads[g].at = "idle"
       /\ NeedsRefresh(row)
       /\ reads' = [reads EXCEPT ![g] =
              [at |-> "fetch", payment |-> p, seen |-> row.status, next |-> ""]]
       /\ UNCHANGED <<input, database, orderLock, pc, locals, result, external>>

\* refresh and the first half of applyProviderState: the status the provider
\* reports is compared with the row read before the call.
FetchStatus(g) ==
    LET next == InternalStatus(provider[reads[g].payment])
    IN /\ reads[g].at = "fetch"
       /\ reads' = [reads EXCEPT ![g] =
              IF CanTransition(reads[g].seen, next)
              THEN [@ EXCEPT !.at = "apply", !.next = next]
              ELSE IdleRead]
       /\ UNCHANGED <<input, database, orderLock, pc, locals, result, external>>

\* ApplyProviderStatus, whose own guard looks at the row as it is now.
ApplyRefresh(g) ==
    /\ reads[g].at = "apply"
    /\ SetRow(reads[g].payment,
              ApplyProviderStatus(payments[reads[g].payment], reads[g].next))
    /\ reads' = [reads EXCEPT ![g] = IdleRead]
    /\ UNCHANGED <<input, operations, idempotency, orderLock, pc, locals, result,
                   external>>

\* A provider or database error ends the refresh; the read answers with its row.
AbandonRefresh(g) ==
    /\ reads[g].at # "idle"
    /\ reads' = [reads EXCEPT ![g] = IdleRead]
    /\ UNCHANGED <<input, database, orderLock, pc, locals, result, external>>

---------------------------------------------------------------------------
Init ==
    /\ input \in [Requests -> Inputs]
    /\ payments = [r \in Requests |-> NoRow]
    /\ operations = [r \in Requests |-> "absent"]
    /\ idempotency = [k \in Apps \X Keys |-> Null]
    /\ orderLock = [o \in Apps \X Orders |-> Null]
    /\ pc = [r \in Requests |-> "received"]
    /\ attempt = [r \in Requests |-> 0]
    /\ answer = [r \in Requests |-> NoAnswer]
    /\ result = [r \in Requests |-> [outcome |-> "none", payment |-> Null]]
    /\ provider = [r \in Requests |-> "none"]
    /\ inbox = {}
    /\ reads = [g \in Readers |-> IdleRead]

\* The steps a running handler takes on its own.
HandlerStep(r) ==
    \/ LookupKey(r) \/ CheckPaid(r) \/ LockOrderForPayment(r) \/ RecheckPaid(r)
    \/ RecheckKey(r) \/ ReadNextAttempt(r) \/ InsertPayment(r) \/ InsertKey(r)
    \/ Commit(r) \/ RereadKey(r) \/ Replay(r) \/ MarkCreating(r)
    \/ StartOperation(r) \/ CallProvider(r) \/ ProviderTimeout(r)
    \/ SaveAccepted(r) \/ SaveFailed(r) \/ CompleteOperation(r) \/ ReadBack(r)

ProviderStep(r) ==
    \/ ProviderAccepts(r) \/ ProviderRefuses(r) \/ ProviderFails(r)
    \/ ProviderSettles(r)

RefreshStep(g) == FetchStatus(g) \/ ApplyRefresh(g) \/ AbandonRefresh(g)

Next ==
    \/ \E r \in Requests : Validate(r) \/ HandlerStep(r) \/ Fail(r) \/ ProviderStep(r)
    \/ \E g \in Readers :
          \/ \E app \in Apps, p \in Requests : BeginRefresh(g, app, p)
          \/ RefreshStep(g)

Spec == Init /\ [][Next]_vars

\* A handler that runs keeps running: its waits are bounded by ProviderTimeout
\* and by the other transactions, which are short.  Nothing is assumed of Fail.
HandlerFairness ==
    /\ \A r \in Requests : WF_vars(HandlerStep(r))
    /\ \A g \in Readers : WF_vars(RefreshStep(g))

\* The client traffic on which docs/PAYMENT_LIFECYCLE.md §7 says this stage
\* depends: each payment is read again and again by its application, and a read
\* that is always retried is not cut short every time.
ClientsPoll ==
    \A g \in Readers, p \in Requests :
        /\ \A app \in Apps : SF_vars(BeginRefresh(g, app, p))
        /\ SF_vars(reads[g].payment = p /\ FetchStatus(g))
        /\ SF_vars(reads[g].payment = p /\ ApplyRefresh(g))

FairSpec == Spec /\ HandlerFairness /\ ClientsPoll

---------------------------------------------------------------------------
(* Type invariant and safety properties.                                   *)

\* Every variable holds values of its column's or local's type; in particular
\* an attempt number that was stored is positive (CHECK (attempt_number > 0)).
TypeOK ==
    /\ input \in [Requests -> Inputs]
    /\ payments \in [Requests -> PaymentRows]
    /\ \A r \in Requests : Exists(r) => payments[r].attempt > 0
    /\ operations \in [Requests -> OperationStatuses \cup {"absent"}]
    /\ idempotency \in [Apps \X Keys -> Requests \cup {Null}]
    /\ orderLock \in [Apps \X Orders -> Requests \cup {Null}]
    /\ pc \in [Requests -> CreateLabels]
    /\ attempt \in [Requests -> Nat]
    /\ answer \in [Requests -> Answers]
    /\ result \in [Requests -> [outcome : Outcomes, payment : Requests \cup {Null}]]
    /\ provider \in [Requests -> ProviderStatuses \cup {"none"}]
    /\ inbox \subseteq Requests
    /\ reads \in [Readers -> [at : {"idle", "fetch", "apply"},
                              payment : Requests \cup {Null},
                              seen : Statuses \cup {"absent"},
                              next : ProviderStatuses \cup {""}]]

\* Whatever a transaction has checked under the order lock, no other transaction
\* of the same order can change before it ends (LockOrderForPayment, released by
\* the end of the transaction alone).
OneTransactionPerOrder ==
    \A q, r \in Requests :
        InTransaction(pc[q]) /\ InTransaction(pc[r]) /\ OrderOf(q) = OrderOf(r) => q = r

\* Attempts of an order are numbered 1, 2, ... without gaps, and only the
\* latest one may be unfinished (UNIQUE (application_id, order_id,
\* attempt_number) and payments_one_active_attempt_idx against NextAttemptNumber
\* read in another statement).
OnlyLatestAttemptOpen ==
    \A p \in Requests : Exists(p) =>
        LET all == Attempts(OrderOf(p))
        IN /\ {payments[q].attempt : q \in all} = 1 .. Cardinality(all)
           /\ Active(p) => payments[p].attempt = Cardinality(all)

\* A finished payment agrees with the provider for good: succeeded was paid
\* there, and a canceled one cannot be paid there, now or by a request that is
\* still on its way (handleCreateFailure settles only a refusal).
SettledAgreesWithProvider ==
    \A p \in Requests :
        /\ payments[p].status = "succeeded" => provider[p] = "succeeded"
        /\ payments[p].status = "canceled" =>
              provider[p] \in {"none", "canceled"} /\ p \notin inbox

\* Whatever the provider was asked to do is on record: the operation and the
\* payment were committed before the call, and until the payment knows its
\* provider id the operation stays open and the payment unfinished, so that
\* payments_poll_idx and payment_operations_open_idx still find them.
ProviderPaymentsAccounted ==
    \A p \in Requests : p \in inbox \/ provider[p] # "none" =>
        /\ idempotency[KeyOf(p)] = p
        /\ payments[p].provider_payment_id = Null =>
              Active(p) /\ OpenOperation(operations[p])

\* A client key reaches the provider under one operation only, whatever the
\* orders and the bodies of the requests that carry it.
OneProviderPaymentPerKey ==
    \A p, q \in Requests :
        /\ p \in inbox \/ provider[p] # "none"
        /\ q \in inbox \/ provider[q] # "none"
        /\ KeyOf(p) = KeyOf(q)
        => p = q

\* A request answered with a payment was answered with the one payment its
\* application recorded under its key, and asked for the same thing.
KeyNamesOnePayment ==
    \A r \in Requests :
        result[r].payment # Null =>
            /\ idempotency[KeyOf(r)] = result[r].payment
            /\ input[result[r].payment] = input[r]

\* errIdempotencyRace is only raised for a key that a new read will find, so a
\* lost race is always replayed and never an internal error.
RacedKeyIsRecorded ==
    \A r \in Requests : pc[r] = "raced" => idempotency[KeyOf(r)] # Null

\* Success can slip in between the paid check and the insert, but the order lock
\* lets at most one attempt through: a payment is followed by one attempt at
\* most once it has succeeded.
AtMostOneAttemptAfterSuccess ==
    \A p \in Requests : payments[p].status = "succeeded" =>
        Cardinality({q \in Attempts(OrderOf(p)) :
                        payments[q].attempt > payments[p].attempt}) <= 1

\* What a client was told about the payment its request has made stays true: a
\* 201 payment is at the provider, a refused one is canceled, and a 202 payment
\* is one whose creation is unknown.  So only a request that ended in an internal
\* error leaves an attempt in created or creating, from where nothing moves it.
AnswersStayTrue ==
    \A r \in Requests : pc[r] = "done" /\ Exists(r) =>
        \/ result[r].outcome = "internalError"
        \/ result[r].outcome = "201" /\ payments[r].provider_payment_id = r
        \/ result[r].outcome = "202" /\ payments[r].status = "creation_unknown"
        \/ result[r].outcome = "providerError" /\ payments[r].status = "canceled"

Refused(r, error) == result[r].outcome = "none" /\ result'[r].outcome = error

RecordedAlike(r) ==
    /\ idempotency[KeyOf(r)] # Null
    /\ input[idempotency[KeyOf(r)]] = input[r]

\* A repeated request is replayed rather than told about a conflict with the
\* attempt it made itself (createLocal re-checks the key inside the lock).
RepeatIsNoConflict ==
    [][\A r \in Requests :
          Refused(r, "ErrActiveAttemptExists") => ~RecordedAlike(r)]_vars

\* 201 is never a hollow success: the payment it shows is finished or has a URL
\* to pay at (replay's Pending).
NoHollowSuccess ==
    [][\A r \in Requests :
          Refused(r, "201") =>
              LET row == payments[result'[r].payment]
              IN Terminal(row.status) \/ row.checkout_url = "url"]_vars

\* The error comes from a check that a concurrent success cannot overtake: no
\* attempt is ever added to an order that is already paid (the comment on the
\* lock in createLocal).
NoAttemptForPaidOrder ==
    [][\A r \in Requests :
          ~Exists(r) /\ Exists(r)' => ~OrderHasSucceededPayment(OrderOf(r))]_vars

\* A repeated request is replayed rather than told that the order, which its own
\* payment may have paid, is already paid.
RepeatIsNoSecondPayment ==
    [][\A r \in Requests :
          Refused(r, "ErrOrderAlreadySucceeded") => ~RecordedAlike(r)]_vars

---------------------------------------------------------------------------
(* Liveness properties.                                                    *)

\* Whatever the other requests and the provider do, a request whose handler runs
\* is answered: no two transactions wait for each other, and no early return
\* keeps the order lock.
EveryCreateIsAnswered ==
    \A r \in Requests : pc[r] = "lookup" ~> pc[r] = "done"

SettledAtProvider(p) == provider[p] \in {"succeeded", "canceled"}

\* A payment that the provider has settled and that clients keep reading is
\* settled here too, though next_check_at is never moved by a read that finds
\* the payment still pending and any single refresh may fail.
PolledPaymentsSettle ==
    \A p \in Requests :
        payments[p].status = "pending" /\ SettledAtProvider(p)
            ~> Terminal(payments[p].status)

\* GetPayment "refreshing it from the provider when it is unfinished and due for
\* a check": so is a payment whose creation is unknown.
UnknownPaymentsSettle ==
    \A p \in Requests :
        payments[p].status = "creation_unknown" /\ SettledAtProvider(p)
            ~> Terminal(payments[p].status)

---------------------------------------------------------------------------
\* The committed tables, read as the payments of the lifecycle specification.
Lifecycle ==
    INSTANCE PaymentLifecycle WITH
        Payments <- Requests,
        OrderIds <- Apps \X Orders,
        KeyIds   <- Apps \X Keys,
        None     <- Null,
        order    <- [p \in Requests |-> IF Exists(p) THEN OrderOf(p) ELSE Null],
        key      <- [p \in Requests |-> IF Exists(p) THEN KeyOf(p) ELSE Null],
        status   <- [p \in Requests |-> payments[p].status]

\* The service implements the lifecycle it promises: every committed change is a
\* legal one, also the unconditional SetPaymentCreated and an update computed
\* from a row that was read before the provider call.
ImplementsLifecycle == Lifecycle!Spec
=============================================================================
