# Kazna in TLA+

Kazna is a payment service: applications ask it for payments, it creates them at
a provider (YooKassa) and reports what became of them. This directory holds its
specification: TLA+ modules translated from the Go code, the SQL statements and
the migrations, TLC configurations that check them on small instances, and proofs
checked by TLAPS. Paths below are relative to the repository.

## 1. The system

### Components, state and operations

| Component | Source | State | Operations |
|---|---|---|---|
| payments service | `internal/payments/service.go`, `validation.go` | tables `payments`, `payment_operations`, `idempotency_requests`; the locals of each running handler | create a payment or a further attempt, call the provider, record the outcome, read with refresh, list, count unfinished |
| payment state machine | `internal/payments/state_machine.go`, `models.go` | none | legal status changes, mapping of provider statuses |
| payment queries | `db/queries/payments.sql`, `sqlcgen/payments.sql.go`, `migrations/000003` | rows, unique indexes, one advisory lock per order | one statement each |
| provider adapter | `internal/providers`, `providers/yookassa` | none of its own; the provider's payments | create and read a payment, check the connection, normalise errors and amounts |
| provider accounts | `internal/applications/service.go` (297-421), `migrations/000002` | tables `provider_accounts`, `application_providers` | attach a store, list, decrypt credentials, record a connection status |
| applications and API keys | `internal/applications/service.go` (60-295, 423-444), `internal/credentials` | tables `applications`, `api_keys` | create, list, issue a key, revoke a key, authenticate, rotate the webhook secret |
| authentication | `internal/auth` | none | resolve a key per request; admin token |
| encryption | `internal/security/cipher.go` | key ring of the process; envelopes in tables | encrypt with the primary key, decrypt with any known key |
| URL policy | `internal/security/urlcheck.go` | none | accept or refuse an outbound URL |
| HTTP API | `internal/http` | none | routing, JSON, answers; a 30 s timeout per request |
| database access | `internal/database` | a pool of 10 connections | connect, migrate, health |
| processes | `cmd/api`, `cmd/worker`, `cmd/migrate` | configuration | the worker registers no jobs yet |
| observability | `internal/metrics`, `internal/logging`, `internal/version` | counters | none that a decision reads |

### How they interact

A request passes the authentication middleware and reaches a handler, which calls
a service. Services share nothing in memory: all their state is in PostgreSQL,
reached at READ COMMITTED, so several handlers, in one api process or in many,
interleave statement by statement. The payments service asks the applications
service for the credentials of an account and calls the provider outside any
transaction. The provider keeps its own state and moves on its own.

### What is hard, and what makes a component correct

* **payments service.** Requests for one order and requests with one client key
  interleave; the provider call may be lost, late, refused or of unknown outcome;
  a handler may stop between any two statements, and its request context may be
  cancelled. Correct means: an order has at most one unfinished attempt; a client
  key never makes two provider payments; a finished payment agrees with the
  provider; whatever the provider was asked for is on record; every request is
  answered; what the client is told matches what is stored.
* **provider accounts.** Flags are computed from a list that may be stale, and
  rows are locked in an order that depends on data. Correct means: at most one
  default per application and never none by accident; a success never hides that
  another secret is in use; no deadlock.
* **applications and API keys.** A key is checked in two reads that a revocation
  can separate; slugs are allocated by retry; a rotated secret is returned after
  the update. Correct means: an application has credentials from its first moment;
  a key is accepted from its delivery to its end, for its own application only.
* **encryption.** During a change of the master key processes hold different rings,
  and all of them keep writing. Correct means: no stored secret is ever out of
  reach of a process that is started next, and of all running ones at once.
* **connectivity tests.** A test reads credentials, asks the provider and writes a
  status, with nothing to order it against another test. Correct means: when the
  provider treats a store in one way for good, its status comes to say so.
* **adapter.** Amounts are converted both ways; error classes decide whether a
  payment may be settled. Correct means: the provider is asked for the amount of
  the payment, an accepted payment exists, a refused one does not and never will.
* **database access.** A create request keeps a connection while it waits for a
  lock. Correct means: the pool never runs empty for good.

The hazards are listed one by one, with their lines and properties, in
`PROJECT.json`.

## 2. Plan

Written so far, in this order:

1. `PaymentStateMachine`, `PaymentService`, `PaymentLifecycle` with
   `MCPaymentService`: the core and the specification it implements.
2. `PaymentServiceProofs`, `PaymentSettlementProofs`: types, then agreement with
   the provider.
3. `ProviderAccounts` with `MCProviderAccounts`.
4. `Applications` with `MCApplications`.
5. `ProviderCall`, `YooKassaClient` and `ProviderConnections` with
   `MCProviderConnections`: the contract, the adapter that keeps it, key rotation
   and the connectivity test.
6. `PooledPayments`: the core on a limited connection pool.
7. `ProviderConnectionsProofs`: types, amounts and keys, then the contract of a
   provider call.
8. `PaymentCallProofs`, `PaymentOrderProofs`, `PaymentLifecycleProofs`: the other
   invariants of the core, each resting on the one before, then the refinement, and
   what the connection pool changes of it (nothing).
9. `ProviderAccountsProofs`, `ApplicationsProofs`.

Every safety property that a run checks and no run refutes is now a theorem. Left:
`PaidOrderRace` and its like as statements about the code that would repair them, and
models of what the next stages of the product bring (the worker that takes up
`creation_unknown` payments, webhooks), once there is code.

## 3. The modules and the code

### PaymentStateMachine

The statuses of payments and operations, `AllowedTransitions` (the map of
`state_machine.go`) with `CanTransition`, `Terminal` and `InternalStatus`. It is
shared by the core and by the abstract specification, as the Go package is.

### PaymentService

One step is one SQL statement, or one interaction with the provider, of one
handler. A payment, its operation and its provider idempotency key are created
together by one request and generated afresh, so all three are named by it:
`payments[r]`, `operations[r]` and `provider[r]` belong to request `r`.

| Variable | Code |
|---|---|
| `input` | the application, order id, client key and body of a request, normalised by `validate` |
| `payments`, `operations`, `idempotency` | the committed rows |
| `orderLock` | `pg_advisory_xact_lock` of `LockOrderForPayment` |
| `pc`, `attempt`, `answer` | where a handler is, its attempt number, what the provider call returned |
| `result` | the answer to the client |
| `provider`, `inbox` | payments that exist at the provider; requests that may still arrive there |
| `reads` | a running `GetPayment`, with the status it read before the provider call |

| Actions | Code |
|---|---|
| `Validate`, `LookupKey`, `CheckPaid`, `RereadKey` | `create` |
| `LockOrderForPayment`, `RecheckPaid`, `RecheckKey`, `ReadNextAttempt`, `InsertPayment`, `InsertKey`, `Commit` | `createLocal` |
| `ReplayKey` (in the lookups), `Replay` | `replay` |
| `MarkCreating`, `StartOperation`, `CallProvider`, `SaveAccepted` | `callProvider` |
| `SaveFailed` | `handleCreateFailure` |
| `CompleteOperation`, `ReadBack` | the end of both, with `completeOperation`, which swallows its error |
| `Fail` | any error return with the deferred `Rollback`, a cancelled context, a process that stops |
| `ProviderTimeout`, `ProviderAccepts`, `ProviderRefuses`, `ProviderFails`, `ProviderSettles` | `yookassa/client.go`, and the provider itself |
| `BeginRefresh`, `FetchStatus`, `ApplyRefresh`, `AbandonRefresh` | `GetPayment`, `maybeRefresh`, `refresh`, `applyProviderState` |

What an open transaction has written is not in the committed tables; another
transaction notices it where PostgreSQL makes it: an insert with the same unique
index entry waits (`PaymentInsertWaits`, `KeyInsertWaits`). `Commit` publishes the
three rows at once. `CreatePayment` and `CreatePaymentOperation` are one step,
since nobody can see the second before the commit; likewise the early paid check
and the choice of the default account, because the account is not part of this
module's state.

### PaymentLifecycle

The abstract specification: a payment is created for an order that has no
unfinished one, under a key that was never used, and its status moves along
`CanTransition`. `PaymentService` defines the refinement mapping (`Lifecycle`) and
states `ImplementsLifecycle`. The mapping reads only the committed tables.

### ProviderAccounts

`AttachProviderAccount` statement by statement: `Receive` (validation and
`GetApplication`), `ListProviderAccounts`, `LookupShop`, `CreateAccount`,
`ClearDefault` and `ClearRow`, `AttachProviderAccount`, `Commit`, `Fail`.
`ClearDefaultProviderForApplication` is two actions because PostgreSQL finds its
rows in the snapshot the statement starts with and then updates them one after
the other, waiting for locked ones and looking at each again. An upsert that sets
the flag waits for every entry of the one-default index that another transaction
has added or taken out (`EntriesInDoubt`). `Commit` may apply and still be answered
with an error, when the connection or the process fails after it. A store is the
triple of provider, shop id and environment. Handlers serve one request after the
other, so histories are unbounded although there are only two handlers.

### Applications

Concurrent admin requests and clients. `Receive` decodes a request and takes its
inputs from every combination of operation, application and key, known or not.
`InsertApplication`, `InsertKey` and `Commit` are `createApplicationTx`; `NextTry`
is the loop of `CreateApplication`, which a taken slug and a taken key prefix both
send round again with a random suffix. `GetApplication` with `IssueKey` or
`UpdateWebhookSecret` are `IssueAPIKey` and `RotateWebhookSecret`, `RevokeKey` is
`RevokeAPIKey`. A transaction keeps its rows in the locals of its handler until
`Commit`; others notice them by waiting at a unique index (`SlugWaits`,
`PrefixWaits`). `Answer` is separate from the last statement, so that the answer
may be lost (`Fail`) although the row is there.

A client authenticates in two reads (`ReadKey`, `ReadApplication`), between which
keys are revoked and applications disabled. A key is named by the request and the
try that generated it and its prefix is chosen from `Prefixes`, so that two keys
may meet in one; key and hash stand for each other. Every pair of a name and a
suffix is another slug. `Expire` is the passing of time and `Disable` an operator
at the database: `status` has no writer in this version, only a reader.

### ProviderCall

The abstract contract of a create call (`providers/provider.go`, `errors.go`). An
accepted call has made the payment; a refused one has not made it and never will;
any other outcome says nothing, and the payment may still come into being. This is
the contract by which `ProviderAccepts`, `ProviderRefuses`, `ProviderFails` and
`ProviderTimeout` of `PaymentService` answer.

### YooKassaClient

The adapter as pure operators: `FormatAmountMinor` and `ParseAmountMinor`,
`NetworkError`, `StatusError` and `Do` for the code of an exchange, `MapStatus`,
`ToProviderPayment`, `CreatePayment` and `CheckConnection`. An exchange is a
transport error, an HTTP status, a code in the body and a payment; an amount on
the wire is a sign, a whole part and its decimals. A request that cannot be built
(`json.Marshal`, `http.NewRequest`) is the error `"unsent"`: it ends as a refusal of
a call that was never made. The connectivity test has no body and a constant path,
so it is always sent. `GetPayment` differs from `CreatePayment` only in its path and
in a check for an empty id (`payments.go:71-76`), which is not modelled: an accepted
payment is taken to have an id, as YooKassa promises. Without one the payment would
be stored with an empty id and every later read of it would fail before the call.

### ProviderConnections

Several api processes between the stored accounts and the provider.

| Variable | Code |
|---|---|
| `config`, `ring` | `MASTER_ENCRYPTION_KEY` and `MASTER_ENCRYPTION_PREVIOUS_KEYS` as deployed, and as each process was started with |
| `accounts` | `provider_accounts`: the key id of the envelope, the status |
| `handler` | the request that a process works on, and what its last call returned |
| `wire` | the last create request of a process, as the provider sees it |
| `health` | whether the provider accepts the credentials of a store, rejects them, or is in trouble |

| Actions | Code |
|---|---|
| `CreateAccount` | a new store in `AttachProviderAccount`, with `Cipher.Encrypt` |
| `BeginTest`, `FinishCheck`, `RecordStatus` | `testProvider`: `ProviderCredentials`, `CheckConnection`, `SetProviderStatus` |
| `BeginCharge`, `SendCharge` | the choice of the default account, which must be active, and `callProvider` up to the request |
| `BreakOff`, `ProviderHandles`, `LoseRequest` | the ends of an exchange; the provider may act after the handler gave up |
| `Fail`, `Restart` | an error return; a process that stops and is started with the deployed keys |
| `Rotate`, `DropKey` | the operator, by `docs/SECURITY.md` §1 (external) |
| `HealthChanges` | the provider (external) |

`Contract` maps the state to `ProviderCall`: a call whose handler still waits is
being made, otherwise its code decides between accepted, refused and unknown
(`providers.Definitive`), and `made` is whether the provider holds the payment.
`ImplementsProviderCall` states that every step is a step of the contract.

### PooledPayments

`PaymentService` with the pool of `database.go`. `Begin` takes a connection, which
its transaction keeps, also while it waits for the order lock or for a row, until
`Commit` or the deferred `Rollback`. Every other statement needs a free connection
for its own duration. The provider call holds none. `FromPool` names the statements
that run on the pool and not on the transaction (`s.q` instead of `q.WithTx`): a
transaction that needed a second connection would be how everyone waits on everyone.

### MCPaymentService, MCProviderAccounts, MCApplications, MCProviderConnections

The symmetry sets for TLC, and the amounts. All other constants are model values; requests, readers,
applications, orders, keys and bodies, likewise handlers, applications, stores
and secrets, and admin requests, clients, names, suffixes and prefixes, are
interchangeable. Runs that check liveness use no symmetry.

## 4. The runs

| Run | Checks | Bounds |
|---|---|---|
| `payment_order` | `TypeOK`, `OneTransactionPerOrder`, `OnlyLatestAttemptOpen`, `SettledAgreesWithProvider`, `ProviderPaymentsAccounted`, `AtMostOneAttemptAfterSuccess`, `AnswersStayTrue`, `RepeatIsNoConflict`, `NoHollowSuccess` | 3 requests, 1 order, 3 keys, 1 reader: 181,607 states |
| `payment_lifecycle` | `OneProviderPaymentPerKey`, `KeyNamesOnePayment`, `RacedKeyIsRecorded`, `ImplementsLifecycle` | 2 requests, 2 readers, 2 applications, orders, keys and bodies: 263,761 states |
| `payment_liveness` | `EveryCreateIsAnswered`, `PolledPaymentsSettle` | 2 requests, 2 orders, 1 key, 1 reader, a pool of 1 or 2: 32,658 states |
| `provider_accounts` | `TypeOK`, `OneDefault`, `AttachedSecretIsStored`, `FirstProviderIsDefault`, `DefaultLostOnlyToStaleList` | 2 handlers, 2 applications, 2 stores, 2 secrets: 203,980 states |
| `attach_liveness` | `EveryAttachIsAnswered` | 2 handlers, 1 application, 2 stores, 2 secrets: 139,608 states |
| `applications` | `TypeOK`, `ApplicationsHaveKeys`, `AuthenticatedByOwnKey`, `DeadKeysAreRefused`, `RevokedOnce`, `HandedOutKeyIsAccepted` | 3 admin requests of any kind, 1 client, 1 name, 1 suffix, 2 prefixes, 2 tries: 504,170 states |
| `provider_connections` | `TypeOK`, `SecretsReadable`, `AmountsAgree`, `StatusFollowsProvider`, `ImplementsProviderCall` | 2 processes, 1 store, 2 master keys, amounts of 5 and 150 kopecks: 185,682 states |

Why these bounds. Each request is sent once and its client may repeat it as
another request with the same input. Three requests for one order are a paid
attempt, one that slips past the check and one that the lock must stop: the
smallest instance where `AtMostOneAttemptAfterSuccess` can fail. Collisions of
keys are collisions of two requests, so two suffice for the properties that relate
two, with two of everything else to let them agree and differ independently. Two
attach handlers meet each other in every statement; the third party of their races
is the table, which they keep changing without a bound on the number of requests.
A handler that stops needs no bound: `Fail` is always possible. The attempt number
is bounded by the number of requests. Stores with several applications matter only
through the shared account, so one application suffices for the waits.
Three admin requests are a creation and two that meet, or three creations under one
name, of which the last finds both its slugs taken. `SlugAttempts` is 5 in the code
and 2 here, which has a first try, a retry and a loop that gives up. Two prefixes
let keys collide and differ. Authentications share nothing, so one client suffices;
it serves request after request without a bound.

A pool of one or two connections is smaller than the two requests and the reader
that share it, so it does run empty; two orders and one key let one transaction
wait for the other's row while both hold a connection.
Two processes are an old and a new key ring, with every order of their restarts,
and two tests that overtake each other. Two master keys rotate back and forth
without a bound. Secrets and statuses of stores share nothing, so one store
suffices. 5 kopecks have a leading zero and 150 have a single significant decimal;
the provider spells each in every way with up to three decimals. A process starts
on something new only when its last create request has arrived or is lost (`Free`).

`CHECK_DEADLOCK FALSE` appears where every request may be answered and every
payment finished, which is a state of rest. `ProviderAccounts` and
`ProviderConnections` never rest and their runs check for deadlock.

### Fairness

* `HandlerFairness`: a handler or a read that can take a step takes one. The
  provider call ends with an answer or after `ProviderTimeout` (10 s,
  `cmd/api/main.go:102`), and the router stops a request after 30 s
  (`http/router.go:49`). Stopping (`Fail`) is never assumed, and neither is
  anything of the provider. That the client is answered in spite of lock waits is
  what `EveryCreateIsAnswered` checks.
* `ClientsPoll`: every payment is read again and again by its application, and not
  every one of these reads fails. `docs/PAYMENT_LIFECYCLE.md` §7 says that this
  stage depends on client traffic. Without it nothing settles a payment, since the
  worker has no jobs.
* `Applications`: none. All its properties are about what must not happen, so
  its specification leaves every step optional.
* `ProviderAccounts`: strong fairness of a handler, because PostgreSQL queues the
  transactions that wait for a row, so a wait that ends again and again is not
  lost to newcomers for ever.
* `PooledSpec`: as in `PaymentService`. The pool and the locks serve those who wait
  in order, so that waiting alone loses nobody.
* `ProviderConnections`: a handler keeps running or its process stops, a request on
  its way arrives or is lost, and an administrator tests every store again and
  again, not always in vain (`AdministratorsTest`). Only the status of a store
  depends on this: without a test nothing brings a store back into use.

### Where the code disagrees with its texts

Each of these runs checks one sentence of the repository, and TLC shows a run of
the code that breaks it.

| Run | Sentence | What happens |
|---|---|---|
| `paid_order_race` | the lock makes the paid check and the insert immune to a concurrent success (`payments.sql:30`, `service.go:203`) | a status read takes no lock; it commits success between check and insert and a second attempt is created and sent. `AtMostOneAttemptAfterSuccess` shows that the lock limits the damage to one attempt |
| `repeated_key_race` | a repeat that lost the race is replayed (`service.go:225`) | the paid check runs before the key re-check, so it is told that the order is paid |
| `hollow_success` | 201 would be a hollow success without a URL (`service.go:173`) | an empty URL is stored as a value and the test is for NULL |
| `unknown_payment` | a read refreshes an unfinished payment (`service.go:421`) | not one in `creation_unknown`: it has no provider id |
| `no_default` | an application is never left without a default (`applications/service.go:355`) | a re-attach clears a flag that was set after it had listed the accounts. `DefaultLostOnlyToStaleList` shows that this is the only way |

Seen while modelling, without a run: (1) the operation stores a body without the
`order_id` and `payment_id` metadata that is sent (`validation.go:110-130`), though
it is meant to be replayed byte for byte; (2) `POST /v1/payments` also creates further
attempts, though `PAYMENT_LIFECYCLE.md` §3 reserves them for the other endpoint; (3) while a rotation of the master key is being
rolled out, a process that still runs on the old ring cannot read a secret written
under the new key, so its requests for that store end with an error, after their
payment was committed, which then blocks its order (`SecretsReadable` says only
that some process can read it, and any that is started next); (4) nothing encrypts
a stored provider secret anew, so a key under which an account is stored can never
be dropped; (5) `docs/RELIABILITY.md` §4 has a connection that failed to
authenticate leave use, but only the connectivity test changes the status, and it
does so for any failure, a timeout included; (6) the amount in the provider's answer
is read, and never compared with the one asked for.

## 5. What is proved

For every value of the constants, with TLAPS:

* `PaymentServiceProofs!TypeCorrect`: `Spec => []TypeOK`. `TypeOK` is not
  inductive: a replay reads the payment a key names, and a refresh writes to the
  payment it was started for, so both must exist. `TypeInv` adds
  `HandlersHaveRows` (after its commit a handler has its row, before it none),
  `ReadsHaveRows` and `OrdersHaveLatest` (the attempts of an order have a greatest
  number, so that `NextAttemptNumber` is a number).
* `PaymentSettlementProofs!SettlementCorrect`:
  `Spec => []SettledAgreesWithProvider`. A canceled payment must not become payable
  later, so the argument follows the request to the provider. `SettlementInv` adds
  `CalledOnce` (a request is on its way only after its call, at most once, and
  never again once the provider has acted), `RefusalsAreFinal` (a refusal that the
  handler holds means that nothing was created and nothing is on its way) and
  `RefreshesAreTrue` (a status that a read is about to store is the provider's for
  good).
* `PaymentCallProofs!AnswersCorrect`: `Spec => []AnswersStayTrue`. An answer is given
  several commits after the call it reports, and reads go on changing the row.
  `CallInv` extends `SettlementInv` by what the row and the operation look like at
  every statement after the commit (`RowFollowsHandler`, `OutcomeSaved`,
  `OperationFollowsPayment`), by when a payment has a provider id
  (`IdFollowsStatus`: never in `creation_unknown`, which is why nothing refreshes a
  202 payment) and by what a reader knows (`ReadsAreConfirmed`).
* `PaymentOrderProofs`: the order lock, the client keys and the attempt numbers.
  `OrderInv` extends `CallInv` by `LocksAreHeld`, `KeysNamePayments`,
  `AttemptsInOrder` (numbers without gaps, and only the latest attempt unfinished)
  and `ChecksStillHold`: what each check inside the lock has established still holds
  when the transaction relies on it, and, as the race with a status read shows,
  exactly how much of it does. From it follow, each as `Spec => []...`,
  `LockIsExclusive` (`OneTransactionPerOrder`), `AttemptsCorrect`
  (`OnlyLatestAttemptOpen`), `OneAttemptAfterSuccess`
  (`AtMostOneAttemptAfterSuccess`), `KeysCorrect` (`KeyNamesOnePayment`),
  `RacesAreReplayed` (`RacedKeyIsRecorded`), `OneProviderPayment`
  (`OneProviderPaymentPerKey`), `ProviderPaymentsOnRecord`
  (`ProviderPaymentsAccounted`), and of the action properties `RepeatsAreReplayed`
  (`RepeatIsNoConflict`) and `SuccessIsNotHollow` (`NoHollowSuccess`). The last one
  assumes that the provider sends no empty checkout URL; `hollow_success` shows that
  it is false without.
* `PaymentLifecycleProofs!LifecycleImplemented`: `Spec => ImplementsLifecycle`, step
  by step: `Commit` creates a payment of the lifecycle, four statements move its
  status, everything else is a stutter. The guards of the abstract `Create` are what
  `ChecksStillHold` keeps for `Commit`.
* `PaymentLifecycleProofs!PoolChangesNothing`: `PooledSpec => Spec` and so
  `ImplementsLifecycle`: on a pool of any size the service takes only steps it takes
  without one, and every theorem above holds of it there.
* `ProviderConnectionsProofs!SecretsStayReadable`: `Spec => []SecretsReadable`. A
  process encrypts under its own ring while the deployed one moves on, so
  `ConnectionsInv` adds `RunningKeysKnown`: what a running process encrypts with is
  among the deployed keys.
* `ProviderConnectionsProofs!AmountsSurvive`: `Spec => []AmountsAgree`, for every
  positive amount and not only the two that TLC tries. It rests on lemmas about the
  adapter's operators: `FormatIsRead` (what is written reads as the amount),
  `SpellingsAgree` (so does every spelling of it), `ResultsUnderstood` (every answer
  leads to an error code or to the amount that was asked for). `HandlersConsistent`
  ties a call to the request of its process.
* `ProviderConnectionsProofs!ConnectionsTyped`: `Spec => []TypeOK`.
* `ProviderConnectionsProofs!ContractIsKept`: `Spec => ImplementsProviderCall`.
  `ContractInv` adds `Truthful`: a handler that holds an acceptance belongs to a
  request that made the payment, one that holds a refusal to a request that did not
  and is no longer on its way. `Lawful` says which changes of a handler and its
  request the contract allows, and there is a lemma per action that it makes one.
* `ProviderAccountsProofs`: `AttachInv` says of every handler what it has seen and
  what it has locked. `AccountHeld`: its account is its own uncommitted one or holds
  the presented secret. `LinksHeld`: links that were listed are still there, cleared
  rows are still the default for everybody else, and a handler about to commit a
  default has cleared every other. `Apart`: two handlers never hold the same row, nor
  the insert of one account, nor are both about to commit a default for one
  application. `OneDefault` is not inductive without the last: the conflict is
  between two transactions that have not committed yet. Only a commit writes, so
  from this follow `AttachTypesCorrect` (`TypeOK`), `AtMostOneDefault`
  (`OneDefault`), `SecretCorrect` (`AttachedSecretIsStored`), `FirstIsDefault`
  (`FirstProviderIsDefault`) and `DefaultLostOnce` (`DefaultLostOnlyToStaleList`).
* `ApplicationsProofs`: `AppInv` has what a request works on at each statement and
  that its rows appear only when it is answered (`RequestInv`), that a prefix names
  one stored key or one about to be (`PrefixInv`), that two requests never revoke one
  key (`RevokesApart`), and what a client knows after each read (`ClientInv`: a key
  that was dead when presented still is, and after the first read only the
  application can be the reason). Rows are added and marked and never handed over
  (`Grows`), so a step of an administrator takes nothing from a client. It gives
  `AppTypesCorrect` (`TypeOK`), `CredentialsExist` (`ApplicationsHaveKeys`),
  `AuthenticationCorrect` (`AuthenticatedByOwnKey`), `DeadKeysRefused`
  (`DeadKeysAreRefused`), `RevocationCorrect` (`RevokedOnce`) and `HandedOutAccepted`
  (`HandedOutKeyIsAccepted`).

TLC checked each of these inductive invariants as an invariant of the component's
run before it was proved.

The assumptions are those of the modules. `PaymentService`: the requests are a
finite set, `Null` is no request and no pair of an application and a key,
checkout URLs are a URL or the empty string. `ProviderConnections`: amounts are
positive, `Null` is no account. `ProviderAccounts`: `Null` is no secret.
`Applications`: at least one slug is tried, `Null` is no request, suffix, prefix or
row. `PooledPayments`: a pool has a connection.

The proofs follow the actions: a lemma per action or group of actions, one step per
action, one step below it per conjunct that the action can disturb. `RowUpdates`,
`StatusUpdates`, `RespondMoves` and their like are lemmas about the operators. A step
moves one handler, so most lemmas show the invariant for that handler and cite one
lemma (`OneHandlerMoves`, `OneRequestMoves`, `OneClientMoves`) for all others.

Only model-checked: the liveness properties and everything under fairness
(`EveryCreateIsAnswered`, `PolledPaymentsSettle`, `EveryAttachIsAnswered`,
`StatusFollowsProvider`), because the proof system handles neither fairness nor
`ENABLED` here; and the runs that expect a violation, which are counterexamples.

## 6. Assumptions and what is left out

* Key ids of four bytes do not collide; AES-GCM and the parsing of keys are left out,
  and so are the envelopes of webhook secrets, which nothing reads in this version.
* Keys are rotated as `docs/SECURITY.md` says, one step after the other: each is
  rolled out to all processes before the next. A key is dropped when no row is under it.
* The provider account status `disabled` has no writer and is left out.
* A definitive refusal (4xx) means that the provider created nothing; a payment
  the provider settled stays settled. The provider is not part of the repository.
* An accepted payment has an id (section 3, YooKassaClient).
* `next_check_at` is a time: a read finds a payment due or changes nothing.
* Two orders whose lock hashes collide are not modelled; they would only wait more.
* Statements are atomic, except for the clearing of defaults. A transaction that
  the server aborts, for a deadlock or for any other reason, is `Fail`.
* Error codes that the service treats alike share a name (`ErrorCodes`).
* Random suffixes and prefixes are any of a small set. That a name which already
  ends in another application's suffix makes the same slug is left out.
* Permissions, metadata, descriptions, currencies and amounts are the body of a
  request: equal or different.
* The components without a module are listed in `PROJECT.json` with the reason.
