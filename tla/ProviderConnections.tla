------------------------ MODULE ProviderConnections ------------------------
(***************************************************************************)
(* The way from a stored provider account to the provider and back.        *)
(* Several api processes encrypt and decrypt the secret of a store with    *)
(* the master keys they were started with (internal/security/cipher.go),   *)
(* test the connection and record its status (testProvider of              *)
(* http/handlers/admin.go), and create payments through the YooKassa       *)
(* adapter, while keys are rotated, processes are restarted and the        *)
(* provider has its good and bad days.  A process works on one request.    *)
(***************************************************************************)
EXTENDS YooKassaClient, FiniteSets

CONSTANTS
    Processes,     \* instances of cmd/api, each with its own key ring
    Shops,         \* provider accounts: one store each
    MasterKeys,    \* master keys; their 4-byte ids are taken to differ
    Amounts,       \* amounts of payments in kopecks
    Null

ASSUME AmountsAssumption == Amounts \subseteq Nat \ {0}

VARIABLES
    config,      \* MASTER_ENCRYPTION_KEY and MASTER_ENCRYPTION_PREVIOUS_KEYS
    ring,        \* ring[p]: the configuration process p was started with
    accounts,    \* table provider_accounts: key id of the envelope, status
    health,      \* health[s]: how the provider treats the credentials of s
    handler,     \* handler[p]: the request process p works on
    wire         \* wire[p]: p's last create call, as the provider sees it

vars == <<config, ring, accounts, health, handler, wire>>

Rings == [primary : MasterKeys, previous : SUBSET MasterKeys]
Statuses == {"active", "needs_attention"}
Accounts == [key : MasterKeys, status : Statuses]
ASSUME NullAssumption == Null \notin Accounts

Codes ==
    {"none", "ok", "INVALID_REQUEST", "PROVIDER_AUTH_FAILED",
     "PROVIDER_UNAVAILABLE", "PROVIDER_TIMEOUT", "PAYMENT_STATE_UNKNOWN"}

\* A handler at rest keeps what its last call returned.
Idle == [at |-> "idle", shop |-> Null, amount |-> 0, code |-> "none", echo |-> 0]
NotSent == [at |-> "none", value |-> NotANumber]

Stored(s) == accounts[s] # Null
Goto(p, label) == handler' = [handler EXCEPT ![p].at = label]
Begin(p, label, s, amount) ==
    handler' = [handler EXCEPT ![p] =
        [Idle EXCEPT !.at = label, !.shop = s, !.amount = amount]]

\* The bound: a process starts on something only when its last create call is
\* no longer on its way.
Free(p) == handler[p].at = "idle" /\ wire[p].at # "flight"

---------------------------------------------------------------------------
(* The cipher.                                                             *)

\* Mutant: only the primary key is looked up.
OnlyPrimary(r) == {r.primary}

\* NewCipher: the keys an envelope may name.
Keys(r) == {r.primary} \cup r.previous

\* Encrypt: the id of the primary key is part of the envelope.
Encrypt(r) == r.primary

\* Decrypt: the key is chosen by the id in the envelope.
Decrypts(r, key) == key \in Keys(r)

\* AttachProviderAccount with a new store; ProviderAccounts has its steps.
CreateAccount(p, s) ==
    /\ Free(p)
    /\ ~Stored(s)
    /\ accounts' = [accounts EXCEPT ![s] =
                       [key |-> Encrypt(ring[p]), status |-> "active"]]
    /\ UNCHANGED <<config, ring, health, handler, wire>>

---------------------------------------------------------------------------
(* testProvider: the credentials, a request that creates nothing, and the  *)
(* status it leads to.                                                     *)

\* ProviderCredentials; an envelope under a key that p does not hold ends the
\* test with an internal error and changes nothing.
BeginTest(p, s) ==
    /\ Free(p)
    /\ Stored(s)
    /\ Decrypts(ring[p], accounts[s].key)
    /\ Begin(p, "check", s, 0)
    /\ wire' = [wire EXCEPT ![p] = NotSent]
    /\ UNCHANGED <<config, ring, accounts, health>>

Reply(error, status, code) ==
    [error |-> error, status |-> status, code |-> code, decodable |-> FALSE]

\* What the provider answers to a read with the credentials of s.
CheckReplies(s) ==
    CASE health[s] = "up" -> {Reply("none", 200, "")}
      [] health[s] = "rejecting" ->
            {Reply("none", 401, ""), Reply("none", 400, "invalid_credentials")}
      [] health[s] = "down" ->
            {Reply("none", 429, ""), Reply("none", 503, ""),
             Reply("timeout", 0, ""), Reply("broken", 0, "")}

FinishCheck(p) ==
    /\ handler[p].at = "check"
    /\ \E reply \in CheckReplies(handler[p].shop) :
          handler' = [handler EXCEPT ![p].at = "record",
                                     ![p].code = CheckConnection(reply)]
    /\ UNCHANGED <<config, ring, accounts, health, wire>>

\* Mutant: the words of the answer are written into the column.
TestedStatusInWords(code) == IF code = "ok" THEN "connected" ELSE "failed"

\* Any failure, also one of the network, takes the store out of use.
TestedStatus(code) == IF code = "ok" THEN "active" ELSE "needs_attention"

\* Mutant: the statement touches active accounts only.
UpdateActiveStatus(account, status) ==
    IF account.status = "active" THEN [account EXCEPT !.status = status] ELSE account

\* The statement has no guard: the last writer wins, however old its answer.
UpdateProviderAccountStatus(account, status) == [account EXCEPT !.status = status]

\* SetProviderStatus, then the answer to the administrator.
RecordStatus(p) ==
    /\ handler[p].at = "record"
    /\ accounts' = [accounts EXCEPT ![handler[p].shop] =
          UpdateProviderAccountStatus(@, TestedStatus(handler[p].code))]
    /\ handler' = [handler EXCEPT ![p] = Idle]
    /\ UNCHANGED <<config, ring, health, wire>>

---------------------------------------------------------------------------
(* A create request, from the choice of the account to the answer of the   *)
(* provider.  PaymentService has the statements around it.                 *)

\* GetDefaultProviderAccountForApplication finds active accounts only.
BeginCharge(p, s, amount) ==
    /\ Free(p)
    /\ Stored(s)
    /\ accounts[s].status = "active"
    /\ Begin(p, "credentials", s, amount)
    /\ wire' = [wire EXCEPT ![p] = NotSent]
    /\ UNCHANGED <<config, ring, accounts, health>>

\* callProvider: ProviderCredentials reads the account again.
SendCharge(p) ==
    /\ handler[p].at = "credentials"
    /\ IF Decrypts(ring[p], accounts[handler[p].shop].key)
       THEN /\ Goto(p, "await")
            /\ wire' = [wire EXCEPT ![p] =
                  [at |-> "flight", value |-> FormatAmountMinor(handler[p].amount)]]
       ELSE handler' = [handler EXCEPT ![p] = Idle] /\ UNCHANGED wire
    /\ UNCHANGED <<config, ring, accounts, health>>

\* The handler, if it still waits, is done with what the adapter makes of the
\* exchange.
Deliver(p, reply) ==
    LET result == CreatePayment(reply)
    IN handler' = [handler EXCEPT ![p] =
          IF @.at = "await"
          THEN [@ EXCEPT !.at = "idle", !.code = result.code,
                         !.echo = result.amount_minor]
          ELSE @]

\* ProviderTimeout passes, the client goes away, or the connection breaks.
BreakOff(p) ==
    /\ handler[p].at = "await"
    /\ \E error \in {"deadline", "canceled", "broken"} : Deliver(p, Reply(error, 0, ""))
    /\ UNCHANGED <<config, ring, accounts, health, wire>>

\* Nothing is left of a handler but the call it was waiting for or had made.
Stop(p) ==
    handler' = [handler EXCEPT ![p] =
        IF @.at \in {"idle", "await"} THEN [@ EXCEPT !.at = "idle"] ELSE Idle]

\* A statement or the request fails.
Fail(p) ==
    /\ handler[p].at # "idle"
    /\ Stop(p)
    /\ UNCHANGED <<config, ring, accounts, health, wire>>

---------------------------------------------------------------------------
(* The provider.                                                           *)

\* The spellings of the number on the wire that the provider may answer with.
Spellings(value) ==
    LET tenths == Digit(value, 1)
        hundredths == Digit(value, 2)
    IN {[value EXCEPT !.fraction = f] :
           f \in {<<tenths, hundredths>>, <<tenths, hundredths, 0>>}
                 \cup (IF hundredths = 0 THEN {<<tenths>>} ELSE {})
                 \cup (IF tenths + hundredths = 0 THEN {<<>>} ELSE {})}

Payment(status, value) == [status |-> status, value |-> value]
WithPayment(payment) ==
    [error |-> "none", status |-> 200, code |-> "", decodable |-> TRUE,
     payment |-> payment]

\* Answers of a provider that has made the payment, in words or not.
MadeReplies(value) ==
    {WithPayment(Payment("pending", v)) : v \in Spellings(value)}
    \cup {WithPayment(Payment("pending", NotANumber)),
          WithPayment(Payment("refunded", value)), Reply("none", 200, "")}

\* Answers of a provider that has not made it and says so, and the error of a
\* request that do could not build: nothing has left the process.
RefusalReplies(s) ==
    {Reply("unsent", 0, "")} \cup
    CASE health[s] = "up" -> {Reply("none", 400, "invalid_request")}
      [] health[s] = "rejecting" ->
            {Reply("none", 401, ""), Reply("none", 400, "invalid_credentials")}
      [] health[s] = "down" -> {}

\* Answers that say nothing: 202 shows no payment, only that it is being made.
OpenReplies == {WithPayment(Payment("", NotANumber)), Reply("none", 503, ""),
                Reply("none", 429, "")}

Handled(p, at, reply) ==
    /\ wire' = [wire EXCEPT ![p].at = at]
    /\ Deliver(p, reply)

\* The store of a request is that of the handler, also when it no longer waits.
ProviderHandles(p) ==
    LET s == handler[p].shop
    IN /\ wire[p].at = "flight"
       /\ \/ /\ health[s] = "up"
             /\ \E reply \in MadeReplies(wire[p].value) : Handled(p, "made", reply)
          \/ \E reply \in RefusalReplies(s) : Handled(p, "gone", reply)
          \/ /\ health[s] # "rejecting"
             /\ \E reply \in OpenReplies, at \in {"made", "gone"} : Handled(p, at, reply)
       /\ UNCHANGED <<config, ring, accounts, health>>

LoseRequest(p) ==
    /\ wire[p].at = "flight"
    /\ wire' = [wire EXCEPT ![p].at = "gone"]
    /\ UNCHANGED <<config, ring, accounts, health, handler>>

HealthChanges(s) ==
    /\ \E h \in {"up", "rejecting", "down"} : health' = [health EXCEPT ![s] = h]
    /\ UNCHANGED <<config, ring, accounts, handler, wire>>

---------------------------------------------------------------------------
(* The operator, by docs/SECURITY.md §1.  A new step is taken only when    *)
(* every process runs the configuration of the last one.                   *)

RolledOut == \A p \in Processes : ring[p] = config

Rotated(c, key) ==
    [primary |-> key, previous |-> (c.previous \cup {c.primary}) \ {key}]

Rotate(key) ==
    /\ RolledOut
    /\ key # config.primary
    /\ config' = Rotated(config, key)
    /\ UNCHANGED <<ring, accounts, health, handler, wire>>

\* Old keys can be dropped once no row is encrypted under them.
DropKey(key) ==
    /\ RolledOut
    /\ key \in config.previous
    /\ \A s \in Shops : Stored(s) => accounts[s].key # key
    /\ config' = [config EXCEPT !.previous = @ \ {key}]
    /\ UNCHANGED <<ring, accounts, health, handler, wire>>

\* The process starts again, with the configuration that is deployed.
Restart(p) ==
    /\ ring' = [ring EXCEPT ![p] = config]
    /\ Stop(p)
    /\ UNCHANGED <<config, accounts, health, wire>>

---------------------------------------------------------------------------
Init ==
    /\ config \in [primary : MasterKeys, previous : {{}}]
    /\ ring = [p \in Processes |-> config]
    /\ accounts = [s \in Shops |-> Null]
    /\ health \in [Shops -> {"up", "rejecting", "down"}]
    /\ handler = [p \in Processes |-> Idle]
    /\ wire = [p \in Processes |-> NotSent]

\* The steps a running handler takes on its own.
HandlerStep(p) == FinishCheck(p) \/ RecordStatus(p) \/ SendCharge(p) \/ BreakOff(p)

Next ==
    \/ \E p \in Processes :
          \/ \E s \in Shops :
                \/ CreateAccount(p, s) \/ BeginTest(p, s)
                \/ \E amount \in Amounts : BeginCharge(p, s, amount)
          \/ HandlerStep(p) \/ Fail(p) \/ Restart(p)
          \/ ProviderHandles(p) \/ LoseRequest(p)
    \/ \E s \in Shops : HealthChanges(s)
    \/ \E key \in MasterKeys : Rotate(key) \/ DropKey(key)

Spec == Init /\ [][Next]_vars

\* A running handler keeps running, or its process stops; a request on its way
\* arrives or is lost.
HandlerFairness ==
    \A p \in Processes :
        /\ WF_vars(HandlerStep(p))
        /\ WF_vars(ProviderHandles(p) \/ LoseRequest(p))

\* Administrators test each store again and again, and a test that is always
\* repeated is not cut short every time.
AdministratorsTest ==
    \A s \in Shops :
        /\ SF_vars(\E p \in Processes : BeginTest(p, s))
        /\ SF_vars(\E p \in Processes : handler[p].shop = s /\ FinishCheck(p))
        /\ SF_vars(\E p \in Processes : handler[p].shop = s /\ RecordStatus(p))

FairSpec == Spec /\ HandlerFairness /\ AdministratorsTest

---------------------------------------------------------------------------
(* Properties.                                                             *)

\* Every variable holds values of its type; in particular the status of an
\* account is one the CHECK constraint of the column admits.
TypeOK ==
    /\ config \in Rings
    /\ ring \in [Processes -> Rings]
    /\ accounts \in [Shops -> Accounts \cup {Null}]
    /\ health \in [Shops -> {"up", "rejecting", "down"}]
    /\ \A p \in Processes :
          /\ handler[p].at \in {"idle", "check", "record", "credentials", "await"}
          /\ handler[p].at # "idle" => Stored(handler[p].shop)
          /\ handler[p].amount \in Amounts \cup {0}
          /\ handler[p].code \in Codes
          /\ handler[p].echo \in Int
          /\ wire[p].at \in {"none", "flight", "made", "gone"}

\* No stored secret is ever out of reach: a process started now can read every
\* one, whichever process wrote it and however often keys were rotated and
\* dropped, and during a rotation at least one running process can.  (The other
\* processes may be unable to, which ends their requests with an error.)
SecretsReadable ==
    \A s \in Shops : Stored(s) =>
        /\ Decrypts(config, accounts[s].key)
        /\ \E p \in Processes : Decrypts(ring[p], accounts[s].key)

\* The number the provider reads on the wire.
AsRead(value) == 100 * value.whole + 10 * Digit(value, 1) + Digit(value, 2)

\* The provider is asked for the amount of the payment, and its own spelling of
\* that amount is read back as the same number (formatAmountMinor against
\* parseAmountMinor).
AmountsAgree ==
    \A p \in Processes : wire[p].at # "none" =>
        /\ AsRead(wire[p].value) = handler[p].amount
        /\ handler[p].code = "ok" => handler[p].echo = handler[p].amount

\* Tests may overlap, answer late and be recorded in any order: when the provider
\* treats a store in one way for good and the store is tested again and again,
\* its status comes to say so and stays that way.
StatusIs(s, status) == Stored(s) /\ accounts[s].status = status
StatusFollowsProvider ==
    \A s \in Shops :
        /\ <>[](Stored(s) /\ health[s] = "up") => <>[]StatusIs(s, "active")
        /\ <>[](Stored(s) /\ health[s] # "up") => <>[]StatusIs(s, "needs_attention")

---------------------------------------------------------------------------
\* providers.Definitive: these codes settle a payment as refused.
Definitive(code) == code \in {"INVALID_REQUEST", "PROVIDER_AUTH_FAILED"}

OutcomeOf(p) ==
    CASE wire[p].at = "none" -> "none"
      [] wire[p].at # "none" /\ handler[p].at = "await" -> "calling"
      [] wire[p].at # "none" /\ handler[p].at # "await" ->
            IF handler[p].code = "ok" THEN "accepted"
            ELSE IF Definitive(handler[p].code) THEN "refused" ELSE "unknown"

\* The exchange with the provider, as the payments service sees it.
Contract ==
    INSTANCE ProviderCall WITH
        Callers <- Processes,
        outcome <- [p \in Processes |-> OutcomeOf(p)],
        made    <- [p \in Processes |-> wire[p].at = "made"]

\* The adapter keeps the contract the payments service relies on: whatever the
\* provider answers, an accepted payment exists, a refused one does not and will
\* not, also when the answer is lost or the request is carried out late.
ImplementsProviderCall == Contract!Spec
=============================================================================
