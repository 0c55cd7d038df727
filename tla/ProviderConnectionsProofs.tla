--------------------- MODULE ProviderConnectionsProofs ---------------------
(***************************************************************************)
(* Amounts survive the way to the provider and back, no stored secret is   *)
(* ever out of reach, and the adapter keeps the contract of a provider     *)
(* call, for every number of processes, stores, keys and amounts           *)
(* (AmountsAgree, SecretsReadable, TypeOK and ImplementsProviderCall of    *)
(* ProviderConnections).                                                   *)
(***************************************************************************)
EXTENDS ProviderConnections, TLAPS

\* What is ever sent as an amount.
SentValues == {NotANumber} \cup {FormatAmountMinor(a) : a \in Amounts \cup {0}}

HandlerRecords ==
    [at : {"idle", "check", "record", "credentials", "await"},
     shop : Shops \cup {Null}, amount : Amounts \cup {0}, code : Codes, echo : Int]

WireRecords == [at : {"none", "flight", "made", "gone"}, value : SentValues]

\* A busy handler works for a stored account, and has no result before it sends
\* its request.  A call belongs to the request of
\* its process, which has not moved on; it asks for the amount as it was
\* formatted, and what was read back is that amount.
Consistent(h, w, table) ==
    /\ h.at # "idle" => h.shop \in Shops /\ table[h.shop] # Null
    /\ h.at = "credentials" => h.code = "none"
    /\ w.at # "none" =>
          /\ h.at \in {"idle", "await"}
          /\ w.value = FormatAmountMinor(h.amount)
          /\ h.code = "ok" => h.echo = h.amount

HandlersConsistent ==
    /\ handler \in [Processes -> HandlerRecords]
    /\ wire \in [Processes -> WireRecords]
    /\ \A p \in Processes : Consistent(handler[p], wire[p], accounts)

TablesTyped ==
    /\ config \in Rings
    /\ ring \in [Processes -> Rings]
    /\ accounts \in [Shops -> Accounts \cup {Null}]
    /\ health \in [Shops -> {"up", "rejecting", "down"}]

\* Whatever a running process encrypts with is among the deployed keys.
RunningKeysKnown == \A p \in Processes : ring[p].primary \in Keys(config)

ConnectionsInv ==
    TablesTyped /\ HandlersConsistent /\ RunningKeysKnown /\ SecretsReadable

\* A process at rest.
LEMMA RestRecords ==
    Idle \in HandlerRecords /\ NotSent \in WireRecords
  <1>1. Idle \in HandlerRecords
    BY DEF Idle, HandlerRecords, Codes
  <1>2. NotANumber \in SentValues
    BY Zenon DEF SentValues
  <1>3. NotSent \in WireRecords
    BY <1>2 DEF NotSent, WireRecords
  <1> QED
    BY <1>1, <1>3

---------------------------------------------------------------------------
(* Amounts.                                                                *)

\* Kopecks are the roubles, the tens and the units that are written.
LEMMA DecimalDigits ==
    ASSUME NEW n \in Nat
    PROVE  /\ n \div 100 \in Nat
           /\ (n % 100) \div 10 \in Nat
           /\ n % 10 \in Nat
           /\ 100 * (n \div 100) + 10 * ((n % 100) \div 10) + (n % 10) = n
  <1> DEFINE q == n \div 100
             k == n % 100
  <1>1. q \in Nat /\ k \in Nat /\ n = 100 * q + k
    OBVIOUS
  <1>2. k \div 10 \in Nat /\ k % 10 \in Nat /\ k = 10 * (k \div 10) + (k % 10)
    BY <1>1
  <1>3. n % 10 = k % 10
    BY <1>1
  <1> QED
    BY <1>1, <1>2, <1>3

\* An amount is written as a whole part and two decimals.
LEMMA FormattedAmount ==
    ASSUME NEW n \in Nat
    PROVE  /\ FormatAmountMinor(n).numeric = TRUE
           /\ ~FormatAmountMinor(n).negative
           /\ FormatAmountMinor(n).whole = n \div 100
           /\ FormatAmountMinor(n).fraction = <<(n % 100) \div 10, n % 10>>
  <1> DEFINE m == IF n < 0 THEN -n ELSE n
             f == FormatAmountMinor(n)
  <1>1. m = n
    <2>1. ~(n < 0)
      OBVIOUS
    <2> QED BY <2>1
  <1>2. f = [numeric |-> TRUE, negative |-> n < 0, whole |-> m \div 100,
             fraction |-> <<(m % 100) \div 10, m % 10>>]
    BY Zenon DEF FormatAmountMinor
  <1>3. f.fraction = <<(m % 100) \div 10, m % 10>>
    BY <1>2
  <1>4. f.numeric = TRUE /\ f.negative = (n < 0) /\ f.whole = m \div 100
    BY <1>2
  <1>5. ~f.negative
    <2>1. ~(n < 0)
      OBVIOUS
    <2> QED BY <1>4, <2>1
  <1>6. f.fraction = <<(n % 100) \div 10, n % 10>>
    BY <1>1, <1>3
  <1>7. f.whole = n \div 100
    <2> HIDE DEF m, f
    <2> QED BY <1>1, <1>4
  <1> QED
    BY <1>4, <1>5, <1>6, <1>7

\* formatAmountMinor writes a number that is read as the amount.
LEMMA FormatIsRead ==
    ASSUME NEW n \in Nat
    PROVE  /\ AsRead(FormatAmountMinor(n)) = n
           /\ Digit(FormatAmountMinor(n), 1) = (n % 100) \div 10
           /\ Digit(FormatAmountMinor(n), 2) = n % 10
  <1> DEFINE v == FormatAmountMinor(n)
  <1>1. v.fraction = <<(n % 100) \div 10, n % 10>> /\ v.whole = n \div 100
    BY FormattedAmount
  <1>2. Digit(v, 1) = (n % 100) \div 10 /\ Digit(v, 2) = n % 10
    <2> HIDE DEF v
    <2> QED BY <1>1 DEF Digit
  <1> QED
    BY <1>1, <1>2, DecimalDigits DEF AsRead

\* Every spelling of a written amount is read back as the amount.
LEMMA SpellingsAgree ==
    ASSUME NEW n \in Nat, NEW v \in Spellings(FormatAmountMinor(n))
    PROVE  ParseAmountMinor(v) = n /\ v.numeric
  <1> DEFINE w == FormatAmountMinor(n)
             a == (n % 100) \div 10
             b == n % 10
  <1>1. a \in Nat /\ b \in Nat /\ n = 100 * (n \div 100) + 10 * a + b
    BY DecimalDigits
  <1>2. Digit(w, 1) = a /\ Digit(w, 2) = b
    BY FormatIsRead
  <1>3. w.numeric /\ ~w.negative /\ w.whole = n \div 100 /\ w.fraction = <<a, b>>
    BY FormattedAmount
  <1>4. PICK f \in {<<a, b>>, <<a, b, 0>>} \cup (IF b = 0 THEN {<<a>>} ELSE {})
                   \cup (IF a + b = 0 THEN {<<>>} ELSE {}) :
           v = [w EXCEPT !.fraction = f]
    BY <1>2, Zenon DEF Spellings
  <1>5. /\ v.fraction = f /\ v.numeric = w.numeric
        /\ v.negative = w.negative /\ v.whole = w.whole
    <2>1. w = [numeric |-> w.numeric, negative |-> w.negative,
               whole |-> w.whole, fraction |-> w.fraction]
      BY DEF FormatAmountMinor
    <2> HIDE DEF w, a, b
    <2> QED BY <1>4, <2>1
  <1>6. Digit(v, 1) = a /\ Digit(v, 2) = b
    <2> HIDE DEF w, a, b
    <2>1. \/ f = <<a, b>>
          \/ f = <<a, b, 0>>
          \/ f = <<a>> /\ b = 0
          \/ f = <<>> /\ a = 0 /\ b = 0
      BY <1>1, <1>4
    <2>2. CASE f = <<a, b>>
      BY <1>1, <1>5, <2>2 DEF Digit
    <2>3. CASE f = <<a, b, 0>>
      BY <1>1, <1>5, <2>3 DEF Digit
    <2>4. CASE f = <<a>> /\ b = 0
      BY <1>1, <1>5, <2>4 DEF Digit
    <2>5. CASE f = <<>> /\ a = 0 /\ b = 0
      BY <1>1, <1>5, <2>5 DEF Digit
    <2> QED BY <2>1, <2>2, <2>3, <2>4, <2>5
  <1>7. n \div 100 \in Nat
    BY DecimalDigits
  <1> HIDE DEF w, a, b
  <1> QED
    BY <1>1, <1>3, <1>5, <1>6, <1>7 DEF ParseAmountMinor

---------------------------------------------------------------------------
(* Results.                                                                *)

\* A call for n kopecks ends with an error code or with its own amount.
Results(n) ==
    {Failure(code) : code \in Codes \ {"none", "ok"}}
    \cup {[code |-> "ok", status |-> "pending", amount_minor |-> n]}

\* The fields of a result are a code and a number.
LEMMA ResultFields ==
    ASSUME NEW n \in Nat, NEW r \in Results(n)
    PROVE  /\ r.code \in Codes
           /\ r.amount_minor \in Int
           /\ r.code = "ok" => r.amount_minor = n
  <1>1. CASE r = [code |-> "ok", status |-> "pending", amount_minor |-> n]
    BY <1>1 DEF Codes
  <1>2. ASSUME NEW code \in Codes \ {"none", "ok"}, r = Failure(code)
        PROVE  r.code = code /\ r.amount_minor = 0
    BY <1>2 DEF Failure
  <1> QED
    BY <1>1, <1>2 DEF Results

\* An exchange that brought no JSON is an error.
LEMMA BareReplies ==
    /\ CreatePayment(Reply("none", 200, "")) = Failure("PAYMENT_STATE_UNKNOWN")
    /\ CreatePayment(Reply("none", 400, "invalid_request")) = Failure("INVALID_REQUEST")
    /\ CreatePayment(Reply("none", 400, "invalid_credentials")) =
          Failure("PROVIDER_AUTH_FAILED")
    /\ CreatePayment(Reply("none", 401, "")) = Failure("PROVIDER_AUTH_FAILED")
    /\ CreatePayment(Reply("none", 429, "")) = Failure("PROVIDER_UNAVAILABLE")
    /\ CreatePayment(Reply("none", 503, "")) = Failure("PROVIDER_UNAVAILABLE")
    /\ \A error \in {"deadline", "canceled"} :
          CreatePayment(Reply(error, 0, "")) = Failure("PROVIDER_TIMEOUT")
    /\ CreatePayment(Reply("broken", 0, "")) = Failure("PROVIDER_UNAVAILABLE")
    /\ CreatePayment(Reply("unsent", 0, "")) = Failure("INVALID_REQUEST")
  BY DEF CreatePayment, Do, Reply, StatusError, NetworkError, Failure

\* A payment is read from the body of an answer of success.
LEMMA ShownPayments ==
    ASSUME NEW payment
    PROVE  CreatePayment(WithPayment(payment)) = ToProviderPayment(payment)
  <1>1. Do(WithPayment(payment), TRUE) = "ok"
    BY DEF Do, WithPayment
  <1>2. WithPayment(payment).payment = payment
    BY DEF WithPayment
  <1> QED
    BY <1>1, <1>2, Zenon DEF CreatePayment

\* A pending payment with a number is accepted with that number.
LEMMA PendingPayment ==
    ASSUME NEW value, value.numeric
    PROVE  ToProviderPayment(Payment("pending", value)) =
              [code |-> "ok", status |-> "pending",
               amount_minor |-> ParseAmountMinor(value)]
  <1>1. Payment("pending", value).status = "pending"
        /\ Payment("pending", value).value = value
    BY DEF Payment
  <1>2. MapStatus("pending") = "pending" /\ "pending" # "PAYMENT_STATE_UNKNOWN"
    BY DEF MapStatus
  <1> QED
    BY <1>1, <1>2, Zenon DEF ToProviderPayment

\* A status that is not known, or no number, is an unknown outcome.
LEMMA UnreadablePayment ==
    ASSUME NEW status, NEW value, status = "refunded" \/ ~value.numeric
    PROVE  ToProviderPayment(Payment(status, value)) = Failure("PAYMENT_STATE_UNKNOWN")
  <1>1. Payment(status, value).status = status /\ Payment(status, value).value = value
    BY DEF Payment
  <1>2. MapStatus("refunded") = "PAYMENT_STATE_UNKNOWN"
    BY DEF MapStatus
  <1> QED
    BY <1>1, <1>2, Zenon DEF ToProviderPayment

\* The answers a call can get, for a payment of n kopecks at store s.
RepliesTo(n, s) ==
    MadeReplies(FormatAmountMinor(n)) \cup RefusalReplies(s) \cup OpenReplies
    \cup {Reply(error, 0, "") : error \in {"deadline", "canceled", "broken"}}

\* Whatever the answer, the result is one the payments service understands.
LEMMA ResultsUnderstood ==
    ASSUME TablesTyped, NEW n \in Nat, NEW s \in Shops, NEW reply \in RepliesTo(n, s)
    PROVE  CreatePayment(reply) \in Results(n)
  <1>1. /\ Failure("INVALID_REQUEST") \in Results(n)
        /\ Failure("PROVIDER_AUTH_FAILED") \in Results(n)
        /\ Failure("PROVIDER_TIMEOUT") \in Results(n)
        /\ Failure("PROVIDER_UNAVAILABLE") \in Results(n)
        /\ Failure("PAYMENT_STATE_UNKNOWN") \in Results(n)
    BY DEF Results, Codes
  <1>2. ~NotANumber.numeric
    BY DEF NotANumber
  <1>3. CASE reply \in MadeReplies(FormatAmountMinor(n))
    <2>1. ASSUME NEW v \in Spellings(FormatAmountMinor(n)),
                 reply = WithPayment(Payment("pending", v))
          PROVE  CreatePayment(reply) \in Results(n)
      <3>1. CreatePayment(reply) = [code |-> "ok", status |-> "pending", amount_minor |-> n]
        BY <2>1, SpellingsAgree, ShownPayments, PendingPayment, Zenon
      <3> QED BY <3>1, Zenon DEF Results
    <2>2. CASE reply = WithPayment(Payment("pending", NotANumber))
      BY <1>1, <1>2, <2>2, ShownPayments, UnreadablePayment, Zenon
    <2>3. CASE reply = WithPayment(Payment("refunded", FormatAmountMinor(n)))
      BY <1>1, <2>3, ShownPayments, UnreadablePayment, Zenon
    <2>4. CASE reply = Reply("none", 200, "")
      BY <1>1, <2>4, BareReplies, Zenon
    <2> QED BY <1>3, <2>1, <2>2, <2>3, <2>4, Zenon DEF MadeReplies
  <1>4. CASE reply \in RefusalReplies(s)
    <2>1. health[s] \in {"up", "rejecting", "down"}
      BY DEF TablesTyped
    <2>2. \/ reply = Reply("none", 400, "invalid_request")
          \/ reply = Reply("none", 400, "invalid_credentials")
          \/ reply = Reply("none", 401, "")
          \/ reply = Reply("unsent", 0, "")
      BY <1>4, <2>1 DEF RefusalReplies
    <2>3. CASE reply = Reply("none", 400, "invalid_request")
      BY <1>1, <2>3, BareReplies, Zenon
    <2>4. CASE reply = Reply("none", 400, "invalid_credentials")
      BY <1>1, <2>4, BareReplies, Zenon
    <2>5. CASE reply = Reply("none", 401, "")
      <3>1. CreatePayment(Reply("none", 401, "")) = Failure("PROVIDER_AUTH_FAILED")
        BY BareReplies
      <3> QED BY <1>1, <2>5, <3>1, Zenon
    <2>6. CASE reply = Reply("unsent", 0, "")
      <3>1. CreatePayment(Reply("unsent", 0, "")) = Failure("INVALID_REQUEST")
        BY BareReplies
      <3> QED BY <1>1, <2>6, <3>1, Zenon
    <2> QED BY <2>2, <2>3, <2>4, <2>5, <2>6
  <1>5. CASE reply \in OpenReplies
    <2>1. CASE reply = WithPayment(Payment("", NotANumber))
      BY <1>1, <1>2, <2>1, ShownPayments, UnreadablePayment, Zenon
    <2>2. CASE reply = Reply("none", 503, "")
      <3>1. CreatePayment(Reply("none", 503, "")) = Failure("PROVIDER_UNAVAILABLE")
        BY BareReplies
      <3> QED BY <1>1, <2>2, <3>1, Zenon
    <2>3. CASE reply = Reply("none", 429, "")
      <3>1. CreatePayment(Reply("none", 429, "")) = Failure("PROVIDER_UNAVAILABLE")
        BY BareReplies
      <3> QED BY <1>1, <2>3, <3>1, Zenon
    <2> QED BY <1>5, <2>1, <2>2, <2>3, Zenon DEF OpenReplies
  <1>6. CASE reply \in {Reply(error, 0, "") : error \in {"deadline", "canceled", "broken"}}
    <2>1. PICK error \in {"deadline", "canceled", "broken"} : reply = Reply(error, 0, "")
      BY <1>6, Zenon
    <2>2. CASE error \in {"deadline", "canceled"}
      BY <1>1, <2>1, <2>2, BareReplies, Zenon
    <2>3. CASE error = "broken"
      BY <1>1, <2>1, <2>3, BareReplies, Zenon
    <2> QED BY <2>2, <2>3
  <1> QED
    BY <1>3, <1>4, <1>5, <1>6, Zenon DEF RepliesTo

\* The read of a connectivity test leads to a code as well.
LEMMA CheckCoded ==
    ASSUME TablesTyped, NEW s \in Shops, NEW reply \in CheckReplies(s)
    PROVE  CheckConnection(reply) \in Codes
  <1>1. health[s] \in {"up", "rejecting", "down"}
    BY DEF TablesTyped
  <1>2. \/ reply = Reply("none", 200, "")
        \/ reply = Reply("none", 401, "")
        \/ reply = Reply("none", 400, "invalid_credentials")
        \/ reply = Reply("none", 429, "")
        \/ reply = Reply("none", 503, "")
        \/ reply = Reply("timeout", 0, "")
        \/ reply = Reply("broken", 0, "")
    BY <1>1 DEF CheckReplies
  <1>3. /\ Do(Reply("none", 200, ""), FALSE) = "ok"
        /\ Do(Reply("none", 401, ""), FALSE) = "PROVIDER_AUTH_FAILED"
        /\ Do(Reply("none", 400, "invalid_credentials"), FALSE) = "PROVIDER_AUTH_FAILED"
        /\ Do(Reply("none", 429, ""), FALSE) = "PROVIDER_UNAVAILABLE"
        /\ Do(Reply("none", 503, ""), FALSE) = "PROVIDER_UNAVAILABLE"
        /\ Do(Reply("timeout", 0, ""), FALSE) = "PROVIDER_TIMEOUT"
        /\ Do(Reply("broken", 0, ""), FALSE) = "PROVIDER_UNAVAILABLE"
    BY DEF Do, Reply, StatusError, NetworkError
  <1>4. Do(reply, FALSE) \in {"ok", "PROVIDER_AUTH_FAILED", "PROVIDER_UNAVAILABLE",
                             "PROVIDER_TIMEOUT"}
    <2>1. CASE reply = Reply("none", 200, "")
      BY <1>3, <2>1, Zenon
    <2>2. CASE reply = Reply("none", 401, "")
      BY <1>3, <2>2, Zenon
    <2>3. CASE reply = Reply("none", 400, "invalid_credentials")
      BY <1>3, <2>3, Zenon
    <2>4. CASE reply = Reply("none", 429, "")
      BY <1>3, <2>4, Zenon
    <2>5. CASE reply = Reply("none", 503, "")
      BY <1>3, <2>5, Zenon
    <2>6. CASE reply = Reply("timeout", 0, "")
      BY <1>3, <2>6, Zenon
    <2>7. CASE reply = Reply("broken", 0, "")
      BY <1>3, <2>7, Zenon
    <2> QED BY <1>2, <2>1, <2>2, <2>3, <2>4, <2>5, <2>6, <2>7, Zenon
  <1>5. Do(reply, FALSE) \in Codes
    BY <1>4 DEF Codes
  <1> QED
    BY <1>5 DEF CheckConnection

---------------------------------------------------------------------------
(* Keys.                                                                   *)

\* The invariant holds before anything is stored.
LEMMA ConnectionsInit == Init => ConnectionsInv
  <1> SUFFICES ASSUME Init PROVE ConnectionsInv
    OBVIOUS
  <1>1. TablesTyped
    BY DEF Init, TablesTyped, Rings
  <1>2. Idle \in HandlerRecords /\ NotSent \in WireRecords
    BY RestRecords
  <1>3. Consistent(Idle, NotSent, accounts)
    BY DEF Consistent, Idle, NotSent
  <1>4. HandlersConsistent
    BY <1>2, <1>3 DEF Init, HandlersConsistent
  <1>5. RunningKeysKnown
    BY DEF Init, RunningKeysKnown, Keys
  <1>6. SecretsReadable
    BY DEF Init, SecretsReadable, Stored
  <1> QED
    BY <1>1, <1>4, <1>5, <1>6 DEF ConnectionsInv

\* What a step must not undo: no account is removed.
AccountsStay == \A s \in Shops : Stored(s) => Stored(s)'

KeysKept == TablesTyped' /\ RunningKeysKnown' /\ SecretsReadable' /\ AccountsStay

\* A step that leaves rings and accounts alone disturbs nothing about keys.
LEMMA TablesUnchanged ==
    ASSUME ConnectionsInv, UNCHANGED <<config, ring, accounts>>,
           health' \in [Shops -> {"up", "rejecting", "down"}]
    PROVE  KeysKept
  BY DEF ConnectionsInv, KeysKept, TablesTyped, RunningKeysKnown, SecretsReadable,
         AccountsStay, Stored, Decrypts, Keys

\* A new account is under a key that is deployed and running.
LEMMA CreateAccountKeepsKeys ==
    ASSUME ConnectionsInv, NEW p \in Processes, NEW s \in Shops, CreateAccount(p, s)
    PROVE  KeysKept
  <1> DEFINE row == [key |-> ring[p].primary, status |-> "active"]
  <1>1. row \in Accounts /\ row # Null
    BY NullAssumption DEF ConnectionsInv, TablesTyped, Rings, Accounts, Statuses
  <1>2. accounts' = [accounts EXCEPT ![s] = row] /\ UNCHANGED <<config, ring, health>>
    BY DEF CreateAccount, Encrypt
  <1>3. Decrypts(config, row.key) /\ Decrypts(ring[p], row.key)
    BY DEF Decrypts, ConnectionsInv, RunningKeysKnown, Keys
  <1> HIDE DEF row
  <1>4. TablesTyped' /\ RunningKeysKnown' /\ AccountsStay
    BY <1>1, <1>2 DEF ConnectionsInv, TablesTyped, RunningKeysKnown, AccountsStay, Stored
  <1>5. SecretsReadable'
    BY <1>2, <1>3 DEF ConnectionsInv, TablesTyped, SecretsReadable, Stored, Decrypts
  <1> QED
    BY <1>4, <1>5 DEF KeysKept

\* A status is written without touching the envelope.
LEMMA RecordStatusKeepsKeys ==
    ASSUME ConnectionsInv, NEW p \in Processes, RecordStatus(p)
    PROVE  KeysKept
  <1> DEFINE s == handler[p].shop
             row == UpdateProviderAccountStatus(accounts[s], TestedStatus(handler[p].code))
  <1>1. s \in Shops /\ accounts[s] \in Accounts
    BY DEF ConnectionsInv, HandlersConsistent, Consistent, RecordStatus, TablesTyped
  <1>2. row \in Accounts /\ row # Null /\ row.key = accounts[s].key
    BY <1>1, NullAssumption
       DEF UpdateProviderAccountStatus, TestedStatus, Accounts, Statuses
  <1>3. accounts' = [accounts EXCEPT ![s] = row] /\ UNCHANGED <<config, ring, health>>
    BY DEF RecordStatus
  <1> HIDE DEF row, s
  <1>4. TablesTyped' /\ RunningKeysKnown' /\ AccountsStay
    BY <1>1, <1>2, <1>3
       DEF ConnectionsInv, TablesTyped, RunningKeysKnown, AccountsStay, Stored
  <1>5. SecretsReadable'
    BY <1>1, <1>2, <1>3, NullAssumption
       DEF ConnectionsInv, TablesTyped, SecretsReadable, Stored, Decrypts
  <1> QED
    BY <1>4, <1>5 DEF KeysKept

\* A process that starts again can read every stored secret.
LEMMA RestartKeepsKeys ==
    ASSUME ConnectionsInv, NEW p \in Processes, Restart(p)
    PROVE  KeysKept
  <1>1. ring' = [ring EXCEPT ![p] = config] /\ UNCHANGED <<config, accounts, health>>
    BY DEF Restart
  <1>2. TablesTyped' /\ AccountsStay
    BY <1>1 DEF ConnectionsInv, TablesTyped, AccountsStay, Stored
  <1>3. RunningKeysKnown'
    BY <1>1 DEF ConnectionsInv, TablesTyped, RunningKeysKnown, Keys
  <1>4. ring'[p] = config
    BY <1>1 DEF ConnectionsInv, TablesTyped
  <1>5. SecretsReadable'
    BY <1>1, <1>4 DEF ConnectionsInv, SecretsReadable, Stored, Decrypts
  <1> QED
    BY <1>2, <1>3, <1>5 DEF KeysKept

\* A rotation keeps every key that processes and accounts may still need.
LEMMA RotateKeepsKeys ==
    ASSUME ConnectionsInv, NEW key \in MasterKeys, Rotate(key)
    PROVE  KeysKept
  <1>1. config' = Rotated(config, key) /\ UNCHANGED <<ring, accounts, health>>
    BY DEF Rotate
  <1>2. config' \in Rings /\ Keys(config) \subseteq Keys(config')
    BY <1>1 DEF ConnectionsInv, TablesTyped, Rings, Rotated, Keys
  <1>3. TablesTyped' /\ AccountsStay
    BY <1>1, <1>2 DEF ConnectionsInv, TablesTyped, AccountsStay, Stored
  <1>4. RunningKeysKnown'
    BY <1>1, <1>2 DEF ConnectionsInv, RunningKeysKnown
  <1>5. SecretsReadable'
    BY <1>1, <1>2 DEF ConnectionsInv, SecretsReadable, Stored, Decrypts
  <1> QED
    BY <1>3, <1>4, <1>5 DEF KeysKept

\* The key that is dropped is nobody's primary and no account's.
LEMMA DropKeyKeepsKeys ==
    ASSUME ConnectionsInv, NEW key \in MasterKeys, DropKey(key)
    PROVE  KeysKept
  <1>1. /\ config' = [config EXCEPT !.previous = @ \ {key}]
        /\ UNCHANGED <<ring, accounts, health>>
    BY DEF DropKey
  <1>2. /\ config' \in Rings
        /\ config.primary \in Keys(config')
        /\ \A k : k \in Keys(config) /\ k # key => k \in Keys(config')
    BY <1>1 DEF ConnectionsInv, TablesTyped, Rings, Keys
  <1>3. TablesTyped' /\ AccountsStay
    BY <1>1, <1>2 DEF ConnectionsInv, TablesTyped, AccountsStay, Stored
  <1>4. RunningKeysKnown'
    BY <1>1, <1>2 DEF DropKey, RolledOut, RunningKeysKnown
  <1>5. SecretsReadable'
    BY <1>1, <1>2 DEF DropKey, ConnectionsInv, SecretsReadable, Stored, Decrypts
  <1> QED
    BY <1>3, <1>4, <1>5 DEF KeysKept

\* No step puts a stored secret out of reach.
LEMMA StepKeepsKeys == ConnectionsInv /\ [Next]_vars => KeysKept
  <1> SUFFICES ASSUME ConnectionsInv, [Next]_vars PROVE KeysKept
    OBVIOUS
  <1>1. health \in [Shops -> {"up", "rejecting", "down"}]
    BY DEF ConnectionsInv, TablesTyped
  <1>2. ASSUME NEW p \in Processes, NEW s \in Shops, CreateAccount(p, s)
        PROVE  KeysKept
    BY <1>2, CreateAccountKeepsKeys
  <1>3. ASSUME NEW p \in Processes, NEW s \in Shops, BeginTest(p, s)
        PROVE  KeysKept
    BY <1>1, <1>3, TablesUnchanged DEF BeginTest
  <1>4. ASSUME NEW p \in Processes, NEW s \in Shops, NEW amount \in Amounts,
               BeginCharge(p, s, amount)
        PROVE  KeysKept
    BY <1>1, <1>4, TablesUnchanged DEF BeginCharge
  <1>5. ASSUME NEW p \in Processes, RecordStatus(p)
        PROVE  KeysKept
    BY <1>5, RecordStatusKeepsKeys
  <1>6. ASSUME NEW p \in Processes, FinishCheck(p) \/ SendCharge(p) \/ BreakOff(p)
        PROVE  KeysKept
    BY <1>1, <1>6, TablesUnchanged DEF FinishCheck, SendCharge, BreakOff
  <1>7. ASSUME NEW p \in Processes, Fail(p) \/ ProviderHandles(p) \/ LoseRequest(p)
        PROVE  KeysKept
    BY <1>1, <1>7, TablesUnchanged DEF Fail, ProviderHandles, LoseRequest
  <1>8. ASSUME NEW p \in Processes, Restart(p)
        PROVE  KeysKept
    BY <1>8, RestartKeepsKeys
  <1>9. ASSUME NEW s \in Shops, HealthChanges(s)
        PROVE  KeysKept
    <2>1. health' \in [Shops -> {"up", "rejecting", "down"}]
      BY <1>1, <1>9 DEF HealthChanges
    <2> QED BY <1>9, <2>1, TablesUnchanged DEF HealthChanges
  <1>10. ASSUME NEW key \in MasterKeys, Rotate(key) \/ DropKey(key)
         PROVE  KeysKept
    BY <1>10, RotateKeepsKeys, DropKeyKeepsKeys
  <1>11. CASE UNCHANGED vars
    BY <1>1, <1>11, TablesUnchanged DEF vars
  <1> QED
    BY <1>2, <1>3, <1>4, <1>5, <1>6, <1>7, <1>8, <1>9, <1>10, <1>11
       DEF Next, HandlerStep

---------------------------------------------------------------------------
(* Handlers and calls.                                                     *)

HandlersKept == HandlersConsistent'

\* A step of one process is consistent if its own records are.
LEMMA OneProcessMoves ==
    ASSUME ConnectionsInv, AccountsStay, NEW p \in Processes,
           NEW h \in HandlerRecords, NEW w \in WireRecords,
           handler' = [handler EXCEPT ![p] = h],
           wire' = [wire EXCEPT ![p] = w],
           Consistent(h, w, accounts')
    PROVE  HandlersKept
  <1>1. handler' \in [Processes -> HandlerRecords] /\ wire' \in [Processes -> WireRecords]
    BY DEF ConnectionsInv, HandlersConsistent
  <1>2. ASSUME NEW q \in Processes
        PROVE  Consistent(handler'[q], wire'[q], accounts')
    <2>1. CASE q = p
      BY <2>1 DEF ConnectionsInv, HandlersConsistent
    <2>2. CASE q # p
      <3>1. handler'[q] = handler[q] /\ wire'[q] = wire[q]
        BY <2>2 DEF ConnectionsInv, HandlersConsistent
      <3>2. Consistent(handler[q], wire[q], accounts)
        BY DEF ConnectionsInv, HandlersConsistent
      <3> QED BY <3>1, <3>2 DEF Consistent, AccountsStay, Stored
    <2> QED BY <2>1, <2>2
  <1> QED
    BY <1>1, <1>2 DEF HandlersKept, HandlersConsistent

\* A step that leaves handlers and calls alone disturbs nothing about them.
LEMMA HandlersUnchanged ==
    ASSUME ConnectionsInv, AccountsStay, UNCHANGED <<handler, wire>>
    PROVE  HandlersKept
  BY DEF HandlersKept, ConnectionsInv, HandlersConsistent, Consistent, AccountsStay, Stored

\* The records of a process, and what is known of them.
LEMMA ProcessRecords ==
    ASSUME ConnectionsInv, NEW p \in Processes
    PROVE  /\ handler[p] \in HandlerRecords
           /\ wire[p] \in WireRecords
           /\ Consistent(handler[p], wire[p], accounts)
           /\ wire = [wire EXCEPT ![p] = wire[p]]
           /\ handler = [handler EXCEPT ![p] = handler[p]]
           /\ handler[p].amount \in Nat
  <1>1. handler[p] \in HandlerRecords
    BY DEF ConnectionsInv, HandlersConsistent
  <1>2. handler[p].amount \in Nat
    <2>1. handler[p].amount \in Amounts \cup {0}
      BY <1>1 DEF HandlerRecords
    <2>2. \A a \in Amounts : a \in Nat
      BY AmountsAssumption
    <2> QED BY <2>1, <2>2
  <1> QED
    BY <1>1, <1>2 DEF ConnectionsInv, HandlersConsistent

\* A handler that begins has sent nothing yet.
LEMMA BeginKeepsHandlers ==
    ASSUME ConnectionsInv, AccountsStay, NEW p \in Processes, NEW s \in Shops,
           NEW label \in {"check", "credentials"}, NEW amount \in Amounts \cup {0},
           Begin(p, label, s, amount), Stored(s),
           wire' = [wire EXCEPT ![p] = NotSent]
    PROVE  HandlersKept
  <1> DEFINE h == [Idle EXCEPT !.at = label, !.shop = s, !.amount = amount]
  <1>1. h.at = label /\ h.shop = s /\ h.code = "none"
    BY DEF Idle
  <1>2. h \in HandlerRecords
    BY RestRecords DEF HandlerRecords
  <1>3. Stored(s)'
    BY DEF AccountsStay
  <1>4. Consistent(h, NotSent, accounts')
    BY <1>1, <1>3 DEF Consistent, NotSent, Stored
  <1>5. handler' = [handler EXCEPT ![p] = h]
    BY DEF Begin
  <1> HIDE DEF h
  <1> QED
    BY <1>2, <1>4, <1>5, RestRecords, OneProcessMoves

\* A test keeps its account while it waits for the provider.
LEMMA FinishCheckKeepsHandlers ==
    ASSUME ConnectionsInv, AccountsStay, NEW p \in Processes, FinishCheck(p)
    PROVE  HandlersKept
  <1>1. PICK reply \in CheckReplies(handler[p].shop) :
           handler' = [handler EXCEPT ![p].at = "record",
                                      ![p].code = CheckConnection(reply)]
    BY DEF FinishCheck
  <1>2. handler[p].at = "check" /\ wire' = wire
    BY DEF FinishCheck
  <1>3. handler[p].shop \in Shops /\ accounts[handler[p].shop] # Null
        /\ wire[p].at = "none"
    BY <1>2, ProcessRecords DEF Consistent, WireRecords
  <1>4. CheckConnection(reply) \in Codes
    BY <1>3, CheckCoded DEF ConnectionsInv
  <1> DEFINE c == CheckConnection(reply)
             h == [handler[p] EXCEPT !.at = "record", !.code = c]
  <1> HIDE DEF c
  <1>5. h \in HandlerRecords /\ h.shop = handler[p].shop
    BY <1>4, ProcessRecords DEF HandlerRecords, c
  <1>6. Consistent(h, wire[p], accounts')
    BY <1>3, <1>5 DEF Consistent, AccountsStay, Stored
  <1>7. handler' = [handler EXCEPT ![p] = h] /\ wire' = [wire EXCEPT ![p] = wire[p]]
    BY <1>1, <1>2, ProcessRecords DEF c, ConnectionsInv, HandlersConsistent
  <1> HIDE DEF h
  <1> QED
    BY <1>5, <1>6, <1>7, ProcessRecords, OneProcessMoves

\* A handler that has recorded its status is at rest.
LEMMA RecordStatusKeepsHandlers ==
    ASSUME ConnectionsInv, AccountsStay, NEW p \in Processes, RecordStatus(p)
    PROVE  HandlersKept
  <1>1. handler' = [handler EXCEPT ![p] = Idle] /\ wire' = wire /\ handler[p].at = "record"
    BY DEF RecordStatus
  <1>2. wire[p].at = "none"
    BY <1>1, ProcessRecords DEF Consistent, WireRecords
  <1>3. Consistent(Idle, wire[p], accounts')
    BY <1>2 DEF Consistent, Idle
  <1> QED
    BY <1>1, <1>3, ProcessRecords, RestRecords, OneProcessMoves

\* The request asks for the formatted amount.
LEMMA SendChargeKeepsHandlers ==
    ASSUME ConnectionsInv, AccountsStay, NEW p \in Processes, SendCharge(p)
    PROVE  HandlersKept
  <1> DEFINE sent == [at |-> "flight", value |-> FormatAmountMinor(handler[p].amount)]
             h == [handler[p] EXCEPT !.at = "await"]
  <1>1. handler[p].at = "credentials"
    BY DEF SendCharge
  <1>2. handler[p].shop \in Shops /\ accounts[handler[p].shop] # Null
        /\ wire[p].at = "none"
    BY <1>1, ProcessRecords DEF Consistent, WireRecords
  <1>3. CASE handler' = [handler EXCEPT ![p] = Idle] /\ wire' = wire
    <2>1. Consistent(Idle, wire[p], accounts')
      BY <1>2 DEF Consistent, Idle
    <2> QED BY <1>3, <2>1, ProcessRecords, RestRecords, OneProcessMoves
  <1>4. CASE Goto(p, "await") /\ wire' = [wire EXCEPT ![p] = sent]
    <2>1. sent \in WireRecords /\ sent.value = FormatAmountMinor(handler[p].amount)
      <3>1. FormatAmountMinor(handler[p].amount) \in SentValues
        BY ProcessRecords DEF HandlerRecords, SentValues
      <3> QED BY <3>1 DEF WireRecords
    <2>2. /\ h \in HandlerRecords
          /\ h.at = "await" /\ h.shop = handler[p].shop
          /\ h.amount = handler[p].amount /\ h.code = handler[p].code
      BY ProcessRecords DEF HandlerRecords
    <2>3. handler[p].code # "ok"
      BY <1>1, ProcessRecords DEF Consistent
    <2>4. Consistent(h, sent, accounts')
      BY <1>2, <2>1, <2>2, <2>3 DEF Consistent, AccountsStay, Stored
    <2>5. handler' = [handler EXCEPT ![p] = h]
      BY <1>4 DEF Goto, ConnectionsInv, HandlersConsistent
    <2> HIDE DEF h, sent
    <2> QED BY <1>4, <2>1, <2>2, <2>4, <2>5, OneProcessMoves
  <1> QED
    BY <1>3, <1>4 DEF SendCharge

\* What the adapter makes of an exchange reaches the handler that waits for it.
LEMMA DeliverKeepsHandlers ==
    ASSUME ConnectionsInv, AccountsStay, NEW p \in Processes, NEW reply,
           NEW w \in WireRecords, wire' = [wire EXCEPT ![p] = w],
           w.at # "none" => wire[p].at # "none" /\ w.value = wire[p].value,
           Deliver(p, reply),
           handler[p].at = "await" =>
              CreatePayment(reply) \in Results(handler[p].amount)
    PROVE  HandlersKept
  <1> DEFINE r == CreatePayment(reply)
             h == [handler[p] EXCEPT !.at = "idle", !.code = r.code,
                                     !.echo = r.amount_minor]
  <1>1. CASE handler[p].at = "await"
    <2>1. r.code \in Codes /\ r.amount_minor \in Int
          /\ (r.code = "ok" => r.amount_minor = handler[p].amount)
      BY <1>1, ProcessRecords, ResultFields
    <2> HIDE DEF r
    <2>2. /\ h \in HandlerRecords /\ h.at = "idle" /\ h.amount = handler[p].amount
          /\ h.code = r.code /\ h.echo = r.amount_minor
      BY <2>1, ProcessRecords DEF HandlerRecords
    <2>3. Consistent(h, w, accounts')
      BY <2>1, <2>2, ProcessRecords DEF Consistent
    <2>4. handler' = [handler EXCEPT ![p] = h]
      BY <1>1 DEF Deliver, r, ConnectionsInv, HandlersConsistent
    <2> HIDE DEF h
    <2> QED BY <2>2, <2>3, <2>4, OneProcessMoves
  <1>2. CASE handler[p].at # "await"
    <2>1. handler' = [handler EXCEPT ![p] = handler[p]]
      BY <1>2 DEF Deliver, ConnectionsInv, HandlersConsistent
    <2>2. Consistent(handler[p], w, accounts')
      BY ProcessRecords DEF Consistent, AccountsStay, Stored
    <2> QED BY <2>1, <2>2, ProcessRecords, OneProcessMoves
  <1> QED
    BY <1>1, <1>2

\* A handler that gives up has an error and no amount.
LEMMA BreakOffKeepsHandlers ==
    ASSUME ConnectionsInv, AccountsStay, NEW p \in Processes, BreakOff(p)
    PROVE  HandlersKept
  <1>1. PICK error \in {"deadline", "canceled", "broken"} : Deliver(p, Reply(error, 0, ""))
    BY DEF BreakOff
  <1>2. handler[p].shop \in Shops
    BY ProcessRecords DEF BreakOff, Consistent
  <1>3. CreatePayment(Reply(error, 0, "")) \in Results(handler[p].amount)
    BY <1>2, ProcessRecords, ResultsUnderstood DEF RepliesTo, ConnectionsInv
  <1>4. wire' = [wire EXCEPT ![p] = wire[p]]
    BY ProcessRecords DEF BreakOff
  <1> QED
    BY <1>1, <1>3, <1>4, ProcessRecords, DeliverKeepsHandlers

\* An answer is about the request it answers, also when nobody waits for it.
LEMMA ProviderHandlesKeepsHandlers ==
    ASSUME ConnectionsInv, AccountsStay, NEW p \in Processes, ProviderHandles(p)
    PROVE  HandlersKept
  <1>1. PICK reply \in MadeReplies(wire[p].value) \cup RefusalReplies(handler[p].shop)
                      \cup OpenReplies,
             at \in {"made", "gone"} : Handled(p, at, reply)
    BY DEF ProviderHandles
  <1> DEFINE w == [wire[p] EXCEPT !.at = at]
  <1>2. wire[p].at = "flight"
    BY DEF ProviderHandles
  <1>3. w \in WireRecords /\ w.value = wire[p].value
    BY ProcessRecords DEF WireRecords
  <1>4. wire' = [wire EXCEPT ![p] = w] /\ Deliver(p, reply)
    BY <1>1 DEF Handled, ConnectionsInv, HandlersConsistent
  <1>5. ASSUME handler[p].at = "await"
        PROVE  CreatePayment(reply) \in Results(handler[p].amount)
    <2>1. /\ handler[p].shop \in Shops
          /\ wire[p].value = FormatAmountMinor(handler[p].amount)
      BY <1>2, <1>5, ProcessRecords DEF Consistent
    <2>2. reply \in RepliesTo(handler[p].amount, handler[p].shop)
      BY <1>1, <2>1 DEF RepliesTo
    <2> QED BY <2>1, <2>2, ProcessRecords, ResultsUnderstood DEF ConnectionsInv
  <1> HIDE DEF w
  <1> QED
    BY <1>2, <1>3, <1>4, <1>5, DeliverKeepsHandlers

\* A lost request changes nothing that its handler knows.
LEMMA LoseRequestKeepsHandlers ==
    ASSUME ConnectionsInv, AccountsStay, NEW p \in Processes, LoseRequest(p)
    PROVE  HandlersKept
  <1> DEFINE w == [wire[p] EXCEPT !.at = "gone"]
  <1>1. w \in WireRecords /\ w.value = wire[p].value
    BY ProcessRecords DEF WireRecords
  <1>2. wire' = [wire EXCEPT ![p] = w] /\ handler' = handler /\ wire[p].at = "flight"
    BY DEF LoseRequest, ConnectionsInv, HandlersConsistent
  <1> HIDE DEF w
  <1>3. Consistent(handler[p], w, accounts')
    BY <1>1, <1>2, ProcessRecords DEF Consistent, AccountsStay, Stored
  <1> QED
    BY <1>1, <1>2, <1>3, ProcessRecords, OneProcessMoves

\* A handler that stops leaves the call it was waiting for or had made.
LEMMA StopKeepsHandlers ==
    ASSUME ConnectionsInv, AccountsStay, NEW p \in Processes, Stop(p), wire' = wire
    PROVE  HandlersKept
  <1> DEFINE h == [handler[p] EXCEPT !.at = "idle"]
  <1>1. CASE handler[p].at \in {"idle", "await"}
    <2>1. /\ h \in HandlerRecords /\ h.at = "idle" /\ h.amount = handler[p].amount
          /\ h.code = handler[p].code /\ h.echo = handler[p].echo
      BY ProcessRecords DEF HandlerRecords
    <2>2. Consistent(h, wire[p], accounts')
      BY <2>1, ProcessRecords DEF Consistent
    <2>3. handler' = [handler EXCEPT ![p] = h]
      BY <1>1 DEF Stop, ConnectionsInv, HandlersConsistent
    <2> HIDE DEF h
    <2> QED BY <2>1, <2>2, <2>3, ProcessRecords, OneProcessMoves
  <1>2. CASE handler[p].at \notin {"idle", "await"}
    <2>1. handler' = [handler EXCEPT ![p] = Idle]
      BY <1>2 DEF Stop, ConnectionsInv, HandlersConsistent
    <2>2. wire[p].at = "none"
      BY <1>2, ProcessRecords DEF Consistent, WireRecords
    <2>3. Consistent(Idle, wire[p], accounts')
      BY <2>2 DEF Consistent, Idle
    <2> QED BY <2>1, <2>3, ProcessRecords, RestRecords, OneProcessMoves
  <1> QED
    BY <1>1, <1>2

\* Every step keeps handlers and calls consistent.
LEMMA StepKeepsHandlers ==
    ConnectionsInv /\ AccountsStay /\ [Next]_vars => HandlersKept
  <1> SUFFICES ASSUME ConnectionsInv, AccountsStay, [Next]_vars PROVE HandlersKept
    OBVIOUS
  <1>1. ASSUME NEW p \in Processes, NEW s \in Shops, CreateAccount(p, s)
        PROVE  HandlersKept
    BY <1>1, HandlersUnchanged DEF CreateAccount
  <1>2. ASSUME NEW p \in Processes, NEW s \in Shops, BeginTest(p, s)
        PROVE  HandlersKept
    BY <1>2, BeginKeepsHandlers DEF BeginTest
  <1>3. ASSUME NEW p \in Processes, NEW s \in Shops, NEW amount \in Amounts,
               BeginCharge(p, s, amount)
        PROVE  HandlersKept
    BY <1>3, BeginKeepsHandlers DEF BeginCharge
  <1>4. ASSUME NEW p \in Processes, HandlerStep(p)
        PROVE  HandlersKept
    BY <1>4, FinishCheckKeepsHandlers, RecordStatusKeepsHandlers,
       SendChargeKeepsHandlers, BreakOffKeepsHandlers DEF HandlerStep
  <1>5. ASSUME NEW p \in Processes, Fail(p) \/ Restart(p)
        PROVE  HandlersKept
    BY <1>5, StopKeepsHandlers DEF Fail, Restart
  <1>6. ASSUME NEW p \in Processes, ProviderHandles(p) \/ LoseRequest(p)
        PROVE  HandlersKept
    BY <1>6, ProviderHandlesKeepsHandlers, LoseRequestKeepsHandlers
  <1>7. ASSUME NEW s \in Shops, HealthChanges(s)
        PROVE  HandlersKept
    BY <1>7, HandlersUnchanged DEF HealthChanges
  <1>8. ASSUME NEW key \in MasterKeys, Rotate(key) \/ DropKey(key)
        PROVE  HandlersKept
    BY <1>8, HandlersUnchanged DEF Rotate, DropKey
  <1>9. CASE UNCHANGED vars
    BY <1>9, HandlersUnchanged DEF vars
  <1> QED
    BY <1>1, <1>2, <1>3, <1>4, <1>5, <1>6, <1>7, <1>8, <1>9 DEF Next

---------------------------------------------------------------------------
(* The theorems.                                                           *)

\* The inductive invariant behind the theorems.
LEMMA ConnectionsInvariant == Spec => []ConnectionsInv
  <1>1. ConnectionsInv /\ [Next]_vars => ConnectionsInv'
    BY StepKeepsKeys, StepKeepsHandlers DEF KeysKept, HandlersKept, ConnectionsInv
  <1> QED
    BY <1>1, ConnectionsInit, PTL DEF Spec

\* No stored secret is ever out of reach: however many processes encrypt, and in
\* whatever order keys are rotated and dropped and processes restarted, a process
\* started now can read every stored secret, and some running one can
\* (NewCipher, Encrypt and Decrypt of security/cipher.go).
THEOREM SecretsStayReadable == Spec => []SecretsReadable
  <1>1. ConnectionsInv => SecretsReadable
    BY DEF ConnectionsInv
  <1> QED
    BY <1>1, ConnectionsInvariant, PTL

\* For every positive amount of kopecks: the provider is asked for that amount,
\* and whatever spelling of it comes back is read as that amount
\* (formatAmountMinor and parseAmountMinor of yookassa/client.go).
THEOREM AmountsSurvive == Spec => []AmountsAgree
  <1>1. ConnectionsInv => AmountsAgree
    <2> SUFFICES ASSUME ConnectionsInv, NEW p \in Processes, wire[p].at # "none"
                 PROVE  /\ AsRead(wire[p].value) = handler[p].amount
                        /\ handler[p].code = "ok" => handler[p].echo = handler[p].amount
      BY DEF AmountsAgree
    <2>1. /\ wire[p].value = FormatAmountMinor(handler[p].amount)
          /\ handler[p].code = "ok" => handler[p].echo = handler[p].amount
      BY ProcessRecords DEF Consistent
    <2>2. handler[p].amount \in Nat
      BY ProcessRecords
    <2> QED BY <2>1, <2>2, FormatIsRead
  <1> QED
    BY <1>1, ConnectionsInvariant, PTL

\* Every variable keeps its type; in particular every step leaves an account a
\* status that the column admits, and a handler works for an account that is
\* stored (testProvider and callProvider).
THEOREM ConnectionsTyped == Spec => []TypeOK
  <1>1. ConnectionsInv => TypeOK
    <2> SUFFICES ASSUME ConnectionsInv PROVE TypeOK
      OBVIOUS
    <2>1. ASSUME NEW p \in Processes
          PROVE  /\ handler[p].at \in {"idle", "check", "record", "credentials", "await"}
                 /\ handler[p].at # "idle" => Stored(handler[p].shop)
                 /\ handler[p].amount \in Amounts \cup {0}
                 /\ handler[p].code \in Codes
                 /\ handler[p].echo \in Int
                 /\ wire[p].at \in {"none", "flight", "made", "gone"}
      BY ProcessRecords DEF HandlerRecords, WireRecords, Consistent, Stored
    <2> QED BY <2>1 DEF TypeOK, ConnectionsInv, TablesTyped
  <1> QED
    BY <1>1, ConnectionsInvariant, PTL

---------------------------------------------------------------------------
(* The contract of a provider call.                                        *)

OutcomeColumn == [p \in Processes |-> OutcomeOf(p)]
MadeColumn == [p \in Processes |-> wire[p].at = "made"]

\* The outcome of a call, by the records of its process.
OutcomeFor(h, w) ==
    CASE w.at = "none" -> "none"
      [] w.at # "none" /\ h.at = "await" -> "calling"
      [] w.at # "none" /\ h.at # "await" ->
            IF h.code = "ok" THEN "accepted"
            ELSE IF Definitive(h.code) THEN "refused" ELSE "unknown"

\* Until the handler has an answer nothing is made of its call; what it takes
\* for accepted is made, and what it takes for refused is not on its way.
Truthful(h, w) ==
    /\ h.at = "await" => w.at \in {"flight", "gone"} /\ h.code = "none"
    /\ h.at # "await" /\ w.at # "none" /\ h.code = "ok" => w.at = "made"
    /\ h.at # "await" /\ w.at # "none" /\ Definitive(h.code) => w.at = "gone"

ContractInv ==
    ConnectionsInv /\ \A p \in Processes : Truthful(handler[p], wire[p])

\* What may become of the call of a process in one step: old and new are its
\* outcomes, was and is say whether the provider holds the payment.
Lawful(old, was, new, is) ==
    \/ new = old /\ (is <=> was)
    \/ old # "calling" /\ new \in {"none", "calling"} /\ ~is
    \/ old = "unknown" /\ new = "unknown" /\ ~was /\ is
    \/ /\ old = "calling"
       /\ \/ new = "accepted" /\ is
          \/ new = "refused" /\ ~is
          \/ new = "unknown"

\* A step in which the call of one process goes a lawful way is one of the
\* contract, or invisible there.
LEMMA LawfulStep ==
    ASSUME ContractInv, NEW p \in Processes,
           NEW h \in HandlerRecords, NEW w \in WireRecords,
           handler' = [handler EXCEPT ![p] = h],
           wire' = [wire EXCEPT ![p] = w],
           Truthful(h, w), Lawful(OutcomeFor(handler[p], wire[p]), wire[p].at = "made",
                  OutcomeFor(h, w), w.at = "made")
    PROVE  /\ \A q \in Processes : Truthful(handler'[q], wire'[q])
           /\ [Contract!Next]_(Contract!vars)
  <1>1. \A q \in Processes :
           /\ handler'[q] = IF q = p THEN h ELSE handler[q]
           /\ wire'[q] = IF q = p THEN w ELSE wire[q]
    BY DEF ContractInv, ConnectionsInv, HandlersConsistent
  <1>2. \A q \in Processes : Truthful(handler'[q], wire'[q])
    BY <1>1 DEF ContractInv
  <1>3. \A q \in Processes : OutcomeOf(q) = OutcomeFor(handler[q], wire[q])
    BY DEF OutcomeOf, OutcomeFor
  <1>4. \A q \in Processes : OutcomeOf(q)' = OutcomeFor(handler'[q], wire'[q])
    BY DEF OutcomeOf, OutcomeFor
  <1>5. ASSUME NEW o, o = OutcomeFor(h, w)
        PROVE  OutcomeColumn' = [OutcomeColumn EXCEPT ![p] = o]
    <2>1. \A q \in Processes : OutcomeOf(q)' = IF q = p THEN o ELSE OutcomeOf(q)
      BY <1>1, <1>3, <1>4, <1>5
    <2> QED BY <2>1 DEF OutcomeColumn
  <1>6. ASSUME NEW m \in BOOLEAN, m <=> w.at = "made"
        PROVE  MadeColumn' = [MadeColumn EXCEPT ![p] = m]
    BY <1>1, <1>6 DEF MadeColumn
  <1>7. /\ OutcomeColumn[p] = OutcomeFor(handler[p], wire[p])
        /\ MadeColumn[p] <=> wire[p].at = "made"
    BY <1>3 DEF OutcomeColumn, MadeColumn
  <1>8. CASE /\ OutcomeFor(h, w) = OutcomeFor(handler[p], wire[p])
             /\ w.at = "made" <=> wire[p].at = "made"
    <2>1. OutcomeColumn' = OutcomeColumn
      BY <1>1, <1>3, <1>4, <1>8 DEF OutcomeColumn
    <2>2. MadeColumn' = MadeColumn
      BY <1>1, <1>8 DEF MadeColumn
    <2> QED BY <1>2, <2>1, <2>2 DEF Contract!vars, OutcomeColumn, MadeColumn
  <1>9. CASE /\ OutcomeFor(handler[p], wire[p]) # "calling"
             /\ OutcomeFor(h, w) \in {"none", "calling"}
             /\ w.at # "made"
    <2>1. MadeColumn' = [MadeColumn EXCEPT ![p] = FALSE]
      BY <1>6, <1>9
    <2>2. Contract!Call(p) \/ Contract!Forget(p)
      BY <1>5, <1>7, <1>9, <2>1
         DEF Contract!Call, Contract!Forget, OutcomeColumn, MadeColumn
    <2> QED BY <1>2, <2>2 DEF Contract!Next
  <1>10. CASE /\ OutcomeFor(handler[p], wire[p]) = "unknown"
              /\ OutcomeFor(h, w) = "unknown"
              /\ wire[p].at # "made" /\ w.at = "made"
    <2>1. MadeColumn' = [MadeColumn EXCEPT ![p] = TRUE]
      BY <1>6, <1>10
    <2>2. OutcomeColumn' = OutcomeColumn
      BY <1>1, <1>3, <1>4, <1>10 DEF OutcomeColumn
    <2>3. Contract!Make(p)
      BY <1>7, <1>10, <2>1, <2>2 DEF Contract!Make, OutcomeColumn, MadeColumn
    <2> QED BY <1>2, <2>3 DEF Contract!Next
  <1>11. CASE /\ OutcomeFor(handler[p], wire[p]) = "calling"
              /\ \/ OutcomeFor(h, w) = "accepted" /\ w.at = "made"
                 \/ OutcomeFor(h, w) = "refused" /\ w.at # "made"
                 \/ OutcomeFor(h, w) = "unknown"
    <2>1. PICK o \in {"accepted", "refused", "unknown"} : o = OutcomeFor(h, w)
      BY <1>11
    <2>2. PICK m \in BOOLEAN : m <=> w.at = "made"
      OBVIOUS
    <2>3. (o = "accepted" => m) /\ (o = "refused" => ~m)
      BY <1>11, <2>1, <2>2
    <2>4. OutcomeColumn' = [OutcomeColumn EXCEPT ![p] = o]
      BY <1>5, <2>1
    <2>5. MadeColumn' = [MadeColumn EXCEPT ![p] = m]
      BY <1>6, <2>2
    <2>6. OutcomeColumn[p] = "calling"
      BY <1>7, <1>11
    <2>7. Contract!Answer(p)
      BY <2>3, <2>4, <2>5, <2>6, Zenon DEF Contract!Answer, OutcomeColumn, MadeColumn
    <2> QED BY <1>2, <2>7 DEF Contract!Next
  <1> QED BY <1>8, <1>9, <1>10, <1>11 DEF Lawful

\* A handler that waits for no answer to come has a code of its last call; in a
\* record of a process at rest the call is absent, or its code decides.
LEMMA ProcessTruth ==
    ASSUME ContractInv, NEW p \in Processes
    PROVE  /\ ConnectionsInv
           /\ Truthful(handler[p], wire[p])
           /\ handler[p] \in HandlerRecords /\ wire[p] \in WireRecords
           /\ Consistent(handler[p], wire[p], accounts)
           /\ handler[p].at = "credentials" => handler[p].code = "none"
  BY ProcessRecords DEF ContractInv, Consistent

\* A failure carries its code.
LEMMA FailureCode ==
    ASSUME NEW code
    PROVE  Failure(code).code = code
  BY DEF Failure

\* A reply that shows a payment is never taken for a refusal.
LEMMA MadeCodes ==
    ASSUME NEW value, NEW reply \in MadeReplies(value)
    PROVE  CreatePayment(reply).code \in {"ok", "PAYMENT_STATE_UNKNOWN"}
  <1>1. ASSUME NEW payment
        PROVE  ToProviderPayment(payment).code \in {"ok", "PAYMENT_STATE_UNKNOWN"}
    <2>1. CASE MapStatus(payment.status) = "PAYMENT_STATE_UNKNOWN" \/ ~payment.value.numeric
      <3>1. ToProviderPayment(payment) = Failure("PAYMENT_STATE_UNKNOWN")
        BY <2>1, Zenon DEF ToProviderPayment
      <3> QED BY <3>1, FailureCode
    <2>2. CASE ~(MapStatus(payment.status) = "PAYMENT_STATE_UNKNOWN" \/ ~payment.value.numeric)
      <3>1. ToProviderPayment(payment) =
               [code |-> "ok", status |-> MapStatus(payment.status),
                amount_minor |-> ParseAmountMinor(payment.value)]
        BY <2>2, Zenon DEF ToProviderPayment
      <3> QED BY <3>1
    <2> QED BY <2>1, <2>2
  <1>2. \/ \E payment : CreatePayment(reply) = ToProviderPayment(payment)
        \/ CreatePayment(reply) = Failure("PAYMENT_STATE_UNKNOWN")
    <2>1. CASE reply = Reply("none", 200, "")
      BY <2>1, BareReplies, Zenon
    <2>2. ASSUME NEW payment, reply = WithPayment(payment)
          PROVE  CreatePayment(reply) = ToProviderPayment(payment)
      BY <2>2, ShownPayments, Zenon
    <2>3. reply = Reply("none", 200, "") \/ \E payment : reply = WithPayment(payment)
      BY DEF MadeReplies
    <2> QED BY <2>1, <2>2, <2>3
  <1> QED BY <1>1, <1>2, FailureCode

\* A refusal is taken for one.
LEMMA RefusalCodes ==
    ASSUME TablesTyped, NEW s \in Shops, NEW reply \in RefusalReplies(s)
    PROVE  Definitive(CreatePayment(reply).code) /\ CreatePayment(reply).code # "ok"
  <1>1. health[s] \in {"up", "rejecting", "down"}
    BY DEF TablesTyped
  <1>2. \/ reply = Reply("none", 400, "invalid_request")
        \/ reply = Reply("none", 400, "invalid_credentials")
        \/ reply = Reply("none", 401, "")
        \/ reply = Reply("unsent", 0, "")
    BY <1>1 DEF RefusalReplies
  <1>3. \/ CreatePayment(reply) = Failure("INVALID_REQUEST")
        \/ CreatePayment(reply) = Failure("PROVIDER_AUTH_FAILED")
    BY <1>2, BareReplies, Zenon
  <1> QED BY <1>3, FailureCode DEF Definitive

\* An answer that says nothing, or none at all, is taken for neither.
LEMMA OpenCodes ==
    ASSUME NEW reply \in OpenReplies
                \cup {Reply(error, 0, "") : error \in {"deadline", "canceled", "broken"}}
    PROVE  ~Definitive(CreatePayment(reply).code) /\ CreatePayment(reply).code # "ok"
  <1>1. ~NotANumber.numeric
    BY DEF NotANumber
  <1>2. CreatePayment(WithPayment(Payment("", NotANumber))) = Failure("PAYMENT_STATE_UNKNOWN")
    BY <1>1, ShownPayments, UnreadablePayment, Zenon
  <1>3. \/ reply = WithPayment(Payment("", NotANumber))
        \/ reply = Reply("none", 503, "") \/ reply = Reply("none", 429, "")
        \/ reply = Reply("deadline", 0, "") \/ reply = Reply("canceled", 0, "")
        \/ reply = Reply("broken", 0, "")
    BY DEF OpenReplies
  <1>4. /\ CreatePayment(Reply("deadline", 0, "")) = Failure("PROVIDER_TIMEOUT")
        /\ CreatePayment(Reply("canceled", 0, "")) = Failure("PROVIDER_TIMEOUT")
    BY BareReplies
  <1>5. \/ CreatePayment(reply) = Failure("PAYMENT_STATE_UNKNOWN")
        \/ CreatePayment(reply) = Failure("PROVIDER_UNAVAILABLE")
        \/ CreatePayment(reply) = Failure("PROVIDER_TIMEOUT")
    BY <1>2, <1>3, <1>4, BareReplies, Zenon
  <1>6. CreatePayment(reply).code \in
           {"PAYMENT_STATE_UNKNOWN", "PROVIDER_UNAVAILABLE", "PROVIDER_TIMEOUT"}
    BY <1>5, FailureCode
  <1> QED BY <1>6 DEF Definitive

\* A handler that begins, or ends without having sent anything, has no call.
LEMMA NoCallIsLawful ==
    ASSUME NEW h, NEW w, NEW h2, NEW w2, Truthful(h, w), w2.at = "none",
           h2.at # "await", w.at = "none" \/ h.at # "await"
    PROVE  /\ Truthful(h2, w2)
           /\ Lawful(OutcomeFor(h, w), w.at = "made", OutcomeFor(h2, w2), w2.at = "made")
  BY DEF Truthful, Lawful, OutcomeFor

\* A process at rest has no call.
LEMMA RestHasNoCall ==
    Idle.at = "idle" /\ Idle.code = "none" /\ NotSent.at = "none"
  BY DEF Idle, NotSent

\* What a step has to show of the contract.
ContractKept ==
    /\ \A q \in Processes : Truthful(handler'[q], wire'[q])
    /\ [Contract!Next]_(Contract!vars)

\* A step that leaves handlers and calls alone is invisible to the contract.
LEMMA IdleContract ==
    ASSUME ContractInv, UNCHANGED <<handler, wire>>
    PROVE  ContractKept
  <1>1. UNCHANGED Contract!vars
    BY DEF Contract!vars, OutcomeOf
  <1> QED BY <1>1 DEF ContractKept, ContractInv

\* A handler that begins forgets its last call, and an ended one has none.
LEMMA NoCallContract ==
    ASSUME ContractInv, NEW p \in Processes,
           NEW h \in HandlerRecords, NEW w \in WireRecords,
           handler' = [handler EXCEPT ![p] = h], wire' = [wire EXCEPT ![p] = w],
           h.at # "await", w.at = "none",
           wire[p].at = "none" \/ handler[p].at # "await"
    PROVE  ContractKept
  BY ProcessTruth, NoCallIsLawful, LawfulStep DEF ContractKept

\* The request is sent: the handler waits, and nothing is made of it yet.
LEMMA SendChargeContract ==
    ASSUME ContractInv, NEW p \in Processes, SendCharge(p)
    PROVE  ContractKept
  <1> DEFINE sent == [at |-> "flight", value |-> FormatAmountMinor(handler[p].amount)]
             h == [handler[p] EXCEPT !.at = "await"]
  <1>1. /\ handler[p].at = "credentials" /\ wire[p].at = "none"
        /\ handler[p].code = "none"
    BY ProcessTruth DEF SendCharge, Consistent, WireRecords
  <1>2. CASE handler' = [handler EXCEPT ![p] = Idle] /\ wire' = wire
    BY <1>1, <1>2, ProcessTruth, ProcessRecords, RestRecords, RestHasNoCall, NoCallContract
  <1>3. CASE Goto(p, "await") /\ wire' = [wire EXCEPT ![p] = sent]
    <2>1. sent \in WireRecords /\ sent.at = "flight"
      <3>1. FormatAmountMinor(handler[p].amount) \in SentValues
        BY ProcessTruth DEF HandlerRecords, SentValues
      <3> QED BY <3>1 DEF WireRecords
    <2>2. h \in HandlerRecords /\ h.at = "await" /\ h.code = "none"
      BY <1>1, ProcessTruth DEF HandlerRecords
    <2>3. handler' = [handler EXCEPT ![p] = h]
      BY <1>3 DEF Goto, ContractInv, ConnectionsInv, HandlersConsistent
    <2> HIDE DEF h, sent
    <2>4. /\ Truthful(h, sent)
          /\ OutcomeFor(handler[p], wire[p]) = "none" /\ OutcomeFor(h, sent) = "calling"
      BY <1>1, <2>1, <2>2 DEF Truthful, OutcomeFor
    <2>5. Lawful(OutcomeFor(handler[p], wire[p]), wire[p].at = "made",
                 OutcomeFor(h, sent), sent.at = "made")
      BY <2>1, <2>4 DEF Lawful
    <2> QED BY <1>3, <2>1, <2>2, <2>3, <2>4, <2>5, LawfulStep DEF ContractKept
  <1> QED BY <1>2, <1>3 DEF SendCharge

\* What the adapter makes of an exchange is true of the call: accepted only if
\* the provider has made the payment, refused only if it has not and will not.
LEMMA DeliverContract ==
    ASSUME ContractInv, NEW p \in Processes, NEW reply, NEW w \in WireRecords,
           wire' = [wire EXCEPT ![p] = w], Deliver(p, reply),
           \/ handler[p].at = "await"
           \/ handler[p].at = "idle" /\ wire[p].at = "flight",
           wire[p].at # "none" /\ w.at # "none",
           w.at \in {"made", "gone"} \/ w.at = wire[p].at,
           CreatePayment(reply) \in Results(handler[p].amount),
           CreatePayment(reply).code = "ok" => w.at = "made",
           Definitive(CreatePayment(reply).code) => w.at = "gone"
    PROVE  ContractKept
  <1> DEFINE r == CreatePayment(reply)
             h == [handler[p] EXCEPT !.at = "idle", !.code = r.code,
                                     !.echo = r.amount_minor]
  <1>1. CASE handler[p].at = "await"
    <2>1. r.code \in Codes /\ r.amount_minor \in Int
      BY ProcessTruth, ProcessRecords, ResultFields
    <2>2. handler' = [handler EXCEPT ![p] = h]
      BY <1>1 DEF Deliver, ContractInv, ConnectionsInv, HandlersConsistent
    <2>3. (r.code = "ok" => w.at = "made") /\ (Definitive(r.code) => w.at = "gone")
      OBVIOUS
    <2> HIDE DEF r
    <2>4. h \in HandlerRecords /\ h.at = "idle" /\ h.code = r.code
      BY <2>1, ProcessTruth DEF HandlerRecords
    <2> HIDE DEF h
    <2>5. Truthful(h, w)
      BY <2>3, <2>4 DEF Truthful
    <2>6. OutcomeFor(handler[p], wire[p]) = "calling"
      BY <1>1 DEF OutcomeFor
    <2>7. \/ OutcomeFor(h, w) = "accepted" /\ w.at = "made"
          \/ OutcomeFor(h, w) = "refused" /\ w.at # "made"
          \/ OutcomeFor(h, w) = "unknown"
      BY <2>3, <2>4 DEF OutcomeFor
    <2>8. Lawful(OutcomeFor(handler[p], wire[p]), wire[p].at = "made",
                 OutcomeFor(h, w), w.at = "made")
      BY <2>6, <2>7 DEF Lawful
    <2> QED BY <2>2, <2>4, <2>5, <2>8, LawfulStep DEF ContractKept
  <1>2. CASE handler[p].at = "idle" /\ wire[p].at = "flight"
    <2>1. handler' = [handler EXCEPT ![p] = handler[p]]
      BY <1>2 DEF Deliver, ContractInv, ConnectionsInv, HandlersConsistent
    <2>2. handler[p].code # "ok" /\ ~Definitive(handler[p].code)
      BY <1>2, ProcessTruth DEF Truthful
    <2>3. /\ OutcomeFor(handler[p], wire[p]) = "unknown"
          /\ OutcomeFor(handler[p], w) = "unknown"
          /\ Truthful(handler[p], w)
      BY <1>2, <2>2 DEF OutcomeFor, Truthful
    <2>4. Lawful(OutcomeFor(handler[p], wire[p]), wire[p].at = "made",
                 OutcomeFor(handler[p], w), w.at = "made")
      BY <1>2, <2>3 DEF Lawful
    <2> QED BY <2>1, <2>3, <2>4, ProcessTruth, LawfulStep DEF ContractKept
  <1> QED BY <1>1, <1>2

\* A handler that gives up knows nothing of its call.
LEMMA BreakOffContract ==
    ASSUME ContractInv, NEW p \in Processes, BreakOff(p)
    PROVE  ContractKept
  <1>1. PICK error \in {"deadline", "canceled", "broken"} : Deliver(p, Reply(error, 0, ""))
    BY DEF BreakOff
  <1>2. /\ handler[p].at = "await" /\ handler[p].shop \in Shops
        /\ wire[p].at # "none"
    BY ProcessTruth DEF BreakOff, Consistent, Truthful
  <1>3. CreatePayment(Reply(error, 0, "")) \in Results(handler[p].amount)
    BY <1>2, ProcessTruth, ProcessRecords, ResultsUnderstood DEF RepliesTo, ConnectionsInv
  <1>4. /\ ~Definitive(CreatePayment(Reply(error, 0, "")).code)
        /\ CreatePayment(Reply(error, 0, "")).code # "ok"
    BY OpenCodes
  <1>5. wire' = [wire EXCEPT ![p] = wire[p]]
    BY ProcessTruth, ProcessRecords DEF BreakOff
  <1> QED BY <1>1, <1>2, <1>3, <1>4, <1>5, ProcessTruth, DeliverContract

\* The provider carries a call out or not, and says so, or says nothing.
LEMMA ProviderHandlesContract ==
    ASSUME ContractInv, NEW p \in Processes, ProviderHandles(p)
    PROVE  ContractKept
  <1>1. /\ wire[p].at = "flight" /\ handler[p].at \in {"idle", "await"}
        /\ wire[p].value = FormatAmountMinor(handler[p].amount)
        /\ handler[p].amount \in Nat
    BY ProcessTruth, ProcessRecords DEF ProviderHandles, Consistent
  <1>2. PICK reply \in MadeReplies(wire[p].value) \cup RefusalReplies(handler[p].shop)
                      \cup OpenReplies,
             at \in {"made", "gone"} :
            /\ Handled(p, at, reply)
            /\ \/ at = "made" /\ reply \in MadeReplies(wire[p].value)
               \/ at = "gone" /\ reply \in RefusalReplies(handler[p].shop)
               \/ reply \in OpenReplies
    BY DEF ProviderHandles
  <1> DEFINE w == [wire[p] EXCEPT !.at = at]
  <1>3. w \in WireRecords /\ w.at = at
    BY ProcessTruth DEF WireRecords
  <1>4. wire' = [wire EXCEPT ![p] = w] /\ Deliver(p, reply)
    BY <1>2 DEF Handled, ContractInv, ConnectionsInv, HandlersConsistent
  <1> HIDE DEF w
  <1>5. CASE handler[p].at = "await"
    <2>1. handler[p].shop \in Shops
      BY <1>5, ProcessTruth DEF Consistent
    <2>2. CreatePayment(reply) \in Results(handler[p].amount)
      BY <1>1, <1>2, <2>1, ProcessTruth, ResultsUnderstood DEF RepliesTo, ConnectionsInv
    <2>3. /\ CreatePayment(reply).code = "ok" => at = "made"
          /\ Definitive(CreatePayment(reply).code) => at = "gone"
      <3>1. CASE at = "made" /\ reply \in MadeReplies(wire[p].value)
        BY <3>1, MadeCodes DEF Definitive
      <3>2. CASE at = "gone" /\ reply \in RefusalReplies(handler[p].shop)
        BY <2>1, <3>2, RefusalCodes, ProcessTruth DEF ConnectionsInv
      <3>3. CASE reply \in OpenReplies
        BY <3>3, OpenCodes
      <3> QED BY <1>2, <3>1, <3>2, <3>3
    <2> QED BY <1>1, <1>3, <1>4, <1>5, <2>2, <2>3, DeliverContract
  <1>6. CASE handler[p].at = "idle"
    <2>1. handler' = [handler EXCEPT ![p] = handler[p]]
      BY <1>4, <1>6 DEF Deliver, ContractInv, ConnectionsInv, HandlersConsistent
    <2>2. handler[p].code # "ok" /\ ~Definitive(handler[p].code)
      BY <1>1, <1>6, ProcessTruth DEF Truthful
    <2>3. /\ OutcomeFor(handler[p], wire[p]) = "unknown"
          /\ OutcomeFor(handler[p], w) = "unknown"
          /\ Truthful(handler[p], w)
      BY <1>1, <1>3, <1>6, <2>2 DEF OutcomeFor, Truthful
    <2>4. Lawful(OutcomeFor(handler[p], wire[p]), wire[p].at = "made",
                 OutcomeFor(handler[p], w), w.at = "made")
      BY <1>1, <1>3, <2>3 DEF Lawful
    <2> QED BY <1>3, <1>4, <2>1, <2>3, <2>4, ProcessTruth, LawfulStep DEF ContractKept
  <1> QED BY <1>1, <1>5, <1>6

\* A lost request is never carried out, which nobody notices.
LEMMA LoseRequestContract ==
    ASSUME ContractInv, NEW p \in Processes, LoseRequest(p)
    PROVE  ContractKept
  <1> DEFINE w == [wire[p] EXCEPT !.at = "gone"]
  <1>1. w \in WireRecords /\ w.at = "gone" /\ wire[p].at = "flight"
    BY ProcessTruth DEF WireRecords, LoseRequest
  <1>2. wire' = [wire EXCEPT ![p] = w] /\ handler' = [handler EXCEPT ![p] = handler[p]]
    BY ProcessTruth, ProcessRecords DEF LoseRequest, ContractInv, ConnectionsInv, HandlersConsistent
  <1> HIDE DEF w
  <1>3. /\ OutcomeFor(handler[p], w) = OutcomeFor(handler[p], wire[p])
        /\ Truthful(handler[p], w)
    BY <1>1, ProcessTruth DEF OutcomeFor, Truthful
  <1>4. Lawful(OutcomeFor(handler[p], wire[p]), wire[p].at = "made",
               OutcomeFor(handler[p], w), w.at = "made")
    BY <1>1, <1>3 DEF Lawful
  <1> QED BY <1>1, <1>2, <1>3, <1>4, ProcessTruth, LawfulStep DEF ContractKept

\* A handler that stops while it waits leaves an unknown outcome behind.
LEMMA StopContract ==
    ASSUME ContractInv, NEW p \in Processes, Stop(p), wire' = wire
    PROVE  ContractKept
  <1> DEFINE h == [handler[p] EXCEPT !.at = "idle"]
  <1>1. wire' = [wire EXCEPT ![p] = wire[p]]
    BY ProcessTruth, ProcessRecords
  <1>2. CASE handler[p].at \in {"idle", "await"}
    <2>1. h \in HandlerRecords /\ h.at = "idle" /\ h.code = handler[p].code
      BY ProcessTruth DEF HandlerRecords
    <2>2. handler' = [handler EXCEPT ![p] = h]
      BY <1>2 DEF Stop, ContractInv, ConnectionsInv, HandlersConsistent
    <2> HIDE DEF h
    <2>3. Truthful(h, wire[p])
      BY <1>2, <2>1, ProcessTruth DEF Truthful, Definitive
    <2>4. \/ OutcomeFor(h, wire[p]) = OutcomeFor(handler[p], wire[p])
          \/ /\ OutcomeFor(handler[p], wire[p]) = "calling"
             /\ OutcomeFor(h, wire[p]) = "unknown"
      BY <1>2, <2>1, ProcessTruth DEF Truthful, OutcomeFor, Definitive
    <2>5. Lawful(OutcomeFor(handler[p], wire[p]), wire[p].at = "made",
                 OutcomeFor(h, wire[p]), wire[p].at = "made")
      BY <2>4 DEF Lawful
    <2> QED BY <1>1, <2>1, <2>2, <2>3, <2>5, ProcessTruth, LawfulStep DEF ContractKept
  <1>3. CASE handler[p].at \notin {"idle", "await"}
    <2>1. handler' = [handler EXCEPT ![p] = Idle]
      BY <1>3 DEF Stop, ContractInv, ConnectionsInv, HandlersConsistent
    <2>2. wire[p].at = "none"
      BY <1>3, ProcessTruth DEF Consistent, WireRecords
    <2> QED BY <1>1, <2>1, <2>2, ProcessTruth, RestRecords, RestHasNoCall,
               NoCallContract
  <1> QED BY <1>2, <1>3

\* The steps that begin a request, and those of a test.
LEMMA OtherStepsContract ==
    ASSUME ContractInv, NEW p \in Processes,
           \/ \E s \in Shops : \/ BeginTest(p, s)
                               \/ \E amount \in Amounts : BeginCharge(p, s, amount)
           \/ FinishCheck(p) \/ RecordStatus(p)
    PROVE  ContractKept
  <1>1. ASSUME NEW s \in Shops, NEW label \in {"check", "credentials"},
               NEW amount \in Amounts \cup {0}, Begin(p, label, s, amount), Free(p),
               wire' = [wire EXCEPT ![p] = NotSent]
        PROVE  ContractKept
    <2> DEFINE h == [Idle EXCEPT !.at = label, !.shop = s, !.amount = amount]
    <2>1. h \in HandlerRecords /\ h.at = label
      BY RestRecords DEF HandlerRecords
    <2>2. handler' = [handler EXCEPT ![p] = h] /\ handler[p].at = "idle"
      BY <1>1 DEF Begin, Free
    <2> HIDE DEF h
    <2> QED BY <1>1, <2>1, <2>2, RestRecords, RestHasNoCall, NoCallContract
  <1>2. CASE FinishCheck(p) \/ RecordStatus(p)
    <2>1. wire[p].at = "none" /\ wire' = [wire EXCEPT ![p] = wire[p]]
      BY <1>2, ProcessTruth, ProcessRecords
         DEF Consistent, WireRecords, FinishCheck, RecordStatus
    <2>2. CASE RecordStatus(p)
      BY <2>1, <2>2, ProcessTruth, RestRecords, RestHasNoCall, NoCallContract
         DEF RecordStatus
    <2>3. CASE FinishCheck(p)
      <3>1. PICK reply \in CheckReplies(handler[p].shop) :
               handler' = [handler EXCEPT ![p].at = "record",
                                          ![p].code = CheckConnection(reply)]
        BY <2>3 DEF FinishCheck
      <3>2. handler[p].shop \in Shops
        BY <2>3, ProcessTruth DEF FinishCheck, Consistent
      <3>3. CheckConnection(reply) \in Codes
        BY <3>2, CheckCoded, ProcessTruth DEF ConnectionsInv
      <3> DEFINE c == CheckConnection(reply)
                 h == [handler[p] EXCEPT !.at = "record", !.code = c]
      <3> HIDE DEF c
      <3>4. h \in HandlerRecords /\ h.at = "record"
        BY <3>3, ProcessTruth DEF HandlerRecords, c
      <3>5. handler' = [handler EXCEPT ![p] = h]
        BY <3>1 DEF c, ContractInv, ConnectionsInv, HandlersConsistent
      <3> HIDE DEF h
      <3> QED BY <2>1, <3>4, <3>5, ProcessTruth, NoCallContract
    <2> QED BY <1>2, <2>2, <2>3
  <1> QED BY <1>1, <1>2 DEF BeginTest, BeginCharge

\* Every step keeps the contract.
LEMMA StepKeepsContract == ContractInv /\ [Next]_vars => ContractKept
  <1> SUFFICES ASSUME ContractInv, [Next]_vars PROVE ContractKept
    OBVIOUS
  <1>1. CASE \/ \E p \in Processes, s \in Shops : CreateAccount(p, s)
             \/ \E s \in Shops : HealthChanges(s)
             \/ \E key \in MasterKeys : Rotate(key) \/ DropKey(key)
             \/ UNCHANGED vars
    <2>1. UNCHANGED <<handler, wire>>
      BY <1>1 DEF CreateAccount, HealthChanges, Rotate, DropKey, vars
    <2> QED BY <2>1, IdleContract
  <1>2. ASSUME NEW p \in Processes, HandlerStep(p)
        PROVE  ContractKept
    BY <1>2, OtherStepsContract, SendChargeContract, BreakOffContract DEF HandlerStep
  <1>3. ASSUME NEW p \in Processes, Fail(p) \/ Restart(p)
        PROVE  ContractKept
    BY <1>3, StopContract DEF Fail, Restart
  <1> QED BY <1>1, <1>2, <1>3, OtherStepsContract, ProviderHandlesContract,
             LoseRequestContract DEF Next

\* The adapter keeps the contract of a provider call, for every number of
\* processes, stores, keys and amounts: whatever the provider answers, an accepted
\* payment exists, and a refused one does not and never will, also when the answer
\* is lost or the request is carried out late (do, CreatePayment and
\* providers.Definitive).
THEOREM ContractIsKept == Spec => ImplementsProviderCall
  <1>1. Init => Contract!Init /\ \A p \in Processes : Truthful(handler[p], wire[p])
    <2>1. SUFFICES ASSUME Init
                   PROVE  Contract!Init /\ \A p \in Processes : Truthful(handler[p], wire[p])
      OBVIOUS
    <2>2. \A p \in Processes :
             wire[p].at = "none" /\ handler[p].at = "idle" /\ handler[p].code = "none"
      BY <2>1, RestHasNoCall DEF Init
    <2>3. \A p \in Processes : OutcomeOf(p) = "none"
      BY <2>2 DEF OutcomeOf
    <2>4. Contract!Init
      BY <2>2, <2>3 DEF Contract!Init
    <2> QED BY <2>2, <2>4 DEF Truthful
  <1>2. ContractInv /\ [Next]_vars => ContractKept
    BY StepKeepsContract
  <1>3. Init => ContractInv
    BY <1>1, ConnectionsInit DEF ContractInv
  <1>4. ContractInv /\ ConnectionsInv' /\ ContractKept => ContractInv'
    BY DEF ContractInv, ContractKept
  <1>5. ContractKept => [Contract!Next]_(Contract!vars)
    BY DEF ContractKept
  <1>6. Spec => []ContractInv
    BY <1>2, <1>3, <1>4, ConnectionsInvariant, PTL DEF Spec
  <1> QED BY <1>1, <1>2, <1>5, <1>6, PTL DEF Spec, ImplementsProviderCall, Contract!Spec
=============================================================================
