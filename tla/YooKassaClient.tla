--------------------------- MODULE YooKassaClient ---------------------------
(***************************************************************************)
(* The YooKassa adapter (internal/providers/yookassa) as pure operators:   *)
(* how an exchange with the provider becomes a result in the vocabulary of *)
(* internal/providers, and how amounts are written and read.               *)
(*                                                                         *)
(* An exchange is a record: the error that ended it, or "none", the HTTP   *)
(* status, the error code of the body, whether the body decodes as JSON,   *)
(* and the payment it shows.  An amount on the wire is a record: whether   *)
(* it is a number at all, its sign, its whole part, its decimals.          *)
(***************************************************************************)
EXTENDS Integers, Sequences

NotANumber == [numeric |-> FALSE, negative |-> FALSE, whole |-> 0, fraction |-> <<>>]

\* Mutant: the kopecks are written without the leading zero.
FormatWithoutPadding(minor) ==
    LET m == IF minor < 0 THEN -minor ELSE minor
        k == m % 100
    IN [numeric |-> TRUE, negative |-> minor < 0, whole |-> m \div 100,
        fraction |-> IF k < 10 THEN <<k>> ELSE <<k \div 10, k % 10>>]

\* Roubles, a point and two digits.
FormatAmountMinor(minor) ==
    LET m == IF minor < 0 THEN -minor ELSE minor
    IN [numeric |-> TRUE, negative |-> minor < 0, whole |-> m \div 100,
        fraction |-> <<(m % 100) \div 10, m % 10>>]

\* The i-th decimal; those that are not written are zero.
Digit(value, i) == IF i <= Len(value.fraction) THEN value.fraction[i] ELSE 0

\* A single decimal is tens of kopecks, those after the second are cut off, and
\* a sign belongs to the roubles alone.
ParseAmountMinor(value) ==
    (IF value.negative THEN -value.whole ELSE value.whole) * 100
        + 10 * Digit(value, 1) + Digit(value, 2)

---------------------------------------------------------------------------
(* Errors of one exchange.                                                 *)

\* A request that may have reached the provider is never a definitive failure.
NetworkError(error) ==
    IF error \in {"deadline", "canceled", "timeout"}
    THEN "PROVIDER_TIMEOUT" ELSE "PROVIDER_UNAVAILABLE"

\* Mutant: a server error is a refusal like any other answer that is not 2xx.
StatusErrorRefuses(status, code) ==
    IF status \in {401, 403} \/ code = "invalid_credentials"
    THEN "PROVIDER_AUTH_FAILED"
    ELSE IF status = 429 THEN "PROVIDER_UNAVAILABLE" ELSE "INVALID_REQUEST"

\* Malformed credentials are answered with 400 and a code in the body.
StatusError(status, code) ==
    CASE status \in {401, 403} -> "PROVIDER_AUTH_FAILED"
      [] status = 429 \/ status >= 500 -> "PROVIDER_UNAVAILABLE"
      [] status \notin {401, 403, 429} /\ status < 500 ->
            IF code = "invalid_credentials"
            THEN "PROVIDER_AUTH_FAILED" ELSE "INVALID_REQUEST"

\* do: the code of one exchange, or of a request that could not be built and was
\* not sent; "decode" says whether the body is wanted.
Do(reply, decode) ==
    CASE reply.error = "unsent" -> "INVALID_REQUEST"
      [] reply.error \notin {"none", "unsent"} -> NetworkError(reply.error)
      [] reply.error = "none" /\ reply.status \in 200 .. 299 ->
            IF decode /\ ~reply.decodable THEN "PAYMENT_STATE_UNKNOWN" ELSE "ok"
      [] reply.error = "none" /\ reply.status \notin 200 .. 299 ->
            StatusError(reply.status, reply.code)

---------------------------------------------------------------------------
(* The calls.                                                              *)

Failure(code) == [code |-> code, status |-> "", amount_minor |-> 0]

\* An unrecognised status is an error and not a guess.
MapStatus(status) ==
    CASE status \in {"pending", "waiting_for_capture"} -> "pending"
      [] status = "succeeded" -> "succeeded"
      [] status = "canceled"  -> "canceled"
      [] OTHER                -> "PAYMENT_STATE_UNKNOWN"

ToProviderPayment(payment) ==
    IF MapStatus(payment.status) = "PAYMENT_STATE_UNKNOWN" \/ ~payment.value.numeric
    THEN Failure("PAYMENT_STATE_UNKNOWN")
    ELSE [code |-> "ok", status |-> MapStatus(payment.status),
          amount_minor |-> ParseAmountMinor(payment.value)]

\* CreatePayment: what comes back is a payment or a code.
CreatePayment(reply) ==
    IF Do(reply, TRUE) = "ok"
    THEN ToProviderPayment(reply.payment)
    ELSE Failure(Do(reply, TRUE))

\* CheckConnection: a read whose body is not looked at.
CheckConnection(reply) == Do(reply, FALSE)
=============================================================================
