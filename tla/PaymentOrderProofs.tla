------------------------- MODULE PaymentOrderProofs -------------------------
(***************************************************************************)
(* The order lock, the client keys and the attempt numbers, for every      *)
(* number of requests, applications, orders and keys.                      *)
(***************************************************************************)
EXTENDS PaymentCallProofs, FiniteSetTheorems

\* The advisory lock of an order is held by the transaction that took it.
LocksAreHeld ==
    \A r \in Requests : InTransaction(pc[r]) => orderLock[OrderOf(r)] = r

\* A payment is recorded under its own key, and every recorded key names the
\* payment it was spent on; two transactions never insert the same key.
KeysNamePayments ==
    /\ \A p \in Requests, k \in Apps \X Keys :
          idempotency[k] = p <=> Exists(p) /\ KeyOf(p) = k
    /\ \A q, r \in Requests :
          pc[q] = "commit" /\ pc[r] = "commit" /\ KeyOf(q) = KeyOf(r) => q = r

NumberOfAttempts(o) == Cardinality(Attempts(o))

\* What the checks inside the lock have established, label by label, and what
\* therefore still holds when r's transaction relies on it.
ChecksStillHold(r) ==
    /\ pc[r] \in {"keyRecheck", "nextAttempt", "insertPayment", "insertKey", "commit"} =>
          \A p \in Attempts(OrderOf(r)) :
              payments[p].status = "succeeded" =>
                  payments[p].attempt = NumberOfAttempts(OrderOf(r))
    /\ pc[r] \in {"nextAttempt", "insertPayment", "insertKey", "commit"} =>
          ~RecordedAlike(r)
    /\ pc[r] \in {"insertPayment", "insertKey", "commit"} =>
          attempt[r] = NumberOfAttempts(OrderOf(r)) + 1
    /\ pc[r] \in {"insertKey", "commit"} =>
          \A p \in Attempts(OrderOf(r)) : ~Active(p)
    /\ pc[r] = "commit" => idempotency[KeyOf(r)] = Null
    /\ pc[r] = "raced" => idempotency[KeyOf(r)] # Null
    /\ pc[r] = "replay" => RecordedAlike(r)

\* The attempts of an order are numbered without gaps, only the latest may be
\* unfinished, and at most one was added after a success.
AttemptsInOrder(o) ==
    /\ {payments[q].attempt : q \in Attempts(o)} = 1 .. NumberOfAttempts(o)
    /\ \A p, q \in Attempts(o) : payments[p].attempt = payments[q].attempt => p = q
    /\ \A p \in Attempts(o) : Active(p) => payments[p].attempt = NumberOfAttempts(o)
    /\ \A p \in Attempts(o) :
          payments[p].status = "succeeded" =>
              payments[p].attempt >= NumberOfAttempts(o) - 1

\* A request answered with a payment was answered with the one of its key.
AnswerNamesPayment(r) ==
    result[r].payment # Null =>
        /\ idempotency[KeyOf(r)] = result[r].payment
        /\ input[result[r].payment] = input[r]

OrderInv ==
    /\ CallInv
    /\ LocksAreHeld
    /\ KeysNamePayments
    /\ \A r \in Requests : ChecksStillHold(r) /\ AnswerNamesPayment(r)
    /\ \A o \in Apps \X Orders : AttemptsInOrder(o)

---------------------------------------------------------------------------
\* The tables and locals that the order invariant is about.
LEMMA OrderVariables ==
    ASSUME OrderInv
    PROVE  /\ TypeInv
           /\ input \in [Requests -> Inputs]
           /\ idempotency \in [Apps \X Keys -> Requests \cup {Null}]
           /\ orderLock \in [Apps \X Orders -> Requests \cup {Null}]
           /\ attempt \in [Requests -> Nat]
           /\ \A r \in Requests : OrderOf(r) \in Apps \X Orders /\ KeyOf(r) \in Apps \X Keys
  BY DEF OrderInv, CallInv, SettlementInv, TypeInv, TypeOK, OrderOf, KeyOf, Inputs

\* What a request asks for is its order, its key and the rest of its body.
LEMMA InputParts ==
    ASSUME TypeOK, NEW p \in Requests, NEW q \in Requests
    PROVE  /\ input[p] = input[q] => OrderOf(p) = OrderOf(q) /\ KeyOf(p) = KeyOf(q)
           /\ KeyOf(p) = KeyOf(q) /\ RequestHash(p) = RequestHash(q) => input[p] = input[q]
<1>1. input[p] \in Inputs /\ input[q] \in Inputs
  BY DEF TypeOK
<1> QED BY <1>1 DEF Inputs, OrderOf, KeyOf, RequestHash

\* An order has finitely many attempts.
LEMMA AttemptsCounted ==
    ASSUME NEW o
    PROVE  IsFiniteSet(Attempts(o)) /\ NumberOfAttempts(o) \in Nat
<1>1. Attempts(o) \subseteq Requests
  BY DEF Attempts
<1> QED BY <1>1, RequestsAssumption, FS_Subset, FS_CardinalityType DEF NumberOfAttempts

\* NextAttemptNumber is one more than the number of attempts, as long as they
\* are numbered without gaps.
LEMMA NextNumber ==
    ASSUME NEW o, AttemptsInOrder(o)
    PROVE  NextAttemptNumber(o) = NumberOfAttempts(o) + 1
<1> DEFINE n == NumberOfAttempts(o)
           S == {payments[p].attempt : p \in Attempts(o)} \cup {0}
<1>1. S = (1 .. n) \cup {0} /\ n \in Nat
  BY AttemptsCounted DEF AttemptsInOrder
<1> HIDE DEF n, S
<1>2. n \in S /\ \A m \in S : n >= m
  BY <1>1
<1>3. Max(S) \in S /\ \A m \in S : Max(S) >= m
  BY <1>2 DEF Max
<1>4. Max(S) = n
  BY <1>1, <1>2, <1>3
<1> QED BY <1>4 DEF NextAttemptNumber, n, S

---------------------------------------------------------------------------
(* Every step but a commit leaves the attempts and the keys as they are.   *)

\* No payment is added, no key is recorded, no finished payment is taken up
\* again, and only an unfinished one succeeds.
TablesKept ==
    /\ RowsKept
    /\ idempotency' = idempotency
    /\ \A p \in Requests :
          /\ Active(p)' => Active(p)
          /\ payments'[p].status = "succeeded" =>
                payments[p].status = "succeeded" \/ Active(p)

\* A step that writes no table changes no row.
LEMMA SameRowsKept ==
    ASSUME UNCHANGED <<input, payments, idempotency>>
    PROVE  TablesKept
  BY DEF TablesKept, RowsKept, Exists, Active

\* A statement that writes one row, keeping its attempt number, and does not
\* reopen it.
LEMMA OneRowKept ==
    ASSUME CallInv, NEW p \in Requests, NEW row, SetRow(p, row), Exists(p),
           UNCHANGED <<input, idempotency>>,
           row.attempt = payments[p].attempt, row.status # "absent",
           row = payments[p] \/ Active(p)
    PROVE  TablesKept
<1>1. \A q \in Requests : payments'[q] = IF q = p THEN row ELSE payments[q]
  BY CallVariables DEF SetRow
<1> QED BY <1>1 DEF TablesKept, RowsKept, Exists, Active

\* No step of a create request or of the provider but a commit adds a row, renumbers
\* one or reopens one.
LEMMA HandlerKeepsTables ==
    ASSUME CallInv, NEW r \in Requests,
           \/ Validate(r) \/ Fail(r) \/ ProviderStep(r)
           \/ HandlerStep(r) /\ ~Commit(r)
    PROVE  TablesKept
<1> USE DEF database, external, locals
<1>1. CASE MarkCreating(r) \/ SaveAccepted(r) \/ SaveFailed(r)
  <2>1. /\ Exists(r) /\ Active(r) /\ payments[r] \in PaymentRows
        /\ payments[r].status # "absent"
    BY <1>1, CallVariables
       DEF MarkCreating, SaveAccepted, SaveFailed, CallInv, CallInvOf,
           RowFollowsHandler, Exists, Active, Terminal
  <2>2. answer[r].code = "ok" => answer[r].url \in ConfirmationUrls
    BY CallVariables, AnswerTypes
  <2>3. PICK row : /\ row.attempt = payments[r].attempt
                   /\ row.status # "absent"
                   /\ SetRow(r, row)
    BY <1>1, <2>1, <2>2, RowUpdates DEF MarkCreating, SaveAccepted, SaveFailed
  <2>4. UNCHANGED <<input, idempotency>>
    BY <1>1 DEF MarkCreating, SaveAccepted, SaveFailed
  <2> QED BY <2>1, <2>3, <2>4, OneRowKept
<1>2. CASE \/ Validate(r) \/ LookupKey(r) \/ CheckPaid(r) \/ RereadKey(r) \/ Replay(r)
           \/ Fail(r) \/ ReadBack(r) \/ StartOperation(r) \/ CallProvider(r)
           \/ CompleteOperation(r)
  <2>1. UNCHANGED <<input, payments, idempotency>>
    BY <1>2 DEF Validate, LookupKey, CheckPaid, RereadKey, Replay, Fail, ReadBack,
                StartOperation, CallProvider, CompleteOperation
  <2> QED BY <2>1, SameRowsKept
<1>3. CASE \/ LockOrderForPayment(r) \/ RecheckPaid(r) \/ RecheckKey(r)
           \/ ReadNextAttempt(r) \/ InsertPayment(r) \/ InsertKey(r)
  <2>1. UNCHANGED <<input, payments, idempotency>>
    BY <1>3 DEF LockOrderForPayment, RecheckPaid, RecheckKey, ReadNextAttempt,
                InsertPayment, InsertKey
  <2> QED BY <2>1, SameRowsKept
<1>4. CASE ProviderTimeout(r) \/ ProviderStep(r)
  <2>1. UNCHANGED <<input, payments, idempotency>>
    BY <1>4 DEF ProviderTimeout, ProviderStep, ProviderAccepts, ProviderRefuses,
                ProviderFails, ProviderSettles
  <2> QED BY <2>1, SameRowsKept
<1> QED BY <1>1, <1>2, <1>3, <1>4 DEF HandlerStep

\* Nor does a status read, which leaves the handlers and the locks alone as well.
LEMMA ReadsKeepTables ==
    ASSUME CallInv, NEW g \in Readers,
           \/ \E app \in Apps, p \in Requests : BeginRefresh(g, app, p)
           \/ RefreshStep(g)
    PROVE  TablesKept /\ UNCHANGED <<orderLock, pc, attempt, result>>
<1> USE DEF database, external, locals
<1>1. UNCHANGED <<input, idempotency, orderLock, pc, attempt, result>>
  BY DEF RefreshStep, BeginRefresh, FetchStatus, ApplyRefresh, AbandonRefresh
<1>2. CASE ApplyRefresh(g)
  <2>1. PICK p \in Requests :
            /\ p = reads[g].payment /\ Exists(p) /\ payments[p] \in PaymentRows
            /\ reads[g].next \in ProviderStatuses
    BY <1>2, CallVariables
       DEF ApplyRefresh, CallInv, SettlementInv, TypeInv, ReadsHaveRows
  <2>2. PICK row : /\ row = ApplyProviderStatus(payments[p], reads[g].next)
                   /\ SetRow(p, row)
    BY <1>2, <2>1 DEF ApplyRefresh
  <2>3. row.attempt = payments[p].attempt /\ row.status # "absent"
    BY <2>1, <2>2, RowUpdates DEF Exists
  <2>4. row = payments[p] \/ Active(p)
    BY <2>1, <2>2 DEF ApplyProviderStatus, Active
  <2> QED BY <1>1, <2>1, <2>2, <2>3, <2>4, OneRowKept
<1>3. CASE ~ApplyRefresh(g)
  <2>1. payments' = payments
    BY <1>3 DEF RefreshStep, BeginRefresh, FetchStatus, AbandonRefresh
  <2> QED BY <1>1, <2>1, SameRowsKept
<1> QED BY <1>1, <1>2, <1>3

\* What such a step leaves true of the orders, the keys and the answers.
LEMMA KeptTables ==
    ASSUME OrderInv, TablesKept
    PROVE  /\ \A r \in Requests : OrderOf(r)' = OrderOf(r) /\ KeyOf(r)' = KeyOf(r)
           /\ \A o : Attempts(o)' = Attempts(o) /\ NumberOfAttempts(o)' = NumberOfAttempts(o)
           /\ \A o \in Apps \X Orders : AttemptsInOrder(o)'
           /\ \A p \in Requests, k \in Apps \X Keys :
                 idempotency'[k] = p <=> Exists(p)' /\ KeyOf(p)' = k
<1>1. \A r \in Requests : OrderOf(r)' = OrderOf(r) /\ KeyOf(r)' = KeyOf(r)
  BY DEF TablesKept, RowsKept, OrderOf, KeyOf
<1>2. ASSUME NEW o
      PROVE  Attempts(o)' = Attempts(o) /\ NumberOfAttempts(o)' = NumberOfAttempts(o)
  <2>1. Attempts(o)' = Attempts(o)
    BY <1>1 DEF TablesKept, RowsKept, Attempts
  <2> QED BY <2>1 DEF NumberOfAttempts
<1>3. ASSUME NEW o \in Apps \X Orders
      PROVE  AttemptsInOrder(o)'
  <2>1. AttemptsInOrder(o)
    BY DEF OrderInv
  <2>2. \A p \in Attempts(o) : p \in Requests /\ payments'[p].attempt = payments[p].attempt
    BY DEF Attempts, TablesKept, RowsKept
  <2>3. {payments'[q].attempt : q \in Attempts(o)} = 1 .. NumberOfAttempts(o)
    BY <2>1, <2>2 DEF AttemptsInOrder
  <2>4. \A p, q \in Attempts(o) : payments'[p].attempt = payments'[q].attempt => p = q
    BY <2>1, <2>2 DEF AttemptsInOrder
  <2>5. \A p \in Attempts(o) : Active(p)' => payments'[p].attempt = NumberOfAttempts(o)
    BY <2>1, <2>2 DEF AttemptsInOrder, TablesKept
  <2>6. \A p \in Attempts(o) :
           payments'[p].status = "succeeded" =>
               payments'[p].attempt >= NumberOfAttempts(o) - 1
    BY <2>1, <2>2, AttemptsCounted DEF AttemptsInOrder, TablesKept
  <2> QED BY <1>2, <2>3, <2>4, <2>5, <2>6 DEF AttemptsInOrder
<1>4. \A p \in Requests, k \in Apps \X Keys :
         idempotency'[k] = p <=> Exists(p)' /\ KeyOf(p)' = k
  BY <1>1 DEF OrderInv, KeysNamePayments, TablesKept, RowsKept
<1> QED BY <1>1, <1>2, <1>3, <1>4

\* Whatever a handler has checked still holds as long as it stays where it is:
\* only an unfinished payment can succeed behind its back, and that is the latest.
LEMMA KeptChecks ==
    ASSUME OrderInv, TablesKept, NEW r \in Requests,
           pc'[r] = pc[r], attempt'[r] = attempt[r]
    PROVE  ChecksStillHold(r)'
<1> DEFINE o == OrderOf(r)
<1>1. /\ ChecksStillHold(r) /\ AttemptsInOrder(o)
      /\ r \in Requests /\ o \in Apps \X Orders
      /\ \A p \in Attempts(o) : p \in Requests
  BY OrderVariables DEF OrderInv, Attempts
<1>2. /\ OrderOf(r)' = o /\ KeyOf(r)' = KeyOf(r)
      /\ input' = input /\ idempotency' = idempotency
  BY KeptTables DEF TablesKept, RowsKept
<1>3. /\ Attempts(OrderOf(r))' = Attempts(o)
      /\ NumberOfAttempts(OrderOf(r))' = NumberOfAttempts(o)
  <2>1. Attempts(OrderOf(r))' = Attempts(o)
    BY <1>2, KeptTables DEF Attempts, TablesKept, RowsKept
  <2> QED BY <2>1 DEF NumberOfAttempts
<1>4. \A p \in Attempts(o) :
         /\ payments'[p].attempt = payments[p].attempt
         /\ Active(p)' => Active(p)
         /\ payments'[p].status = "succeeded" =>
               payments[p].status = "succeeded" \/ payments[p].attempt = NumberOfAttempts(o)
  BY <1>1 DEF TablesKept, RowsKept, AttemptsInOrder
<1>5. RecordedAlike(r)' <=> RecordedAlike(r)
  BY <1>2 DEF RecordedAlike
<1> QED BY <1>1, <1>2, <1>3, <1>4, <1>5 DEF ChecksStillHold

\* A lock changes hands only between transactions: a step of r keeps the locks if
\* it keeps the lock table and opens no transaction, or releases r's lock and
\* ends its transaction.
LEMMA KeptLocks ==
    ASSUME OrderInv, NEW r \in Requests, input' = input,
           \A q \in Requests \ {r} : pc'[q] = pc[q],
           \/ orderLock' = orderLock /\ (InTransaction(pc'[r]) => InTransaction(pc[r]))
           \/ orderLock' = Unlocked(r) /\ ~InTransaction(pc'[r])
    PROVE  LocksAreHeld'
<1>1. ASSUME NEW q \in Requests, InTransaction(pc'[q])
      PROVE  orderLock'[OrderOf(q)] = q
  <2>1. OrderOf(q) \in Apps \X Orders
    BY OrderVariables
  <2>2. InTransaction(pc[q]) /\ (orderLock' = orderLock \/ q # r)
    BY <1>1
  <2>3. orderLock[OrderOf(q)] = q
    BY <2>2 DEF OrderInv, LocksAreHeld
  <2> QED BY <2>1, <2>2, <2>3 DEF Unlocked
<1>2. \A q \in Requests : OrderOf(q)' = OrderOf(q)
  BY DEF OrderOf
<1> QED BY <1>1, <1>2 DEF LocksAreHeld

\* What is left to show for a step of r that adds no payment.
LEMMA HandlerKeepsOrder ==
    ASSUME OrderInv, CallInv', TablesKept, NEW r \in Requests,
           \A q \in Requests \ {r} :
               pc'[q] = pc[q] /\ attempt'[q] = attempt[q] /\ result'[q] = result[q],
           LocksAreHeld', ChecksStillHold(r)', AnswerNamesPayment(r)',
           pc'[r] = "commit" =>
               \A q \in Requests \ {r} : ~(pc[q] = "commit" /\ KeyOf(q) = KeyOf(r))
    PROVE  OrderInv'
<1>1. \A q \in Requests : ChecksStillHold(q)'
  BY KeptChecks
<1>2. ASSUME NEW q \in Requests PROVE AnswerNamesPayment(q)'
  <2>1. CASE q # r
    BY <2>1, KeptTables DEF OrderInv, AnswerNamesPayment, TablesKept, RowsKept
  <2> QED BY <2>1
<1>3. KeysNamePayments'
  BY KeptTables DEF OrderInv, KeysNamePayments
<1> QED BY <1>1, <1>2, <1>3, KeptTables DEF OrderInv

---------------------------------------------------------------------------
(* The order invariant, action by action.                                  *)

Checking == {"keyRecheck", "nextAttempt", "insertPayment", "insertKey", "commit",
             "raced", "replay"}

\* The handler answers its client, without a payment or with the one of its key,
\* and has released its lock if it held one.
LEMMA RespondOrder ==
    ASSUME OrderInv, CallInv', TablesKept, NEW r \in Requests, NEW outcome, NEW p,
           Respond(r, outcome, p),
           p # Null => idempotency[KeyOf(r)] = p /\ input[p] = input[r],
           orderLock' = Unlocked(r) \/ orderLock' = orderLock
    PROVE  OrderInv'
<1>1. /\ pc'[r] = "done" /\ result'[r].payment = p
      /\ \A q \in Requests \ {r} :
            pc'[q] = pc[q] /\ attempt'[q] = attempt[q] /\ result'[q] = result[q]
  BY CallVariables, OrderVariables DEF OrderInv, Respond, Goto
<1>2. AnswerNamesPayment(r)'
  BY <1>1, KeptTables DEF AnswerNamesPayment, TablesKept, RowsKept
<1>3. ChecksStillHold(r)'
  BY <1>1 DEF ChecksStillHold
<1>4. LocksAreHeld'
  <2>1. ~InTransaction(pc'[r])
    BY <1>1 DEF InTransaction
  <2> QED BY <1>1, <2>1, KeptLocks DEF TablesKept, RowsKept
<1> QED BY <1>1, <1>2, <1>3, <1>4, HandlerKeepsOrder

\* The handler goes on to a statement that relies on no check.
LEMMA GotoOrder ==
    ASSUME OrderInv, CallInv', TablesKept, NEW r \in Requests, NEW label,
           Goto(r, label), label \notin Checking, label # "paidRecheck",
           UNCHANGED <<attempt, result, orderLock>>
    PROVE  OrderInv'
<1>1. /\ pc'[r] = label
      /\ \A q \in Requests \ {r} : pc'[q] = pc[q]
  BY CallVariables DEF OrderInv, Goto
<1>2. AnswerNamesPayment(r)'
  BY KeptTables DEF OrderInv, AnswerNamesPayment, TablesKept, RowsKept
<1>3. ChecksStillHold(r)'
  BY <1>1 DEF ChecksStillHold, Checking
<1>4. LocksAreHeld'
  <2>1. ~InTransaction(pc'[r])
    BY <1>1 DEF InTransaction, Checking
  <2> QED BY <1>1, <2>1, KeptLocks DEF TablesKept, RowsKept
<1>5. pc'[r] # "commit"
  BY <1>1 DEF Checking
<1> QED BY <1>1, <1>2, <1>3, <1>4, <1>5, HandlerKeepsOrder

\* A found key leads to its replay: it names a payment of that key, and the equal
\* hash says that the order and the body are the same too.
LEMMA ReplayOrder ==
    ASSUME OrderInv, CallInv', TablesKept, NEW r \in Requests, ReplayKey(r),
           idempotency[KeyOf(r)] # Null, orderLock' = orderLock
    PROVE  OrderInv'
<1> USE DEF locals
<1>1. CASE RequestHash(r) = RequestHash(idempotency[KeyOf(r)])
  <2>1. PICK p \in Requests : idempotency[KeyOf(r)] = p
    BY OrderVariables
  <2>2. KeyOf(p) = KeyOf(r)
    BY <2>1, OrderVariables DEF OrderInv, KeysNamePayments
  <2>3. input[p] = input[r]
    BY <1>1, <2>1, <2>2, InputParts, OrderVariables DEF TypeInv
  <2>4. /\ pc'[r] = "replay" /\ attempt' = attempt /\ result' = result
        /\ \A q \in Requests \ {r} : pc'[q] = pc[q]
    BY <1>1, CallVariables DEF OrderInv, ReplayKey, Goto
  <2>5. RecordedAlike(r)'
    BY <2>1, <2>3, KeptTables, NullAssumption DEF RecordedAlike, TablesKept, RowsKept
  <2>6. ChecksStillHold(r)'
    BY <2>4, <2>5 DEF ChecksStillHold
  <2>7. AnswerNamesPayment(r)'
    BY <2>4, KeptTables DEF OrderInv, AnswerNamesPayment, TablesKept, RowsKept
  <2>8. LocksAreHeld'
    BY <2>4, KeptLocks DEF InTransaction, TablesKept, RowsKept
  <2> QED BY <2>4, <2>6, <2>7, <2>8, HandlerKeepsOrder
<1>2. CASE RequestHash(r) # RequestHash(idempotency[KeyOf(r)])
  <2>1. Respond(r, "ErrIdempotencyConflict", Null)
    BY <1>2 DEF ReplayKey
  <2> QED BY <2>1, RespondOrder
<1> QED BY <1>1, <1>2

\* The statements outside the transaction.
LEMMA OutsideOrder ==
    ASSUME OrderInv, CallInv', TablesKept, NEW r \in Requests,
           \/ Validate(r) \/ LookupKey(r) \/ CheckPaid(r) \/ RereadKey(r)
           \/ MarkCreating(r) \/ StartOperation(r) \/ CallProvider(r)
           \/ SaveAccepted(r) \/ SaveFailed(r) \/ CompleteOperation(r) \/ Fail(r)
    PROVE  OrderInv'
<1> USE DEF database, external, locals
<1>1. CASE LookupKey(r) \/ RereadKey(r)
  <2>1. orderLock' = orderLock
    BY <1>1 DEF LookupKey, RereadKey
  <2>2. CASE idempotency[KeyOf(r)] # Null
    BY <1>1, <2>1, <2>2, ReplayOrder DEF LookupKey, RereadKey
  <2>3. CASE idempotency[KeyOf(r)] = Null
    <3>1. \/ Goto(r, "paidCheck") /\ UNCHANGED <<attempt, result>>
          \/ Respond(r, "internalError", Null)
      BY <1>1, <2>3 DEF LookupKey, RereadKey
    <3> QED BY <2>1, <3>1, GotoOrder, RespondOrder DEF Checking
  <2> QED BY <2>2, <2>3
<1>2. CASE Validate(r) \/ CheckPaid(r) \/ CompleteOperation(r) \/ Fail(r)
  <2>1. \/ \E outcome : Respond(r, outcome, Null) /\ orderLock' \in {orderLock, Unlocked(r)}
        \/ \E label \in {"lookup", "lock", "readBack"} :
              Goto(r, label) /\ UNCHANGED <<attempt, result, orderLock>>
    BY <1>2 DEF Validate, CheckPaid, CompleteOperation, Fail
  <2>2. {"lookup", "lock", "readBack"} \cap (Checking \cup {"paidRecheck"}) = {}
    BY DEF Checking
  <2> QED BY <2>1, <2>2, GotoOrder, RespondOrder
<1>3. CASE \/ MarkCreating(r) \/ StartOperation(r) \/ CallProvider(r)
           \/ SaveAccepted(r) \/ SaveFailed(r)
  <2>1. \E label \in {"startOperation", "callProvider", "awaitProvider", "completeOperation"} :
            Goto(r, label) /\ UNCHANGED <<attempt, result, orderLock>>
    BY <1>3 DEF MarkCreating, StartOperation, CallProvider, SaveAccepted, SaveFailed
  <2>2. {"startOperation", "callProvider", "awaitProvider", "completeOperation"}
            \cap (Checking \cup {"paidRecheck"}) = {}
    BY DEF Checking
  <2> QED BY <2>1, <2>2, GotoOrder
<1> QED BY <1>1, <1>2, <1>3

\* The answers with a payment: the request's own, or the recorded one.
LEMMA AnswerOrder ==
    ASSUME OrderInv, CallInv', TablesKept, NEW r \in Requests, ReadBack(r) \/ Replay(r)
    PROVE  OrderInv'
<1> USE DEF database, external, locals
<1>1. CASE ReadBack(r)
  <2>1. Exists(r)
    BY <1>1 DEF ReadBack, OrderInv, CallInv, SettlementInv, TypeInv, HandlersHaveRows,
                AfterCommit
  <2>2. idempotency[KeyOf(r)] = r
    BY <2>1, OrderVariables DEF OrderInv, KeysNamePayments
  <2>3. \E outcome : Respond(r, outcome, r) /\ orderLock' = orderLock
    BY <1>1 DEF ReadBack
  <2> QED BY <2>2, <2>3, RespondOrder
<1>2. CASE Replay(r)
  <2>1. RecordedAlike(r)
    BY <1>2 DEF Replay, OrderInv, ChecksStillHold
  <2>2. \E outcome, p : /\ Respond(r, outcome, p) /\ orderLock' = orderLock
                        /\ p \in {Null, idempotency[KeyOf(r)]}
    BY <1>2 DEF Replay
  <2> QED BY <2>1, <2>2, RespondOrder DEF RecordedAlike
<1> QED BY <1>1, <1>2

\* Steps in which no handler moves.
LEMMA StayOrder ==
    ASSUME OrderInv, CallInv', TablesKept, UNCHANGED <<orderLock, pc, attempt, result>>
    PROVE  OrderInv'
<1>1. \A q \in Requests : ChecksStillHold(q)'
  BY KeptChecks
<1>2. \A q \in Requests : AnswerNamesPayment(q)'
  BY KeptTables DEF OrderInv, AnswerNamesPayment, TablesKept, RowsKept
<1>3. KeysNamePayments' /\ LocksAreHeld'
  BY KeptTables DEF OrderInv, KeysNamePayments, LocksAreHeld
<1> QED BY <1>1, <1>2, <1>3, KeptTables DEF OrderInv

---------------------------------------------------------------------------
(* The transaction under the order lock.                                   *)

\* The lock is free when it is taken: no other transaction of the order is open.
LEMMA LockOrder ==
    ASSUME OrderInv, CallInv', TablesKept, NEW r \in Requests, LockOrderForPayment(r)
    PROVE  OrderInv'
<1> USE DEF database, external, locals
<1>1. /\ pc'[r] = "paidRecheck"
      /\ \A q \in Requests \ {r} : pc'[q] = pc[q]
      /\ UNCHANGED <<input, attempt, result>>
      /\ orderLock' = [orderLock EXCEPT ![OrderOf(r)] = r]
      /\ orderLock[OrderOf(r)] = Null
  BY CallVariables DEF OrderInv, LockOrderForPayment, LockFree, Goto
<1>2. ASSUME NEW q \in Requests, InTransaction(pc'[q])
      PROVE  orderLock'[OrderOf(q)] = q
  <2>1. CASE q = r
    BY <1>1, <2>1, OrderVariables
  <2>2. CASE q # r
    <3>1. orderLock[OrderOf(q)] = q
      BY <1>1, <1>2, <2>2 DEF OrderInv, LocksAreHeld
    <3>2. OrderOf(q) # OrderOf(r)
      BY <1>1, <3>1, NullAssumption
    <3> QED BY <1>1, <3>1, <3>2, OrderVariables
  <2> QED BY <2>1, <2>2
<1>3. LocksAreHeld'
  <2>1. \A q \in Requests : OrderOf(q)' = OrderOf(q)
    BY <1>1 DEF OrderOf
  <2> QED BY <1>2, <2>1 DEF LocksAreHeld
<1>4. ChecksStillHold(r)'
  BY <1>1 DEF ChecksStillHold
<1>5. AnswerNamesPayment(r)'
  BY <1>1, KeptTables DEF OrderInv, AnswerNamesPayment, TablesKept, RowsKept
<1> QED BY <1>1, <1>3, <1>4, <1>5, HandlerKeepsOrder

\* A step inside the transaction, or one that gives it up for the key that another
\* request has recorded.
LEMMA InsideOrder ==
    ASSUME OrderInv, CallInv', TablesKept, NEW r \in Requests, NEW label,
           Goto(r, label), InTransaction(pc[r]),
           \A q \in Requests \ {r} : attempt'[q] = attempt[q],
           result' = result,
           \/ orderLock' = orderLock /\ InTransaction(label)
           \/ orderLock' = Unlocked(r) /\ label = "raced",
           ChecksStillHold(r)',
           label = "commit" => ~KeyInsertedByOther(r)
    PROVE  OrderInv'
<1>1. /\ pc'[r] = label
      /\ \A q \in Requests \ {r} : pc'[q] = pc[q]
  BY CallVariables DEF OrderInv, Goto
<1>2. LocksAreHeld'
  BY <1>1, KeptLocks DEF TablesKept, RowsKept, InTransaction
<1>3. AnswerNamesPayment(r)'
  BY KeptTables DEF OrderInv, AnswerNamesPayment, TablesKept, RowsKept
<1>4. label = "commit" =>
          \A q \in Requests \ {r} : ~(pc[q] = "commit" /\ KeyOf(q) = KeyOf(r))
  BY DEF KeyInsertedByOther
<1> QED BY <1>1, <1>2, <1>3, <1>4, HandlerKeepsOrder

\* The sets and numbers that the checks of r are about do not change in such a
\* step.
LEMMA SameOrder ==
    ASSUME OrderInv, TablesKept, payments' = payments, NEW r \in Requests
    PROVE  /\ Attempts(OrderOf(r))' = Attempts(OrderOf(r))
           /\ NumberOfAttempts(OrderOf(r))' = NumberOfAttempts(OrderOf(r))
           /\ \A p \in Attempts(OrderOf(r)) : Active(p)' <=> Active(p)
           /\ RecordedAlike(r)' <=> RecordedAlike(r)
           /\ idempotency[KeyOf(r)]' = idempotency[KeyOf(r)]
<1>1. Attempts(OrderOf(r))' = Attempts(OrderOf(r))
  BY DEF TablesKept, RowsKept, Attempts, OrderOf
<1>2. NumberOfAttempts(OrderOf(r))' = NumberOfAttempts(OrderOf(r))
  BY <1>1 DEF NumberOfAttempts
<1> QED BY <1>1, <1>2 DEF TablesKept, RowsKept, RecordedAlike, KeyOf, Active, Exists

\* Inside the lock: the order was found unpaid, and stays so for creations.
LEMMA RecheckPaidOrder ==
    ASSUME OrderInv, CallInv', TablesKept, NEW r \in Requests, RecheckPaid(r)
    PROVE  OrderInv'
<1> USE DEF database, external, locals
<1>1. CASE OrderHasSucceededPayment(OrderOf(r))
  <2>1. Respond(r, "ErrOrderAlreadySucceeded", Null) /\ orderLock' = Unlocked(r)
    BY <1>1 DEF RecheckPaid
  <2> QED BY <2>1, RespondOrder
<1>2. CASE ~OrderHasSucceededPayment(OrderOf(r))
  <2>1. /\ Goto(r, "keyRecheck") /\ pc[r] = "paidRecheck"
        /\ UNCHANGED <<orderLock, attempt, result, payments>>
    BY <1>2 DEF RecheckPaid
  <2>2. pc'[r] = "keyRecheck"
    BY <2>1, CallVariables DEF OrderInv, Goto
  <2>3. \A p \in Attempts(OrderOf(r)) : payments[p].status # "succeeded"
    BY <1>2 DEF OrderHasSucceededPayment
  <2>4. ChecksStillHold(r)'
    BY <2>1, <2>2, <2>3, SameOrder DEF ChecksStillHold
  <2> QED BY <2>1, <2>4, InsideOrder DEF InTransaction
<1> QED BY <1>1, <1>2

\* Inside the lock: the key was found unrecorded, and stays so until the commit.
LEMMA RecheckKeyOrder ==
    ASSUME OrderInv, CallInv', TablesKept, NEW r \in Requests, RecheckKey(r)
    PROVE  OrderInv'
<1> USE DEF database, external, locals
<1>1. /\ pc[r] = "keyRecheck"
      /\ UNCHANGED <<payments, attempt, result>>
      /\ ChecksStillHold(r)
  BY DEF RecheckKey, OrderInv
<1>2. CASE KeyRecorded(KeyOf(r))
  <2>1. Goto(r, "raced") /\ orderLock' = Unlocked(r) /\ pc'[r] = "raced"
    BY <1>2, CallVariables DEF OrderInv, RecheckKey, Goto
  <2>2. ChecksStillHold(r)'
    BY <1>1, <1>2, <2>1, SameOrder DEF ChecksStillHold, KeyRecorded
  <2> QED BY <1>1, <2>1, <2>2, InsideOrder DEF InTransaction
<1>3. CASE ~KeyRecorded(KeyOf(r))
  <2>1. Goto(r, "nextAttempt") /\ orderLock' = orderLock /\ pc'[r] = "nextAttempt"
    BY <1>3, CallVariables DEF OrderInv, RecheckKey, Goto
  <2>2. ~RecordedAlike(r)
    BY <1>3 DEF KeyRecorded, RecordedAlike
  <2>3. ChecksStillHold(r)'
    BY <1>1, <2>1, <2>2, SameOrder DEF ChecksStillHold
  <2> QED BY <1>1, <2>1, <2>3, InsideOrder DEF InTransaction
<1> QED BY <1>2, <1>3

\* Inside the lock: the number that was read is the one after the last attempt.
LEMMA NextAttemptOrder ==
    ASSUME OrderInv, CallInv', TablesKept, NEW r \in Requests, ReadNextAttempt(r)
    PROVE  OrderInv'
<1> USE DEF database, external, locals
<1>1. /\ pc[r] = "nextAttempt"
      /\ Goto(r, "insertPayment") /\ pc'[r] = "insertPayment"
      /\ UNCHANGED <<payments, orderLock, result>>
      /\ ChecksStillHold(r)
  BY CallVariables DEF ReadNextAttempt, OrderInv, Goto
<1>2. attempt'[r] = NumberOfAttempts(OrderOf(r)) + 1
  BY NextNumber, OrderVariables DEF ReadNextAttempt, OrderInv
<1>3. \A q \in Requests \ {r} : attempt'[q] = attempt[q]
  BY OrderVariables DEF ReadNextAttempt
<1>4. ChecksStillHold(r)'
  BY <1>1, <1>2, SameOrder DEF ChecksStillHold
<1> QED BY <1>1, <1>3, <1>4, InsideOrder DEF InTransaction

\* The indexes of CreatePayment: no attempt of the order is open.
LEMMA InsertPaymentOrder ==
    ASSUME OrderInv, CallInv', TablesKept, NEW r \in Requests, InsertPayment(r)
    PROVE  OrderInv'
<1> USE DEF database, external, locals
<1>1. CASE InsertConflicts(r)
  <2>1. Respond(r, "ErrActiveAttemptExists", Null) /\ orderLock' = Unlocked(r)
    BY <1>1 DEF InsertPayment
  <2> QED BY <2>1, RespondOrder
<1>2. CASE ~InsertConflicts(r)
  <2>1. /\ pc[r] = "insertPayment"
        /\ Goto(r, "insertKey") /\ pc'[r] = "insertKey"
        /\ UNCHANGED <<payments, orderLock, attempt, result>>
        /\ ChecksStillHold(r)
    BY <1>2, CallVariables DEF InsertPayment, OrderInv, Goto
  <2>2. \A p \in Attempts(OrderOf(r)) : p \in Requests /\ ~Active(p)
    BY <1>2 DEF InsertConflicts, Attempts
  <2>3. ChecksStillHold(r)'
    BY <2>1, <2>2, SameOrder DEF ChecksStillHold
  <2> QED BY <2>1, <2>3, InsideOrder DEF InTransaction
<1> QED BY <1>1, <1>2

\* The key insert waits for the transaction that has inserted the same key, so a
\* key that is taken is recorded.
LEMMA InsertKeyOrder ==
    ASSUME OrderInv, CallInv', TablesKept, NEW r \in Requests, InsertKey(r)
    PROVE  OrderInv'
<1> USE DEF database, external, locals
<1>1. /\ pc[r] = "insertKey"
      /\ UNCHANGED <<payments, result>>
      /\ ChecksStillHold(r)
      /\ ~KeyInsertedByOther(r)
      /\ \A q \in Requests \ {r} : attempt'[q] = attempt[q]
  BY OrderVariables DEF InsertKey, KeyInsertWaits, OrderInv
<1>2. CASE KeyTaken(r)
  <2>1. Goto(r, "raced") /\ orderLock' = Unlocked(r) /\ pc'[r] = "raced"
    BY <1>2, CallVariables DEF OrderInv, InsertKey, Goto
  <2>2. idempotency[KeyOf(r)] # Null
    BY <1>1, <1>2 DEF KeyTaken
  <2>3. ChecksStillHold(r)'
    BY <1>1, <2>1, <2>2, SameOrder DEF ChecksStillHold
  <2> QED BY <1>1, <2>1, <2>3, InsideOrder DEF InTransaction
<1>3. CASE ~KeyTaken(r)
  <2>1. /\ Goto(r, "commit") /\ orderLock' = orderLock /\ pc'[r] = "commit"
        /\ attempt'[r] = attempt[r]
    BY <1>3, CallVariables, OrderVariables DEF OrderInv, InsertKey, Goto
  <2>2. idempotency[KeyOf(r)] = Null
    BY <1>3 DEF KeyTaken
  <2>3. ChecksStillHold(r)'
    BY <1>1, <2>1, <2>2, SameOrder DEF ChecksStillHold
  <2> QED BY <1>1, <2>1, <2>3, InsideOrder DEF InTransaction
<1> QED BY <1>2, <1>3

\* The commit: the order gets its next attempt, the key names it, and whatever the
\* other handlers have checked is about other orders or recorded keys.
LEMMA CommitOrder ==
    ASSUME OrderInv, CallInv', NEW r \in Requests, Commit(r)
    PROVE  OrderInv'
<1> DEFINE o == OrderOf(r)
           k == KeyOf(r)
           n == NumberOfAttempts(o)
<1> USE DEF database, external, locals
<1>1. /\ orderLock[o] = r /\ attempt[r] = n + 1 /\ idempotency[k] = Null
      /\ o \in Apps \X Orders /\ k \in Apps \X Keys /\ n \in Nat
      /\ \A p \in Attempts(o) :
            /\ ~Active(p)
            /\ payments[p].status = "succeeded" => payments[p].attempt = n
      /\ ~Exists(r)
  <2>1. pc[r] = "commit" /\ InTransaction(pc[r]) /\ pc[r] \in BeforeCommit
    BY DEF Commit, InTransaction, BeforeCommit
  <2> QED BY <2>1, OrderVariables, AttemptsCounted
          DEF OrderInv, LocksAreHeld, ChecksStillHold, TypeInv, HandlersHaveRows
<1>2. /\ input' = input /\ result' = result /\ attempt' = attempt
      /\ orderLock' = Unlocked(r)
      /\ pc'[r] = "markCreating" /\ \A q \in Requests \ {r} : pc'[q] = pc[q]
      /\ \A p \in Requests \ {r} : payments'[p] = payments[p]
      /\ payments'[r] = CreatedRow(attempt[r])
      /\ \A l \in Apps \X Keys : idempotency'[l] = IF l = k THEN r ELSE idempotency[l]
  BY <1>1, CallVariables, OrderVariables DEF OrderInv, Commit, Goto
<1>3. \A q \in Requests : OrderOf(q)' = OrderOf(q) /\ KeyOf(q)' = KeyOf(q)
  BY <1>2 DEF OrderOf, KeyOf
<1>4. /\ payments'[r].status = "created" /\ payments'[r].attempt = n + 1
      /\ \A p \in Requests : Exists(p)' <=> p = r \/ Exists(p)
      /\ \A p \in Requests \ {r} : Active(p)' <=> Active(p)
  BY <1>1, <1>2 DEF CreatedRow, Exists, Active
<1>5. ASSUME NEW q \in Requests \ {r}, InTransaction(pc[q])
      PROVE  OrderOf(q) # o
  BY <1>1, <1>5 DEF OrderInv, LocksAreHeld
<1>6. ASSUME NEW q \in Requests, OrderOf(q) # o
      PROVE  /\ Attempts(OrderOf(q))' = Attempts(OrderOf(q))
             /\ NumberOfAttempts(OrderOf(q))' = NumberOfAttempts(OrderOf(q))
             /\ \A p \in Attempts(OrderOf(q)) : p \in Requests \ {r}
  <2>1. Attempts(OrderOf(q))' = Attempts(OrderOf(q))
    BY <1>3, <1>4, <1>6 DEF Attempts
  <2>2. \A p \in Attempts(OrderOf(q)) : p \in Requests \ {r}
    BY <1>6 DEF Attempts
  <2> QED BY <2>1, <2>2 DEF NumberOfAttempts
<1>7. LocksAreHeld'
  BY <1>2, KeptLocks DEF InTransaction
<1>8. KeysNamePayments'
  <2>1. ASSUME NEW p \in Requests, NEW l \in Apps \X Keys
        PROVE  idempotency'[l] = p <=> Exists(p)' /\ KeyOf(p)' = l
    <3>1. idempotency[l] = p <=> Exists(p) /\ KeyOf(p) = l
      BY DEF OrderInv, KeysNamePayments
    <3> QED BY <1>1, <1>2, <1>3, <1>4, <3>1, NullAssumption
  <2>2. \A q, s \in Requests :
           pc'[q] = "commit" /\ pc'[s] = "commit" /\ KeyOf(q)' = KeyOf(s)' => q = s
    BY <1>2, <1>3 DEF OrderInv, KeysNamePayments
  <2> QED BY <2>1, <2>2 DEF KeysNamePayments
<1>9. ASSUME NEW q \in Requests PROVE ChecksStillHold(q)'
  <2>1. CASE q = r
    BY <1>2, <2>1 DEF ChecksStillHold
  <2>2. CASE q # r
    <3>1. ChecksStillHold(q) /\ pc'[q] = pc[q] /\ attempt'[q] = attempt[q]
          /\ KeyOf(q) \in Apps \X Keys
      BY <1>2, <2>2, OrderVariables DEF OrderInv
    <3>2. CASE InTransaction(pc[q])
      <4>1. OrderOf(q) # o
        BY <1>5, <2>2, <3>2
      <4>2. RecordedAlike(q)' => RecordedAlike(q)
        <5>1. input[q] # input[r]
          BY <4>1, InputParts, OrderVariables DEF TypeInv
        <5> QED BY <1>2, <1>3, <3>1, <5>1 DEF RecordedAlike
      <4>3. pc[q] = "commit" => idempotency'[KeyOf(q)'] = Null
        <5>1. pc[q] = "commit" => KeyOf(q) # k
          BY <2>2 DEF Commit, OrderInv, KeysNamePayments
        <5> QED BY <1>2, <1>3, <3>1, <5>1 DEF ChecksStillHold
      <4>4. pc[q] \notin {"raced", "replay"}
        BY <3>2 DEF InTransaction
      <4>5. \A p \in Attempts(OrderOf(q)) :
               payments'[p] = payments[p] /\ (Active(p)' <=> Active(p))
        BY <1>2, <1>4, <1>6, <4>1
      <4> QED BY <1>6, <3>1, <4>1, <4>2, <4>3, <4>4, <4>5 DEF ChecksStillHold
    <3>3. CASE ~InTransaction(pc[q])
      <4>1. idempotency[KeyOf(q)] # Null => idempotency'[KeyOf(q)'] = idempotency[KeyOf(q)]
        BY <1>1, <1>2, <1>3, <3>1
      <4>2. RecordedAlike(q) => RecordedAlike(q)'
        BY <1>2, <4>1 DEF RecordedAlike
      <4> QED BY <3>1, <3>3, <4>1, <4>2 DEF ChecksStillHold, InTransaction
    <3> QED BY <3>2, <3>3
  <2> QED BY <2>1, <2>2
<1>10. ASSUME NEW q \in Requests PROVE AnswerNamesPayment(q)'
  <2>1. AnswerNamesPayment(q) /\ KeyOf(q) \in Apps \X Keys
    BY OrderVariables DEF OrderInv
  <2> QED BY <1>1, <1>2, <1>3, <2>1 DEF AnswerNamesPayment
<1>11. ASSUME NEW l \in Apps \X Orders PROVE AttemptsInOrder(l)'
  <2>1. AttemptsInOrder(l) /\ \A p \in Attempts(l) : p \in Requests
    BY DEF OrderInv, Attempts
  <2>2. CASE l # o
    <3>1. Attempts(l)' = Attempts(l) /\ r \notin Attempts(l)
      BY <1>3, <1>4, <2>2 DEF Attempts
    <3>2. NumberOfAttempts(l)' = NumberOfAttempts(l)
      BY <3>1 DEF NumberOfAttempts
    <3>3. \A p \in Attempts(l) :
             payments'[p] = payments[p] /\ (Active(p)' <=> Active(p))
      BY <1>2, <1>4, <2>1, <3>1
    <3>4. {payments'[p].attempt : p \in Attempts(l)} = {payments[p].attempt : p \in Attempts(l)}
      BY <3>3
    <3> QED BY <2>1, <3>1, <3>2, <3>3, <3>4 DEF AttemptsInOrder
  <2>3. CASE l = o
    <3>1. Attempts(l)' = Attempts(l) \cup {r} /\ r \notin Attempts(l)
      BY <1>1, <1>3, <1>4, <2>3 DEF Attempts
    <3>2. NumberOfAttempts(l)' = n + 1
      BY <2>3, <3>1, AttemptsCounted, FS_AddElement DEF NumberOfAttempts
    <3>3. \A p \in Attempts(l) :
             /\ payments'[p] = payments[p] /\ (Active(p)' <=> Active(p))
             /\ payments[p].attempt \in 1 .. n
      BY <1>2, <1>4, <2>1, <2>3, <3>1 DEF AttemptsInOrder
    <3>4. {payments'[p].attempt : p \in Attempts(l)'} = 1 .. (n + 1)
      <4>1. {payments'[p].attempt : p \in Attempts(l)} = 1 .. n
        BY <2>1, <2>3, <3>3 DEF AttemptsInOrder
      <4>2. {payments'[p].attempt : p \in Attempts(l)'}
               = {payments'[p].attempt : p \in Attempts(l)} \cup {n + 1}
        BY <1>4, <3>1
      <4>3. (1 .. n) \cup {n + 1} = 1 .. (n + 1)
        BY <1>1
      <4> QED BY <4>1, <4>2, <4>3
    <3>5. \A p, q \in Attempts(l)' : payments'[p].attempt = payments'[q].attempt => p = q
      BY <1>1, <1>4, <2>1, <2>3, <3>1, <3>3 DEF AttemptsInOrder
    <3>6. \A p \in Attempts(l)' : Active(p)' => payments'[p].attempt = n + 1
      BY <1>1, <1>4, <2>3, <3>1, <3>3
    <3>7. \A p \in Attempts(l)' :
             payments'[p].status = "succeeded" => payments'[p].attempt >= (n + 1) - 1
      BY <1>1, <1>4, <2>3, <3>1, <3>3
    <3> QED BY <3>2, <3>4, <3>5, <3>6, <3>7 DEF AttemptsInOrder
  <2> QED BY <2>2, <2>3
<1> QED BY <1>7, <1>8, <1>9, <1>10, <1>11 DEF OrderInv

---------------------------------------------------------------------------
\* At first nothing is recorded, locked or answered.
LEMMA InitOrder == Init => OrderInv
<1> SUFFICES ASSUME Init PROVE OrderInv
  OBVIOUS
<1>1. /\ \A r \in Requests :
            /\ ~Exists(r) /\ pc[r] = "received" /\ result[r].payment = Null
            /\ KeyOf(r) \in Apps \X Keys
      /\ \A k \in Apps \X Keys : idempotency[k] = Null
  BY DEF Init, Exists, NoRow, KeyOf, Inputs
<1>2. \A o : Attempts(o) = {} /\ NumberOfAttempts(o) = 0
  BY <1>1, FS_EmptySet DEF Attempts, NumberOfAttempts
<1>3. LocksAreHeld /\ KeysNamePayments
  BY <1>1, NullAssumption DEF LocksAreHeld, InTransaction, KeysNamePayments
<1>4. \A r \in Requests : ChecksStillHold(r) /\ AnswerNamesPayment(r)
  BY <1>1 DEF ChecksStillHold, AnswerNamesPayment
<1>5. \A o \in Apps \X Orders : AttemptsInOrder(o)
  <2>1. 1 .. 0 = {}
    OBVIOUS
  <2> QED BY <1>2, <2>1 DEF AttemptsInOrder
<1> QED BY <1>3, <1>4, <1>5, InitCall DEF OrderInv

\* Every step keeps the invariant.
LEMMA NextOrder == OrderInv /\ [Next]_vars => OrderInv'
<1> SUFFICES ASSUME OrderInv, [Next]_vars PROVE OrderInv'
  OBVIOUS
<1>1. CallInv /\ CallInv'
  BY NextCall DEF OrderInv
<1>2. ASSUME NEW r \in Requests, Validate(r) \/ HandlerStep(r) \/ Fail(r) \/ ProviderStep(r)
      PROVE  OrderInv'
  <2>1. CASE Commit(r)
    BY <1>1, <2>1, CommitOrder
  <2>2. CASE ~Commit(r)
    <3>1. TablesKept
      BY <1>1, <1>2, <2>2, HandlerKeepsTables
    <3>2. CASE ProviderTimeout(r) \/ ProviderStep(r)
      <4>1. UNCHANGED <<orderLock, pc, attempt, result>>
        BY <3>2 DEF ProviderTimeout, ProviderStep, ProviderAccepts, ProviderRefuses,
                    ProviderFails, ProviderSettles, locals
      <4> QED BY <1>1, <3>1, <4>1, StayOrder
    <3>3. CASE ~(ProviderTimeout(r) \/ ProviderStep(r))
      BY <1>1, <1>2, <2>2, <3>1, <3>3, OutsideOrder, AnswerOrder, LockOrder,
         RecheckPaidOrder, RecheckKeyOrder, NextAttemptOrder, InsertPaymentOrder,
         InsertKeyOrder DEF HandlerStep
    <3> QED BY <3>2, <3>3
  <2> QED BY <2>1, <2>2
<1>3. ASSUME NEW g \in Readers,
             \/ \E app \in Apps, p \in Requests : BeginRefresh(g, app, p)
             \/ RefreshStep(g)
      PROVE  OrderInv'
  BY <1>1, <1>3, ReadsKeepTables, StayOrder
<1>4. CASE UNCHANGED vars
  <2>1. TablesKept /\ UNCHANGED <<orderLock, pc, attempt, result>>
    BY <1>4, SameRowsKept DEF vars, database, locals
  <2> QED BY <1>1, <2>1, StayOrder
<1> QED BY <1>2, <1>3, <1>4 DEF Next

\* The inductive invariant of the order lock and the keys holds in every
\* behaviour.
LEMMA OrderInvariant == Spec => []OrderInv
BY InitOrder, NextOrder, PTL DEF Spec

---------------------------------------------------------------------------
(* The properties of PaymentService that the invariant implies.            *)

\* The advisory lock serializes the transactions of an order: from the paid
\* re-check to the commit nobody else creates an attempt for it, and no way out
\* of the transaction leaves the lock behind for the next one to run under.
THEOREM LockIsExclusive == Spec => []OneTransactionPerOrder
<1>1. OrderInv => OneTransactionPerOrder
  BY DEF OrderInv, LocksAreHeld, OneTransactionPerOrder
<1> QED BY <1>1, OrderInvariant, PTL

\* MAX (attempt_number) + 1, read in one statement and stored in another, numbers
\* the attempts of an order without gaps, and an attempt that is not the latest is
\* finished, however many requests compete for the order.
THEOREM AttemptsCorrect == Spec => []OnlyLatestAttemptOpen
<1>1. OrderInv => OnlyLatestAttemptOpen
  <2>1. SUFFICES ASSUME OrderInv, NEW p \in Requests, Exists(p)
                 PROVE  LET all == Attempts(OrderOf(p))
                        IN /\ {payments[q].attempt : q \in all} = 1 .. Cardinality(all)
                           /\ Active(p) => payments[p].attempt = Cardinality(all)
    BY DEF OnlyLatestAttemptOpen
  <2>2. AttemptsInOrder(OrderOf(p)) /\ p \in Attempts(OrderOf(p))
    BY <2>1, OrderVariables DEF OrderInv, Attempts
  <2> QED BY <2>2 DEF AttemptsInOrder, NumberOfAttempts
<1> QED BY <1>1, OrderInvariant, PTL

\* The double payment that the race of a success with a creation allows happens
\* once per success and no more: the success must arrive between the re-check and
\* the insert of a transaction that saw the paid attempt finished or absent.
THEOREM OneAttemptAfterSuccess == Spec => []AtMostOneAttemptAfterSuccess
<1>1. OrderInv => AtMostOneAttemptAfterSuccess
  <2>1. SUFFICES ASSUME OrderInv, NEW p \in Requests, payments[p].status = "succeeded"
                 PROVE  Cardinality({q \in Attempts(OrderOf(p)) :
                                        payments[q].attempt > payments[p].attempt}) <= 1
    BY DEF AtMostOneAttemptAfterSuccess
  <2> DEFINE o == OrderOf(p)
             n == NumberOfAttempts(o)
             Later == {q \in Attempts(o) : payments[q].attempt > payments[p].attempt}
  <2>2. AttemptsInOrder(o) /\ p \in Attempts(o) /\ n \in Nat
    BY <2>1, OrderVariables, AttemptsCounted DEF OrderInv, Attempts, Exists
  <2>3. \A q \in Attempts(o) : payments[q].attempt \in 1 .. n
    BY <2>2 DEF AttemptsInOrder
  <2>4. payments[p].attempt >= n - 1
    BY <2>1, <2>2 DEF AttemptsInOrder
  <2>5. \A q, s \in Later : q = s
    <3>1. \A q \in Later : payments[q].attempt = n
      BY <2>2, <2>3, <2>4
    <3> QED BY <2>2, <3>1 DEF AttemptsInOrder
  <2>6. Cardinality(Later) <= 1
    <3>1. CASE Later = {}
      BY <3>1, FS_EmptySet
    <3>2. CASE Later # {}
      <4>1. PICK q : Later = {q}
        BY <2>5, <3>2
      <4> HIDE DEF Later
      <4>2. Cardinality({q}) = 1
        BY FS_Singleton
      <4> QED BY <4>1, <4>2
    <3> QED BY <3>1, <3>2
  <2> QED BY <2>6
<1> QED BY <1>1, OrderInvariant, PTL

\* A client key is spent once: every request that was answered with a payment got
\* the one recorded under its key, made for the same order and body.
THEOREM KeysCorrect == Spec => []KeyNamesOnePayment
<1>1. OrderInv => KeyNamesOnePayment
  BY DEF OrderInv, AnswerNamesPayment, KeyNamesOnePayment
<1> QED BY <1>1, OrderInvariant, PTL

\* Losing the race for a key is always followed by a replay of the winner: the
\* insert has waited for the winner's commit, and recorded keys stay.
THEOREM RacesAreReplayed == Spec => []RacedKeyIsRecorded
<1>1. OrderInv => RacedKeyIsRecorded
  BY DEF OrderInv, ChecksStillHold, RacedKeyIsRecorded
<1> QED BY <1>1, OrderInvariant, PTL

\* Whatever retries a client makes under one key, at most one provider payment
\* comes of them.
THEOREM OneProviderPayment == Spec => []OneProviderPaymentPerKey
<1>1. OrderInv => OneProviderPaymentPerKey
  <2>1. SUFFICES ASSUME OrderInv PROVE OneProviderPaymentPerKey
    OBVIOUS
  <2>2. \A p \in Requests : p \in inbox \/ provider[p] # "none" => Exists(p)
    BY <2>1 DEF OrderInv, CallInv, CallInvOf, OperationFollowsPayment
  <2>3. \A p \in Requests : Exists(p) => idempotency[KeyOf(p)] = p
    BY <2>1, OrderVariables DEF OrderInv, KeysNamePayments
  <2> QED BY <2>2, <2>3 DEF OneProviderPaymentPerKey
<1> QED BY <1>1, OrderInvariant, PTL

\* No provider payment is lost: its payment and operation are committed before the
\* call, and stay open until the payment knows its provider id, whichever of the
\* later statements fails.
THEOREM ProviderPaymentsOnRecord == Spec => []ProviderPaymentsAccounted
<1>1. OrderInv => ProviderPaymentsAccounted
  <2>1. SUFFICES ASSUME OrderInv, NEW p \in Requests, p \in inbox \/ provider[p] # "none"
                 PROVE  /\ idempotency[KeyOf(p)] = p
                        /\ payments[p].provider_payment_id = Null =>
                              Active(p) /\ OpenOperation(operations[p])
    BY DEF ProviderPaymentsAccounted
  <2>2. /\ IdFollowsStatus(p) /\ OperationFollowsPayment(p) /\ Exists(p)
        /\ p # Null
    BY <2>1, NullAssumption DEF OrderInv, CallInv, CallInvOf, OperationFollowsPayment
  <2>3. idempotency[KeyOf(p)] = p
    BY <2>1, <2>2, OrderVariables DEF OrderInv, KeysNamePayments
  <2>4. ASSUME payments[p].provider_payment_id = Null
        PROVE  Active(p) /\ OpenOperation(operations[p])
    <3>1. operations[p] \in OperationStatuses \cup {"absent"}
      BY <2>1, CallVariables DEF OrderInv
    <3>2. Active(p)
      BY <2>1, <2>2, <2>4 DEF IdFollowsStatus, Active, Terminal
    <3>3. OpenOperation(operations[p])
      BY <2>1, <2>2, <2>4, <3>1
         DEF OperationFollowsPayment, OpenOperation, OperationStatuses
    <3> QED BY <3>2, <3>3
  <2> QED BY <2>3, <2>4
<1> QED BY <1>1, OrderInvariant, PTL

---------------------------------------------------------------------------
(* Action properties: what a step may never tell a client.                 *)

\* The steps after which a handler tells its client something.
LEMMA AnsweredBy ==
    ASSUME TypeOK, Next, NEW r \in Requests, result'[r] # result[r]
    PROVE  \/ Replay(r) \/ ReadBack(r)
           \/ InsertPayment(r) /\ InsertConflicts(r)
           \/ \E outcome \in Outcomes \ {"201", "ErrActiveAttemptExists"} :
                 Respond(r, outcome, Null)
<1> USE DEF database, external, locals
<1>1. ASSUME NEW q \in Requests, NEW outcome, NEW p, Respond(q, outcome, p)
      PROVE  q = r
  BY <1>1 DEF TypeOK, Respond
<1>2. PICK q \in Requests : Validate(q) \/ HandlerStep(q) \/ Fail(q)
  <2>1. ASSUME NEW q \in Requests, ProviderStep(q) PROVE FALSE
    BY <2>1 DEF ProviderStep, ProviderAccepts, ProviderRefuses, ProviderFails,
                ProviderSettles
  <2>2. ASSUME NEW g \in Readers,
               \/ \E app \in Apps, p \in Requests : BeginRefresh(g, app, p)
               \/ RefreshStep(g)
        PROVE  FALSE
    BY <2>2 DEF RefreshStep, BeginRefresh, FetchStatus, ApplyRefresh, AbandonRefresh
  <2> QED BY <2>1, <2>2 DEF Next
<1>3. \A outcome \in {"ErrValidation", "ErrIdempotencyConflict", "ErrOrderAlreadySucceeded",
                       "ErrNoProviderAccount", "internalError", "providerError"} :
         outcome \in Outcomes \ {"201", "ErrActiveAttemptExists"}
  BY DEF Outcomes
<1>4. CASE Validate(q) \/ LookupKey(q) \/ CheckPaid(q) \/ RereadKey(q) \/ Fail(q)
  BY <1>1, <1>3, <1>4 DEF Validate, LookupKey, CheckPaid, RereadKey, ReplayKey, Fail
<1>5. CASE \/ LockOrderForPayment(q) \/ RecheckPaid(q) \/ RecheckKey(q)
           \/ ReadNextAttempt(q) \/ InsertPayment(q) \/ InsertKey(q)
  BY <1>1, <1>3, <1>5 DEF LockOrderForPayment, RecheckPaid, RecheckKey, ReadNextAttempt,
                          InsertPayment, InsertKey
<1>6. CASE \/ Commit(q) \/ MarkCreating(q) \/ StartOperation(q) \/ CallProvider(q)
           \/ ProviderTimeout(q) \/ SaveAccepted(q) \/ SaveFailed(q)
           \/ CompleteOperation(q)
  BY <1>1, <1>3, <1>6 DEF Commit, MarkCreating, StartOperation, CallProvider,
                          ProviderTimeout, SaveAccepted, SaveFailed, CompleteOperation
<1>7. CASE Replay(q) \/ ReadBack(q)
  BY <1>1, <1>7 DEF Replay, ReadBack
<1> QED BY <1>2, <1>4, <1>5, <1>6, <1>7 DEF HandlerStep

\* What the client is told is what the handler responds.
LEMMA RespondTells ==
    ASSUME TypeOK, NEW r \in Requests, NEW outcome, NEW p, Respond(r, outcome, p)
    PROVE  result'[r].outcome = outcome /\ result'[r].payment = p
  BY DEF TypeOK, Respond

\* A client that repeats its request is never told that an attempt is active when
\* that attempt is its own: the key was not recorded when the transaction
\* re-checked it, and nobody else commits for the order until it ends.
THEOREM RepeatsAreReplayed == Spec => RepeatIsNoConflict
<1>1. OrderInv /\ [Next]_vars =>
          [\A r \in Requests :
              Refused(r, "ErrActiveAttemptExists") => ~RecordedAlike(r)]_vars
  <2>1. SUFFICES ASSUME OrderInv, Next, NEW r \in Requests,
                        Refused(r, "ErrActiveAttemptExists")
                 PROVE  ~RecordedAlike(r)
    OBVIOUS
  <2>2. /\ result'[r].outcome = "ErrActiveAttemptExists"
        /\ result'[r] # result[r]
        /\ TypeOK
    BY <2>1, OrderVariables DEF Refused, TypeInv
  <2>3. CASE InsertPayment(r)
    BY <2>1, <2>3 DEF InsertPayment, OrderInv, ChecksStillHold
  <2>4. CASE Replay(r) \/ ReadBack(r)
    <3>1. result'[r].outcome \in {"ErrNotFound", "201", "202"}
      BY <2>1, <2>4, CallVariables DEF OrderInv, Replay, ReadBack, Respond, ReplayOutcome
    <3> QED BY <2>2, <3>1
  <2>5. ASSUME NEW outcome \in Outcomes \ {"201", "ErrActiveAttemptExists"},
               Respond(r, outcome, Null)
        PROVE  FALSE
    BY <2>2, <2>5, RespondTells
  <2> QED BY <2>1, <2>2, <2>3, <2>4, <2>5, AnsweredBy
<1> QED BY <1>1, OrderInvariant, PTL DEF Spec, RepeatIsNoConflict

\* If the provider sends a checkout URL with every acceptance, a client that is
\* told 201 has a finished payment or a URL to pay at, also when it repeats its
\* request.
THEOREM SuccessIsNotHollow ==
    ASSUME "" \notin ConfirmationUrls
    PROVE  Spec => NoHollowSuccess
<1> DEFINE Shown(r) ==
               LET row == payments[result'[r].payment]
               IN Terminal(row.status) \/ row.checkout_url = "url"
<1>1. OrderInv /\ [Next]_vars =>
          [\A r \in Requests : Refused(r, "201") => Shown(r)]_vars
  <2>1. SUFFICES ASSUME OrderInv, Next, NEW r \in Requests, Refused(r, "201")
                 PROVE  Shown(r)
    OBVIOUS
  <2>2. /\ result'[r].outcome = "201"
        /\ result'[r] # result[r]
        /\ TypeOK
    BY <2>1, OrderVariables DEF Refused, TypeInv
  <2>3. \A u \in ConfirmationUrls : u = "url"
    BY ConfirmationAssumption
  <2>4. CASE Replay(r)
    <3>a. ChecksStillHold(r) /\ pc[r] = "replay"
      BY <2>1, <2>4 DEF Replay, OrderInv
    <3>b. idempotency[KeyOf(r)] # Null
      BY <3>a DEF ChecksStillHold, RecordedAlike
    <3>1. PICK p \in Requests : p = idempotency[KeyOf(r)]
      BY <2>1, <3>b, OrderVariables
    <3>2. /\ result'[r].payment = p
          /\ ReplayOutcome(payments[p]) = "201"
      <4>1. PICK row : /\ row = GetPaymentForApplication(input[r].app, p)
                       /\ IF row = NoRow
                          THEN Respond(r, "ErrNotFound", Null)
                          ELSE Respond(r, ReplayOutcome(row), p)
        BY <2>4, <3>1 DEF Replay
      <4>2. row # NoRow
        <5>1. SUFFICES ASSUME row = NoRow
                       PROVE  FALSE
          OBVIOUS
        <5>2. Respond(r, "ErrNotFound", Null)
          BY <4>1, <5>1
        <5>3. result'[r].outcome = "ErrNotFound"
          BY <2>1, <2>2, <5>2, RespondTells
        <5> QED BY <2>2, <5>3
      <4>3. row = payments[p]
        BY <4>1, <4>2 DEF GetPaymentForApplication
      <4> QED BY <2>1, <2>2, <4>1, <4>2, <4>3, RespondTells
    <3>3. Terminal(payments[p].status) \/ payments[p].checkout_url # "null"
      BY <3>2 DEF ReplayOutcome
    <3>4. payments[p].checkout_url \in ConfirmationUrls \cup {"null"}
      BY <2>2, RowColumns
    <3> QED BY <2>3, <3>2, <3>3, <3>4
  <2>5. CASE ReadBack(r)
    <3>1. result'[r].payment = r /\ answer[r].code = "ok"
      BY <2>2, <2>5, RespondTells DEF ReadBack
    <3>2. OutcomeSaved(r) /\ IdFollowsStatus(r)
      BY <2>1, <2>5 DEF ReadBack, OrderInv, CallInv, CallInvOf, RowFollowsHandler
    <3>3. payments[r].checkout_url \in ConfirmationUrls
      BY <3>1, <3>2 DEF OutcomeSaved, IdFollowsStatus
    <3> QED BY <2>3, <3>1, <3>3
  <2>6. ASSUME InsertPayment(r), InsertConflicts(r)
        PROVE  FALSE
    <3>1. Respond(r, "ErrActiveAttemptExists", Null)
      BY <2>6 DEF InsertPayment
    <3>2. result'[r].outcome = "ErrActiveAttemptExists"
      BY <2>1, <2>2, <3>1, RespondTells
    <3> QED BY <2>2, <3>2
  <2>7. ASSUME NEW outcome \in Outcomes \ {"201", "ErrActiveAttemptExists"},
               Respond(r, outcome, Null)
        PROVE  FALSE
    BY <2>2, <2>7, RespondTells
  <2> QED BY <2>1, <2>2, <2>4, <2>5, <2>6, <2>7, AnsweredBy
<1> QED BY <1>1, OrderInvariant, PTL DEF Spec, NoHollowSuccess
=============================================================================
