------------------------- MODULE PaymentCallProofs -------------------------
(***************************************************************************)
(* A payment, its operation and its client's answer stay in step with the  *)
(* provider call, for every number of requests and readers                 *)
(* (AnswersStayTrue of PaymentService).                                    *)
(***************************************************************************)
EXTENDS PaymentSettlementProofs

\* The row carries the outcome of the call that its handler has saved.
OutcomeSaved(r) ==
    \/ answer[r].code = "ok" /\ payments[r].provider_payment_id = r
    \/ /\ answer[r].code # "ok"
       /\ Definitive(answer[r].code)
       /\ payments[r].status = "canceled"
       /\ pc[r] = "completeOperation"
    \/ /\ answer[r].code # "ok"
       /\ ~Definitive(answer[r].code)
       /\ payments[r].status = "creation_unknown"

\* What the row of r holds at each statement of r's handler after the commit.
RowFollowsHandler(r) ==
    /\ pc[r] = "markCreating" => payments[r].status = "created"
    /\ pc[r] \in {"startOperation", "callProvider", "awaitProvider"} =>
          payments[r].status = "creating"
    /\ pc[r] \in {"completeOperation", "readBack"} => OutcomeSaved(r)
    /\ pc[r] \in {"raced", "replay"} => ~Exists(r)

\* A payment has its own provider id or none: none before the provider has
\* confirmed it, its own while it can be paid, and a canceled one without an id
\* was refused.
IdFollowsStatus(p) ==
    /\ payments[p].provider_payment_id \in {p, Null}
    /\ payments[p].status \in {"absent", "created", "creating", "creation_unknown"} =>
          payments[p].provider_payment_id = Null
    /\ payments[p].status \in {"pending", "succeeded"} =>
          payments[p].provider_payment_id = p
    /\ payments[p].status = "canceled" /\ payments[p].provider_payment_id = Null =>
          provider[p] = "none" /\ p \notin inbox
    /\ payments[p].provider_payment_id = p => payments[p].checkout_url \in ConfirmationUrls

\* An operation exists with its payment; it is closed as succeeded only for a
\* confirmed payment and as failed only for a refused one.
OperationFollowsPayment(p) ==
    /\ operations[p] = "absent" <=> ~Exists(p)
    /\ operations[p] = "succeeded" => payments[p].provider_payment_id = p
    /\ operations[p] = "failed" =>
          pc[p] \in Called /\ provider[p] = "none" /\ p \notin inbox
    /\ p \in inbox \/ provider[p] # "none" => Exists(p)

\* AnswersStayTrue, for one request.
AnswerIsTrue(r) ==
    pc[r] = "done" /\ Exists(r) =>
        \/ result[r].outcome = "internalError"
        \/ result[r].outcome = "201" /\ payments[r].provider_payment_id = r
        \/ result[r].outcome = "202" /\ payments[r].status = "creation_unknown"
        \/ result[r].outcome = "providerError" /\ payments[r].status = "canceled"

CallInvOf(r) ==
    /\ RowFollowsHandler(r)
    /\ IdFollowsStatus(r)
    /\ OperationFollowsPayment(r)
    /\ AnswerIsTrue(r)

\* A refresh is about a payment that the provider has confirmed.
ReadsAreConfirmed ==
    \A g \in Readers :
        reads[g].at # "idle" =>
            payments[reads[g].payment].provider_payment_id = reads[g].payment

CallInv == SettlementInv /\ ReadsAreConfirmed /\ \A r \in Requests : CallInvOf(r)

---------------------------------------------------------------------------
\* The variables that the call is about are functions of the requests.
LEMMA CallVariables ==
    ASSUME CallInv
    PROVE  /\ payments \in [Requests -> PaymentRows]
           /\ operations \in [Requests -> OperationStatuses \cup {"absent"}]
           /\ pc \in [Requests -> CreateLabels]
           /\ answer \in [Requests -> Answers]
           /\ result \in [Requests -> [outcome : Outcomes, payment : Requests \cup {Null}]]
           /\ provider \in [Requests -> ProviderStatuses \cup {"none"}]
           /\ inbox \subseteq Requests
  BY DEF CallInv, SettlementInv, TypeInv, TypeOK

\* A step leaves every request but r alone.
MovesAlone(r) ==
    \A q \in Requests \ {r} :
        /\ pc'[q] = pc[q]
        /\ answer'[q] = answer[q]
        /\ result'[q] = result[q]
        /\ payments'[q] = payments[q]
        /\ operations'[q] = operations[q]
        /\ provider'[q] = provider[q]
        /\ q \in inbox' <=> q \in inbox

\* Such a step has CallInv to restore for r only.
LEMMA OneRequestMoves ==
    ASSUME CallInv, SettlementInv', ReadsAreConfirmed',
           NEW r \in Requests, MovesAlone(r), CallInvOf(r)'
    PROVE  CallInv'
<1>1. ASSUME NEW q \in Requests \ {r} PROVE CallInvOf(q)'
  <2>1. CallInvOf(q)
    BY DEF CallInv
  <2> QED BY <2>1 DEF MovesAlone, CallInvOf, RowFollowsHandler, OutcomeSaved,
                      IdFollowsStatus, OperationFollowsPayment, AnswerIsTrue, Exists
<1> QED BY <1>1 DEF CallInv

\* A payment keeps the id under which a refresh asks for it, in every step that
\* leaves the other rows alone.
LEMMA IdKeepsReads ==
    ASSUME CallInv, NEW r \in Requests, MovesAlone(r), reads' = reads,
           payments[r].provider_payment_id = r => payments'[r].provider_payment_id = r
    PROVE  ReadsAreConfirmed'
  BY DEF CallInv, SettlementInv, TypeInv, ReadsHaveRows, ReadsAreConfirmed, MovesAlone

---------------------------------------------------------------------------
\* Where a handler can be before its payment is committed, or when another
\* request has spent its key.
Unpaid == BeforeCommit \cup {"raced", "replay"}

\* Until its commit a handler's request has no row, no operation and no
\* provider payment, so any local step, or answer, keeps the invariant.
LEMMA LocalStepsCall ==
    ASSUME CallInv, SettlementInv', NEW r \in Requests,
           \/ Validate(r) \/ LookupKey(r) \/ CheckPaid(r) \/ RereadKey(r) \/ Replay(r)
           \/ LockOrderForPayment(r) \/ RecheckPaid(r) \/ RecheckKey(r)
           \/ ReadNextAttempt(r) \/ InsertPayment(r) \/ InsertKey(r)
    PROVE  CallInv'
<1> USE DEF database, external, locals
<1>1. UNCHANGED <<payments, operations, provider, inbox, reads>>
  BY DEF Validate, LookupKey, CheckPaid, RereadKey, Replay, LockOrderForPayment,
         RecheckPaid, RecheckKey, ReadNextAttempt, InsertPayment, InsertKey
<1>2. pc[r] \in Unpaid
  BY DEF Validate, LookupKey, CheckPaid, RereadKey, Replay, LockOrderForPayment,
         RecheckPaid, RecheckKey, ReadNextAttempt, InsertPayment, InsertKey,
         Unpaid, BeforeCommit
<1>3. \/ \E outcome, p : Respond(r, outcome, p)
      \/ /\ \E label \in Unpaid : Goto(r, label)
         /\ UNCHANGED <<answer, result>>
  <2>1. CASE Validate(r) \/ LookupKey(r) \/ CheckPaid(r) \/ RereadKey(r) \/ Replay(r)
    BY <2>1 DEF Validate, LookupKey, CheckPaid, RereadKey, Replay, ReplayKey, Unpaid,
                BeforeCommit
  <2>2. CASE \/ LockOrderForPayment(r) \/ RecheckPaid(r) \/ RecheckKey(r)
             \/ ReadNextAttempt(r) \/ InsertPayment(r) \/ InsertKey(r)
    BY <2>2 DEF LockOrderForPayment, RecheckPaid, RecheckKey, ReadNextAttempt,
                InsertPayment, InsertKey, Unpaid, BeforeCommit
  <2> QED BY <2>1, <2>2
<1>4. MovesAlone(r) /\ pc'[r] \in Unpaid \cup {"done"}
  BY <1>1, <1>3, CallVariables DEF MovesAlone, Respond, Goto
<1>5. ~Exists(r)
  BY <1>2 DEF Unpaid, CallInv, SettlementInv, TypeInv, HandlersHaveRows, CallInvOf,
              RowFollowsHandler
<1>6. CallInvOf(r)'
  <2>1. CallInvOf(r)
    BY DEF CallInv
  <2>2. ~Exists(r)' /\ operations'[r] = "absent"
    BY <1>1, <1>5, <2>1 DEF Exists, CallInvOf, OperationFollowsPayment
  <2> QED BY <1>1, <1>4, <2>1, <2>2
          DEF CallInvOf, RowFollowsHandler, IdFollowsStatus, OperationFollowsPayment,
              AnswerIsTrue, Unpaid, BeforeCommit
<1>7. ReadsAreConfirmed'
  BY <1>1, <1>4, IdKeepsReads
<1> QED BY <1>4, <1>6, <1>7, OneRequestMoves

\* The commit adds an unconfirmed payment that the provider has not heard of.
LEMMA CommitCall ==
    ASSUME CallInv, SettlementInv', NEW r \in Requests, Commit(r)
    PROVE  CallInv'
<1> USE DEF database, external, locals
<1>1. /\ MovesAlone(r)
      /\ payments'[r] = CreatedRow(attempt[r])
      /\ operations'[r] = "pending"
      /\ pc'[r] = "markCreating"
      /\ UNCHANGED <<provider, inbox, reads>>
  BY CallVariables DEF Commit, MovesAlone, Goto
<1>2. /\ payments'[r].status = "created"
      /\ payments'[r].provider_payment_id = Null
  BY <1>1 DEF CreatedRow
<1>3. Null # r
  BY NullAssumption
<1>4. payments[r].provider_payment_id # r
  <2>1. ~Exists(r)
    BY DEF Commit, BeforeCommit, CallInv, SettlementInv, TypeInv, HandlersHaveRows
  <2>2. IdFollowsStatus(r)
    BY DEF CallInv, CallInvOf
  <2> QED BY <1>3, <2>1, <2>2 DEF IdFollowsStatus, Exists
<1>5. CallInvOf(r)'
  BY <1>1, <1>2, <1>3
     DEF CallInvOf, RowFollowsHandler, IdFollowsStatus, OperationFollowsPayment,
         AnswerIsTrue, Exists
<1>6. ReadsAreConfirmed'
  BY <1>1, <1>4, IdKeepsReads
<1> QED BY <1>1, <1>5, <1>6, OneRequestMoves

\* The statements and the call on the way to the provider.
LEMMA CallerCall ==
    ASSUME CallInv, SettlementInv', NEW r \in Requests,
           MarkCreating(r) \/ StartOperation(r) \/ CallProvider(r)
    PROVE  CallInv'
<1> USE DEF database, external, locals
<1>1. /\ CallInvOf(r)
      /\ Null # r
      /\ operations[r] # "failed"
  <2>1. pc[r] \notin Called
    BY DEF MarkCreating, StartOperation, CallProvider, Called
  <2> QED BY <2>1, NullAssumption DEF CallInv, CallInvOf, OperationFollowsPayment
<1>2. CASE MarkCreating(r)
  <2>1. /\ MovesAlone(r)
        /\ payments'[r] = MarkPaymentCreating(payments[r])
        /\ pc'[r] = "startOperation"
        /\ UNCHANGED <<operations, provider, inbox, reads>>
    BY <1>2, CallVariables DEF MarkCreating, MovesAlone, Goto, SetRow
  <2>2. payments[r].status = "created"
    BY <1>1, <1>2 DEF MarkCreating, CallInvOf, RowFollowsHandler
  <2>3. /\ payments'[r].status = "creating"
        /\ payments'[r].provider_payment_id = payments[r].provider_payment_id
        /\ payments[r].provider_payment_id = Null
    BY <1>1, <2>1, <2>2, CallVariables
       DEF MarkPaymentCreating, PaymentRows, CallInvOf, IdFollowsStatus
  <2>4. CallInvOf(r)'
    BY <1>1, <2>1, <2>2, <2>3
       DEF CallInvOf, RowFollowsHandler, IdFollowsStatus, OperationFollowsPayment,
           AnswerIsTrue, Exists
  <2>5. ReadsAreConfirmed'
    BY <1>1, <2>1, <2>3, IdKeepsReads
  <2> QED BY <2>1, <2>4, <2>5, OneRequestMoves
<1>3. CASE StartOperation(r)
  <2>1. /\ MovesAlone(r)
        /\ operations'[r] = StartPaymentOperation(operations[r])
        /\ pc'[r] = "callProvider"
        /\ UNCHANGED <<payments, provider, inbox, reads>>
    BY <1>3, CallVariables DEF StartOperation, MovesAlone, Goto
  <2>2. payments[r].status = "creating"
    BY <1>1, <1>3 DEF StartOperation, CallInvOf, RowFollowsHandler
  <2>3. CallInvOf(r)'
    BY <1>1, <2>1, <2>2
       DEF CallInvOf, RowFollowsHandler, IdFollowsStatus, OperationFollowsPayment,
           AnswerIsTrue, Exists, StartPaymentOperation
  <2>4. ReadsAreConfirmed'
    BY <2>1, IdKeepsReads
  <2> QED BY <2>1, <2>3, <2>4, OneRequestMoves
<1>4. CASE CallProvider(r)
  <2>1. /\ MovesAlone(r)
        /\ pc'[r] = "awaitProvider"
        /\ UNCHANGED <<payments, operations, provider, reads>>
    BY <1>4, CallVariables DEF CallProvider, MovesAlone, Goto
  <2>2. payments[r].status = "creating"
    BY <1>1, <1>4 DEF CallProvider, CallInvOf, RowFollowsHandler
  <2>3. CallInvOf(r)'
    BY <1>1, <2>1, <2>2
       DEF CallInvOf, RowFollowsHandler, IdFollowsStatus, OperationFollowsPayment,
           AnswerIsTrue, Exists
  <2>4. ReadsAreConfirmed'
    BY <2>1, IdKeepsReads
  <2> QED BY <2>1, <2>3, <2>4, OneRequestMoves
<1> QED BY <1>2, <1>3, <1>4

\* The outcome of the call is saved while the row is still creating: no refresh
\* touches a payment without an id, so the unconditional SetPaymentCreated
\* overwrites nothing.
LEMMA SaveCall ==
    ASSUME CallInv, SettlementInv', NEW r \in Requests, SaveAccepted(r) \/ SaveFailed(r)
    PROVE  CallInv'
<1> USE DEF database, external, locals
<1>1. /\ CallInvOf(r)
      /\ Null # r
      /\ payments[r].status = "creating"
      /\ payments[r].provider_payment_id = Null
  BY NullAssumption DEF SaveAccepted, SaveFailed, CallInv, CallInvOf, RowFollowsHandler,
                        IdFollowsStatus
<1>2. /\ MovesAlone(r)
      /\ pc[r] = "awaitProvider" /\ pc'[r] = "completeOperation"
      /\ UNCHANGED <<operations, provider, inbox, reads, answer>>
  BY CallVariables DEF SaveAccepted, SaveFailed, MovesAlone, Goto, SetRow
<1>3. payments[r] \in PaymentRows
  BY CallVariables
<1>4. ReadsAreConfirmed'
  BY <1>1, <1>2, IdKeepsReads
<1>5. CASE SaveAccepted(r)
  <2>1. /\ answer[r].code = "ok"
        /\ answer[r].url \in ConfirmationUrls
    BY <1>5, AnswerTypes, CallVariables DEF SaveAccepted
  <2>2. payments'[r] = SetPaymentCreated(payments[r], r, answer[r].url)
    BY <1>5, CallVariables DEF SaveAccepted, SetRow
  <2>3. /\ payments'[r].status = "pending"
        /\ payments'[r].provider_payment_id = r
        /\ payments'[r].checkout_url = answer[r].url
    BY <1>3, <2>2 DEF SetPaymentCreated, PaymentRows
  <2>4. CallInvOf(r)'
    BY <1>1, <1>2, <2>1, <2>3
       DEF CallInvOf, RowFollowsHandler, OutcomeSaved, IdFollowsStatus,
           OperationFollowsPayment, AnswerIsTrue, Exists, Called
  <2> QED BY <1>2, <1>4, <2>4, OneRequestMoves
<1>6. CASE SaveFailed(r)
  <2>1. answer[r].code \in ErrorCodes /\ answer[r].code # "ok"
    BY <1>6 DEF SaveFailed, ErrorCodes
  <2>2. payments'[r] = IF Definitive(answer[r].code)
                       THEN SetPaymentCanceled(payments[r])
                       ELSE SetPaymentCreationUnknown(payments[r])
    BY <1>6, CallVariables DEF SaveFailed, SetRow
  <2>3. /\ payments'[r].status = IF Definitive(answer[r].code)
                                 THEN "canceled" ELSE "creation_unknown"
        /\ payments'[r].provider_payment_id = Null
    BY <1>1, <1>3, <2>2
       DEF SetPaymentCanceled, SetPaymentCreationUnknown, PaymentRows, Terminal
  <2>4. Definitive(answer[r].code) => provider[r] = "none" /\ r \notin inbox
    BY <2>1 DEF Definitive, ErrorCodes, CallInv, SettlementInv, RefusalsAreFinal
  <2>5. CallInvOf(r)'
    BY <1>1, <1>2, <2>1, <2>3, <2>4
       DEF CallInvOf, RowFollowsHandler, OutcomeSaved, IdFollowsStatus,
           OperationFollowsPayment, AnswerIsTrue, Exists, Called
  <2> QED BY <1>2, <1>4, <2>5, OneRequestMoves
<1> QED BY <1>5, <1>6

\* The operation is completed, if that works, and the client is answered from
\* what was saved.
LEMMA AnswerCall ==
    ASSUME CallInv, SettlementInv', NEW r \in Requests,
           CompleteOperation(r) \/ ReadBack(r) \/ Fail(r)
    PROVE  CallInv'
<1> USE DEF database, external, locals
<1>1. /\ MovesAlone(r)
      /\ UNCHANGED <<payments, provider, inbox, reads>>
  BY CallVariables DEF CompleteOperation, ReadBack, Fail, MovesAlone, Goto, Respond
<1>2. CallInvOf(r) /\ Null # r
  BY NullAssumption DEF CallInv
<1>3. ReadsAreConfirmed'
  BY <1>1, IdKeepsReads
<1>4. CASE CompleteOperation(r)
  <2>1. OutcomeSaved(r) /\ pc[r] = "completeOperation" /\ Exists(r)
    BY <1>2, <1>4 DEF CompleteOperation, CallInvOf, RowFollowsHandler, AfterCommit,
                      CallInv, SettlementInv, TypeInv, HandlersHaveRows
  <2>2. operations'[r] \in {CompletedStatus(answer[r].code), operations[r]}
    BY <1>4, CallVariables DEF CompleteOperation
  <2>3. /\ CompletedStatus(answer[r].code) \in {"succeeded", "failed", "unknown"}
        /\ CompletedStatus(answer[r].code) = "succeeded" => answer[r].code = "ok"
        /\ CompletedStatus(answer[r].code) = "failed" => Definitive(answer[r].code)
    BY DEF CompletedStatus
  <2>4. Definitive(answer[r].code) => provider[r] = "none" /\ r \notin inbox
    <3>1. answer[r].code # "PROVIDER_AUTH_FAILED"
      BY CallVariables DEF Answers, ErrorCodes
    <3> QED BY <3>1 DEF Definitive, CallInv, SettlementInv, RefusalsAreFinal
  <2>5. OperationFollowsPayment(r)'
    <3>1. operations'[r] # "absent"
      BY <1>2, <2>1, <2>2, <2>3 DEF CallInvOf, OperationFollowsPayment
    <3>2. operations'[r] = "succeeded" => payments[r].provider_payment_id = r
      BY <1>2, <2>1, <2>2, <2>3 DEF CallInvOf, OperationFollowsPayment, OutcomeSaved,
                                    Definitive
    <3>3. operations'[r] = "failed" => provider[r] = "none" /\ r \notin inbox
      BY <1>2, <2>2, <2>3, <2>4 DEF CallInvOf, OperationFollowsPayment
    <3>4. pc'[r] \in Called
      BY <1>4, CallVariables DEF CompleteOperation, Goto, Respond, Called
    <3> QED BY <1>1, <2>1, <3>1, <3>2, <3>3, <3>4 DEF OperationFollowsPayment, Exists
  <2>6. CASE Definitive(answer[r].code)
    <3>1. pc'[r] = "done" /\ result'[r].outcome = "providerError"
      BY <1>4, <2>6, CallVariables DEF CompleteOperation, Goto, Respond
    <3>2. payments[r].status = "canceled"
      BY <2>1, <2>6 DEF OutcomeSaved, Definitive
    <3>3. RowFollowsHandler(r)' /\ IdFollowsStatus(r)' /\ AnswerIsTrue(r)'
      BY <1>1, <1>2, <3>1, <3>2
         DEF CallInvOf, RowFollowsHandler, IdFollowsStatus, AnswerIsTrue
    <3> QED BY <1>1, <1>3, <2>5, <3>3, OneRequestMoves DEF CallInvOf
  <2>7. CASE ~Definitive(answer[r].code)
    <3>1. pc'[r] = "readBack" /\ answer'[r] = answer[r]
      BY <1>4, <2>7, CallVariables DEF CompleteOperation, Goto
    <3>2. RowFollowsHandler(r)' /\ IdFollowsStatus(r)' /\ AnswerIsTrue(r)'
      BY <1>1, <1>2, <2>1, <2>7, <3>1
         DEF CallInvOf, RowFollowsHandler, OutcomeSaved, IdFollowsStatus, AnswerIsTrue
    <3> QED BY <1>1, <1>3, <2>5, <3>2, OneRequestMoves DEF CallInvOf
  <2> QED BY <2>6, <2>7
<1>5. CASE ReadBack(r)
  <2>1. OutcomeSaved(r) /\ pc[r] = "readBack"
    BY <1>2, <1>5 DEF ReadBack, CallInvOf, RowFollowsHandler
  <2>2. /\ pc'[r] = "done" /\ operations' = operations
        /\ result'[r].outcome = IF answer[r].code = "ok" THEN "201" ELSE "202"
    BY <1>5, CallVariables DEF ReadBack, Goto, Respond
  <2>3. CallInvOf(r)'
    BY <1>1, <1>2, <2>1, <2>2
       DEF CallInvOf, RowFollowsHandler, OutcomeSaved, IdFollowsStatus,
           OperationFollowsPayment, AnswerIsTrue, Exists, Called
  <2> QED BY <1>1, <1>3, <2>3, OneRequestMoves
<1>6. CASE Fail(r)
  <2>1. /\ pc'[r] = "done" /\ operations' = operations
        /\ result'[r].outcome = "internalError"
    BY <1>6, CallVariables DEF Fail, Goto, Respond
  <2>2. CallInvOf(r)'
    BY <1>1, <1>2, <2>1
       DEF CallInvOf, RowFollowsHandler, IdFollowsStatus, OperationFollowsPayment,
           AnswerIsTrue, Exists, Called
  <2> QED BY <1>1, <1>3, <2>2, OneRequestMoves
<1> QED BY <1>4, <1>5, <1>6

\* The provider answers, settles, or stays silent: it deals with a request once,
\* and a refused payment is out of its reach.
LEMMA ProviderStepsCall ==
    ASSUME CallInv, SettlementInv', NEW r \in Requests,
           ProviderTimeout(r) \/ ProviderStep(r)
    PROVE  CallInv'
<1> USE DEF database, external, locals
<1>1. UNCHANGED <<payments, operations, pc, result, reads>>
  BY DEF ProviderStep, ProviderTimeout, ProviderAccepts, ProviderRefuses,
         ProviderFails, ProviderSettles
<1>2. /\ inbox' \subseteq inbox
      /\ inbox \subseteq inbox' \cup {r}
      /\ \A q \in Requests \ {r} : provider'[q] = provider[q]
      /\ provider'[r] # provider[r] => r \in inbox \/ provider[r] # "none"
  BY CallVariables DEF ProviderStep, ProviderTimeout, ProviderAccepts, ProviderRefuses,
                       ProviderFails, ProviderSettles
<1>3. /\ \A q \in Requests \ {r} : answer'[q] = answer[q]
      /\ answer'[r] # answer[r] => pc[r] = "awaitProvider"
  BY CallVariables DEF ProviderStep, ProviderTimeout, ProviderAccepts, ProviderRefuses,
                       ProviderFails, ProviderSettles, Delivered
<1>4. MovesAlone(r)
  BY <1>1, <1>2, <1>3 DEF MovesAlone
<1>5. CallInvOf(r)
  BY DEF CallInv
<1>6. CallInvOf(r)'
  <2>1. RowFollowsHandler(r)'
    BY <1>1, <1>3, <1>5 DEF CallInvOf, RowFollowsHandler, OutcomeSaved, Exists
  <2>2. IdFollowsStatus(r)'
    BY <1>1, <1>2, <1>5 DEF CallInvOf, IdFollowsStatus
  <2>3. OperationFollowsPayment(r)'
    BY <1>1, <1>2, <1>5 DEF CallInvOf, OperationFollowsPayment, Exists
  <2>4. AnswerIsTrue(r)'
    BY <1>1, <1>5 DEF CallInvOf, AnswerIsTrue, Exists
  <2> QED BY <2>1, <2>2, <2>3, <2>4 DEF CallInvOf
<1>7. ReadsAreConfirmed'
  BY <1>1, <1>4, IdKeepsReads
<1> QED BY <1>4, <1>6, <1>7, OneRequestMoves

---------------------------------------------------------------------------
\* Status reads: only a pending payment is refreshed.
LEMMA RefreshCall ==
    ASSUME CallInv, SettlementInv', NEW g \in Readers, ApplyRefresh(g)
    PROVE  CallInv'
<1> USE DEF database, external, locals
<1>1. PICK p \in Requests :
          /\ p = reads[g].payment /\ p # Null
          /\ Exists(p) /\ payments[p] \in PaymentRows
          /\ payments[p].provider_payment_id = p
          /\ reads[g].next \in ProviderStatuses
          /\ CallInvOf(p)
  BY NullAssumption, CallVariables
     DEF ApplyRefresh, CallInv, SettlementInv, TypeInv, ReadsHaveRows, ReadsAreConfirmed
<1>2. PICK row : /\ row = ApplyProviderStatus(payments[p], reads[g].next)
                 /\ payments' = [payments EXCEPT ![p] = row]
  BY <1>1 DEF ApplyRefresh, SetRow
<1>3. /\ reads' = [reads EXCEPT ![g] = IdleRead]
      /\ UNCHANGED <<operations, pc, answer, result, provider, inbox>>
  BY DEF ApplyRefresh
<1>4. payments[p].status \in {"pending", "succeeded", "canceled"}
  BY <1>1 DEF CallInvOf, IdFollowsStatus, PaymentRows, Statuses
<1>5. /\ row.provider_payment_id = p
      /\ row.checkout_url = payments[p].checkout_url
      /\ row.status \in ProviderStatuses
      /\ row.status = payments[p].status \/ payments[p].status = "pending"
  BY <1>1, <1>2, <1>4 DEF ApplyProviderStatus, PaymentRows, ProviderStatuses, Terminal
<1>6. payments'[p] = row /\ \A q \in Requests \ {p} : payments'[q] = payments[q]
  BY <1>1, <1>2, CallVariables
<1>7. MovesAlone(p)
  BY <1>3, <1>6 DEF MovesAlone
<1>8. CallInvOf(p)'
  <2>1. RowFollowsHandler(p)'
    BY <1>1, <1>3, <1>4, <1>5, <1>6
       DEF CallInvOf, RowFollowsHandler, OutcomeSaved, Exists, ProviderStatuses
  <2>2. IdFollowsStatus(p)'
    BY <1>1, <1>3, <1>5, <1>6 DEF CallInvOf, IdFollowsStatus, ProviderStatuses
  <2>3. OperationFollowsPayment(p)'
    BY <1>1, <1>3, <1>5, <1>6
       DEF CallInvOf, OperationFollowsPayment, Exists, ProviderStatuses
  <2>4. AnswerIsTrue(p)'
    BY <1>1, <1>3, <1>4, <1>5, <1>6 DEF CallInvOf, AnswerIsTrue
  <2> QED BY <2>1, <2>2, <2>3, <2>4 DEF CallInvOf
<1>9. ReadsAreConfirmed'
  <2>1. \A h \in Readers : reads'[h] = IF h = g THEN IdleRead ELSE reads[h]
    BY <1>3 DEF CallInv, SettlementInv, TypeInv, TypeOK
  <2>2. IdleRead.at = "idle"
    BY DEF IdleRead
  <2> QED BY <1>1, <1>5, <1>6, <2>1, <2>2
          DEF CallInv, SettlementInv, TypeInv, ReadsHaveRows, ReadsAreConfirmed
<1> QED BY <1>1, <1>7, <1>8, <1>9, OneRequestMoves

\* The other steps of a read change no table.
LEMMA ReadsCall ==
    ASSUME CallInv, SettlementInv', NEW g \in Readers,
           \/ \E app \in Apps, p \in Requests : BeginRefresh(g, app, p)
           \/ FetchStatus(g) \/ AbandonRefresh(g)
    PROVE  CallInv'
<1> USE DEF database, external, locals
<1>1. UNCHANGED <<payments, operations, pc, answer, result, provider, inbox>>
  BY DEF BeginRefresh, FetchStatus, AbandonRefresh
<1>2. reads \in [Readers -> [at : {"idle", "fetch", "apply"},
                             payment : Requests \cup {Null},
                             seen : Statuses \cup {"absent"},
                             next : ProviderStatuses \cup {""}]]
  BY DEF CallInv, SettlementInv, TypeInv, TypeOK
<1>3. IdleRead.at = "idle"
  BY DEF IdleRead
<1>4. \A h \in Readers \ {g} : reads'[h] = reads[h]
  BY <1>2 DEF BeginRefresh, FetchStatus, AbandonRefresh
<1>5. reads'[g].at # "idle" =>
          payments[reads'[g].payment].provider_payment_id = reads'[g].payment
  <2>1. CASE AbandonRefresh(g)
    BY <1>2, <1>3, <2>1 DEF AbandonRefresh
  <2>2. CASE FetchStatus(g)
    <3>1. reads'[g].at # "idle" => reads'[g].payment = reads[g].payment
      BY <1>2, <1>3, <2>2 DEF FetchStatus
    <3> QED BY <2>2, <3>1 DEF FetchStatus, CallInv, ReadsAreConfirmed
  <2>3. ASSUME NEW app \in Apps, NEW p \in Requests, BeginRefresh(g, app, p)
        PROVE  payments[reads'[g].payment].provider_payment_id = reads'[g].payment
    <3>1. payments[p].provider_payment_id # Null
      BY <2>3 DEF BeginRefresh, GetPaymentForApplication, NeedsRefresh, NoRow
    <3>2. payments[p].provider_payment_id = p
      BY <3>1 DEF CallInv, CallInvOf, IdFollowsStatus
    <3>3. reads'[g].payment = p
      BY <1>2, <2>3 DEF BeginRefresh
    <3> QED BY <3>2, <3>3
  <2> QED BY <2>1, <2>2, <2>3
<1>6. ReadsAreConfirmed'
  BY <1>1, <1>4, <1>5 DEF CallInv, ReadsAreConfirmed
<1>7. \A r \in Requests : CallInvOf(r)'
  BY <1>1 DEF CallInv, CallInvOf, RowFollowsHandler, OutcomeSaved, IdFollowsStatus,
              OperationFollowsPayment, AnswerIsTrue, Exists
<1> QED BY <1>6, <1>7 DEF CallInv

---------------------------------------------------------------------------
\* At first no payment exists and no handler has begun.
LEMMA InitCall == Init => CallInv
<1> SUFFICES ASSUME Init PROVE CallInv
  OBVIOUS
<1>1. ReadsAreConfirmed
  BY DEF Init, ReadsAreConfirmed, IdleRead
<1>2. ASSUME NEW r \in Requests PROVE CallInvOf(r)
  <2>1. /\ payments[r] = NoRow /\ operations[r] = "absent" /\ pc[r] = "received"
        /\ provider[r] = "none" /\ r \notin inbox /\ r # Null
    BY NullAssumption DEF Init
  <2> QED BY <2>1 DEF CallInvOf, RowFollowsHandler, IdFollowsStatus,
                      OperationFollowsPayment, AnswerIsTrue, Exists, NoRow
<1> QED BY <1>1, <1>2, InitSettles DEF CallInv

\* Every step keeps the invariant.
LEMMA NextCall == CallInv /\ [Next]_vars => CallInv'
<1> SUFFICES ASSUME CallInv, [Next]_vars PROVE CallInv'
  OBVIOUS
<1>1. SettlementInv'
  BY NextSettles DEF CallInv
<1>2. ASSUME NEW r \in Requests, Validate(r) \/ HandlerStep(r) \/ Fail(r) \/ ProviderStep(r)
      PROVE  CallInv'
  BY <1>1, <1>2, LocalStepsCall, CommitCall, CallerCall, SaveCall, AnswerCall,
     ProviderStepsCall DEF HandlerStep
<1>3. CASE UNCHANGED vars
  BY <1>1, <1>3 DEF vars, database, locals, external, CallInv, ReadsAreConfirmed,
                    CallInvOf, RowFollowsHandler, OutcomeSaved, IdFollowsStatus,
                    OperationFollowsPayment, AnswerIsTrue, Exists
<1> QED BY <1>1, <1>2, <1>3, RefreshCall, ReadsCall DEF Next, RefreshStep

\* The inductive invariant of the call holds in every behaviour.
LEMMA CallInvariant == Spec => []CallInv
BY InitCall, NextCall, PTL DEF Spec

\* What a client was told about the payment its request made stays true, though
\* the answer is sent after several statements that commit on their own and
\* refreshes go on changing the row: a 202 payment has no provider id, so nothing
\* refreshes it, and a refused one is final.
THEOREM AnswersCorrect == Spec => []AnswersStayTrue
<1>1. CallInv => AnswersStayTrue
  BY DEF CallInv, CallInvOf, AnswerIsTrue, AnswersStayTrue
<1> QED BY <1>1, CallInvariant, PTL
=============================================================================
