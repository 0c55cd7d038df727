---------------------- MODULE PaymentSettlementProofs ----------------------
(***************************************************************************)
(* A finished payment agrees with the provider, for every number of        *)
(* requests and readers (SettledAgreesWithProvider of PaymentService).     *)
(***************************************************************************)
EXTENDS PaymentServiceProofs

\* Where a handler can be once it has called the provider.
Called == {"awaitProvider", "completeOperation", "readBack", "done"}

\* The provider hears of a payment once, after its handler's call, and until
\* then nothing has settled the payment.
CalledOnce ==
    \A r \in Requests :
        /\ r \in inbox => provider[r] = "none"
        /\ r \in inbox \/ provider[r] # "none" => pc[r] \in Called
        /\ payments[r].status = "canceled" => pc[r] \in Called

\* An answer is held by the handler that waits for it, and a refusal says that
\* no payment was made.
RefusalsAreFinal ==
    \A r \in Requests :
        /\ answer[r] # NoAnswer => pc[r] \in Called \ {"done"}
        /\ answer[r].code = "INVALID_REQUEST" => provider[r] = "none" /\ r \notin inbox

\* The status a refresh is about to apply, if it is final, is still the
\* provider's.
RefreshesAreTrue ==
    \A g \in Readers :
        reads[g].at = "apply" /\ reads[g].next # "pending" =>
            provider[reads[g].payment] = reads[g].next

SettlementInv ==
    /\ TypeInv
    /\ SettledAgreesWithProvider
    /\ CalledOnce
    /\ RefusalsAreFinal
    /\ RefreshesAreTrue

---------------------------------------------------------------------------
\* The variables that settlement is about are functions of the requests.
LEMMA SettlementTypes ==
    ASSUME SettlementInv
    PROVE  /\ payments \in [Requests -> PaymentRows]
           /\ pc \in [Requests -> CreateLabels]
           /\ answer \in [Requests -> Answers]
           /\ provider \in [Requests -> ProviderStatuses \cup {"none"}]
           /\ inbox \subseteq Requests
  BY DEF SettlementInv, TypeInv, TypeOK

\* What the statements of the call write into the column status.
LEMMA StatusUpdates ==
    ASSUME NEW row \in PaymentRows
    PROVE  /\ MarkPaymentCreating(row).status \in {row.status, "creating"}
           /\ \A id, url : SetPaymentCreated(row, id, url).status = "pending"
           /\ SetPaymentCreationUnknown(row).status \in {row.status, "creation_unknown"}
           /\ SetPaymentCanceled(row).status \in {row.status, "canceled"}
           /\ \A s : ApplyProviderStatus(row, s).status \in {row.status, s}
  BY DEF PaymentRows, MarkPaymentCreating, SetPaymentCreated,
         SetPaymentCreationUnknown, SetPaymentCanceled, ApplyProviderStatus

\* A step of r's handler that neither calls nor hears the provider, and settles
\* no payment.
Quiet(r) ==
    /\ UNCHANGED <<provider, inbox, reads>>
    /\ \A q \in Requests \ {r} :
          /\ pc'[q] = pc[q]
          /\ answer'[q] = answer[q]
          /\ payments'[q] = payments[q]
    /\ pc[r] \in Called => pc'[r] \in Called
    /\ \/ answer'[r] = NoAnswer
       \/ answer'[r] = answer[r] /\ (pc[r] \in Called => pc'[r] # "done")
    /\ \/ payments'[r].status = payments[r].status
       \/ payments'[r].status \notin {"succeeded", "canceled"}

\* A quiet step of one request keeps the agreement with the provider.
LEMMA QuietKeepsSettlement ==
    ASSUME SettlementInv, TypeInv', NEW r \in Requests, Quiet(r)
    PROVE  SettlementInv'
<1>1. SettledAgreesWithProvider'
  BY DEF SettlementInv, SettledAgreesWithProvider, Quiet
<1>2. CalledOnce'
  BY DEF SettlementInv, CalledOnce, Quiet
<1>3. RefusalsAreFinal'
  <2>1. NoAnswer.code # "INVALID_REQUEST"
    BY DEF NoAnswer
  <2>2. ASSUME NEW q \in Requests, answer'[q] # NoAnswer
        PROVE  /\ answer'[q] = answer[q]
               /\ pc'[q] \in Called \ {"done"}
    BY <2>2 DEF SettlementInv, RefusalsAreFinal, Quiet
  <2>3. ASSUME NEW q \in Requests, answer'[q].code = "INVALID_REQUEST"
        PROVE  provider'[q] = "none" /\ q \notin inbox'
    BY <2>1, <2>2, <2>3 DEF SettlementInv, RefusalsAreFinal, Quiet
  <2> QED BY <2>2, <2>3 DEF RefusalsAreFinal
<1>4. RefreshesAreTrue'
  BY DEF SettlementInv, RefreshesAreTrue, Quiet
<1> QED BY <1>1, <1>2, <1>3, <1>4 DEF SettlementInv

\* The handler answers its client.
LEMMA RespondIsQuiet ==
    ASSUME TypeInv, NEW r \in Requests, NEW outcome, NEW p, Respond(r, outcome, p),
           UNCHANGED <<payments, provider, inbox, reads>>
    PROVE  Quiet(r)
  BY DEF Quiet, Respond, Goto, Called, TypeInv, TypeOK

\* The handler goes on, without an answer yet or with the one it has.
LEMMA GotoIsQuiet ==
    ASSUME TypeInv, NEW r \in Requests, NEW label \in CreateLabels \ {"done"},
           Goto(r, label), pc[r] \in Called => label \in Called,
           UNCHANGED <<answer, payments, provider, inbox, reads>>
    PROVE  Quiet(r)
  BY DEF Quiet, Goto, Called, TypeInv, TypeOK

\* All steps that settle nothing and call nobody are quiet.
LEMMA LocalStepsSettle ==
    ASSUME SettlementInv, TypeInv', NEW r \in Requests,
           \/ Validate(r) \/ LookupKey(r) \/ CheckPaid(r) \/ RereadKey(r)
           \/ LockOrderForPayment(r) \/ RecheckPaid(r) \/ RecheckKey(r)
           \/ ReadNextAttempt(r) \/ InsertPayment(r) \/ InsertKey(r)
           \/ StartOperation(r) \/ CompleteOperation(r)
           \/ ReadBack(r) \/ Replay(r) \/ Fail(r)
    PROVE  SettlementInv'
<1> USE DEF database, external, locals
<1>1. UNCHANGED <<payments, provider, inbox, reads>>
  BY DEF Validate, LookupKey, CheckPaid, RereadKey, LockOrderForPayment, RecheckPaid,
         RecheckKey, ReadNextAttempt, InsertPayment, InsertKey, StartOperation,
         CompleteOperation, ReadBack, Replay, Fail
<1>2. \/ \E outcome, p : Respond(r, outcome, p)
      \/ /\ pc[r] \notin Called
         /\ \E label \in CreateLabels \ {"done"} : Goto(r, label)
         /\ answer' = answer
      \/ Goto(r, "readBack") /\ answer' = answer
  <2>1. CASE \/ Validate(r) \/ LookupKey(r) \/ CheckPaid(r) \/ RereadKey(r)
    BY <2>1 DEF Validate, LookupKey, CheckPaid, RereadKey, ReplayKey, Called,
                CreateLabels
  <2>2. CASE \/ LockOrderForPayment(r) \/ RecheckPaid(r) \/ RecheckKey(r)
             \/ ReadNextAttempt(r) \/ InsertPayment(r) \/ InsertKey(r)
             \/ StartOperation(r)
    BY <2>2 DEF LockOrderForPayment, RecheckPaid, RecheckKey, ReadNextAttempt,
                InsertPayment, InsertKey, StartOperation, Called, CreateLabels
  <2>3. CASE CompleteOperation(r) \/ ReadBack(r) \/ Replay(r) \/ Fail(r)
    BY <2>3 DEF CompleteOperation, ReadBack, Replay, Fail
  <2> QED BY <2>1, <2>2, <2>3
<1>3. Quiet(r)
  <2>1. CASE \E outcome, p : Respond(r, outcome, p)
    BY <1>1, <2>1, RespondIsQuiet DEF SettlementInv
  <2>2. CASE /\ pc[r] \notin Called
             /\ \E label \in CreateLabels \ {"done"} : Goto(r, label)
             /\ answer' = answer
    BY <1>1, <2>2, GotoIsQuiet DEF SettlementInv
  <2>3. CASE Goto(r, "readBack") /\ answer' = answer
    BY <1>1, <2>3, GotoIsQuiet DEF SettlementInv, Called, CreateLabels
  <2> QED BY <1>2, <2>1, <2>2, <2>3
<1> QED BY <1>3, QuietKeepsSettlement

\* The statements that write a row without settling it.
LEMMA RowStepsSettle ==
    ASSUME SettlementInv, TypeInv', NEW r \in Requests,
           Commit(r) \/ MarkCreating(r) \/ SaveAccepted(r)
    PROVE  SettlementInv'
<1> USE DEF database, external, locals
<1>1. UNCHANGED <<answer, provider, inbox, reads>>
  BY DEF Commit, MarkCreating, SaveAccepted
<1>2. /\ payments \in [Requests -> PaymentRows]
      /\ pc \in [Requests -> CreateLabels]
  BY SettlementTypes
<1>3. PICK row : /\ payments' = [payments EXCEPT ![r] = row]
                 /\ \/ row.status = payments[r].status
                    \/ row.status \notin {"succeeded", "canceled"}
  BY <1>2, StatusUpdates DEF Commit, MarkCreating, SaveAccepted, SetRow, CreatedRow
<1>4. PICK label : /\ pc' = [pc EXCEPT ![r] = label]
                   /\ label # "done"
                   /\ pc[r] \in Called => label \in Called
  BY DEF Commit, MarkCreating, SaveAccepted, Goto, Called
<1>5. Quiet(r)
  BY <1>1, <1>2, <1>3, <1>4 DEF Quiet
<1> QED BY <1>5, QuietKeepsSettlement

\* A refusal settles the payment: nothing was made, and nothing is on its way.
LEMMA SaveFailedSettles ==
    ASSUME SettlementInv, TypeInv', NEW r \in Requests, SaveFailed(r)
    PROVE  SettlementInv'
<1> USE DEF database, external, locals
<1>1. UNCHANGED <<answer, provider, inbox, reads>>
  BY DEF SaveFailed
<1>2. PICK row :
          /\ payments' = [payments EXCEPT ![r] = row]
          /\ row.status \in {payments[r].status,
                             IF Definitive(answer[r].code)
                             THEN "canceled" ELSE "creation_unknown"}
  BY SettlementTypes, StatusUpdates DEF SaveFailed, SetRow
<1>3. \A q \in Requests :
         /\ q # r => payments'[q] = payments[q] /\ pc'[q] = pc[q]
         /\ q = r => payments'[q] = row /\ pc'[q] = "completeOperation"
  BY <1>2, SettlementTypes DEF SaveFailed, Goto
<1>4. CASE Definitive(answer[r].code)
  <2>1. answer[r].code = "INVALID_REQUEST"
    BY <1>4 DEF SaveFailed, Definitive, ErrorCodes
  <2>2. provider[r] = "none" /\ r \notin inbox
    BY <2>1 DEF SettlementInv, RefusalsAreFinal
  <2>3. SettledAgreesWithProvider'
    BY <1>1, <1>2, <1>3, <1>4, <2>2 DEF SettlementInv, SettledAgreesWithProvider
  <2>4. CalledOnce' /\ RefusalsAreFinal' /\ RefreshesAreTrue'
    BY <1>1, <1>3 DEF SettlementInv, CalledOnce, RefusalsAreFinal, RefreshesAreTrue,
                      Called
  <2> QED BY <2>3, <2>4 DEF SettlementInv
<1>5. CASE ~Definitive(answer[r].code)
  <2>1. Quiet(r)
    BY <1>1, <1>2, <1>3, <1>5 DEF Quiet, Called
  <2> QED BY <2>1, QuietKeepsSettlement
<1> QED BY <1>4, <1>5

---------------------------------------------------------------------------
\* The call and its answer.
LEMMA CallSettles ==
    ASSUME SettlementInv, TypeInv', NEW r \in Requests, CallProvider(r)
    PROVE  SettlementInv'
<1> USE DEF database, external, locals
<1>1. UNCHANGED <<payments, answer, provider, reads>> /\ inbox' = inbox \cup {r}
  BY DEF CallProvider
<1>2. /\ \A q \in Requests \ {r} : pc'[q] = pc[q]
      /\ pc'[r] = "awaitProvider"
  BY DEF CallProvider, Goto, SettlementInv, TypeInv, TypeOK
<1>3. pc[r] \notin Called
  BY DEF CallProvider, Called
<1>4. provider[r] = "none" /\ answer[r] = NoAnswer /\ payments[r].status # "canceled"
  BY <1>3 DEF SettlementInv, CalledOnce, RefusalsAreFinal
<1>5. SettledAgreesWithProvider' /\ CalledOnce'
  BY <1>1, <1>2, <1>4 DEF SettlementInv, SettledAgreesWithProvider, CalledOnce, Called
<1>6. RefusalsAreFinal'
  BY <1>1, <1>2, <1>4 DEF SettlementInv, RefusalsAreFinal, Called, NoAnswer
<1>7. RefreshesAreTrue'
  BY <1>1 DEF SettlementInv, RefreshesAreTrue
<1> QED BY <1>5, <1>6, <1>7 DEF SettlementInv

\* An answer, kept by the handler or by nobody, of a provider that has just
\* dealt with the request.
LEMMA ProviderStepsSettle ==
    ASSUME SettlementInv, TypeInv', NEW r \in Requests,
           ProviderTimeout(r) \/ ProviderStep(r)
    PROVE  SettlementInv'
<1> USE DEF database, external, locals
<1>1. UNCHANGED <<payments, pc, reads>>
  BY DEF ProviderStep, ProviderTimeout, ProviderAccepts, ProviderRefuses,
         ProviderFails, ProviderSettles
<1>2. \* What happens to r at the provider, and what is said about it.
      \/ /\ r \in inbox /\ inbox' = inbox \ {r}
         /\ \E s \in {provider[r], "pending"}, c \in {"ok"} \cup ErrorCodes,
               u \in ConfirmationUrls \cup {"null"} :
               /\ provider' = [provider EXCEPT ![r] = s]
               /\ c = "INVALID_REQUEST" => s = provider[r]
               /\ answer' = Delivered(r, [code |-> c, url |-> u])
      \/ /\ provider[r] = "pending" /\ inbox' = inbox /\ answer' = answer
         /\ \E s \in {"succeeded", "canceled"} : provider' = [provider EXCEPT ![r] = s]
      \/ /\ pc[r] = "awaitProvider" /\ UNCHANGED <<provider, inbox>>
         /\ answer' = [answer EXCEPT ![r] = [code |-> "PROVIDER_TIMEOUT", url |-> "null"]]
  <2>1. CASE ProviderAccepts(r)
    BY <2>1 DEF ProviderAccepts
  <2>2. CASE ProviderRefuses(r)
    <3>1. provider' = [provider EXCEPT ![r] = provider[r]]
      BY <2>2, SettlementTypes DEF ProviderRefuses
    <3> QED BY <2>2, <3>1 DEF ProviderRefuses, ErrorCodes
  <2>3. CASE ProviderFails(r)
    <3>1. \E s \in {provider[r], "pending"} : provider' = [provider EXCEPT ![r] = s]
      BY <2>3, SettlementTypes DEF ProviderFails
    <3> QED BY <2>3, <3>1 DEF ProviderFails, ErrorCodes
  <2>4. CASE ProviderSettles(r)
    BY <2>4 DEF ProviderSettles
  <2>5. CASE ProviderTimeout(r)
    BY <2>5 DEF ProviderTimeout
  <2> QED BY <2>1, <2>2, <2>3, <2>4, <2>5 DEF ProviderStep
<1>3. \A q \in Requests \ {r} :
         /\ provider'[q] = provider[q]
         /\ q \in inbox' <=> q \in inbox
         /\ answer'[q] = answer[q]
  BY <1>2, SettlementTypes DEF Delivered
<1>4. /\ inbox' \subseteq inbox
      /\ provider'[r] # provider[r] => provider[r] \in {"none", "pending"}
      /\ provider'[r] # provider[r] => r \notin inbox'
      /\ provider'[r] # provider[r] => pc[r] \in Called
      /\ provider'[r] = "none" \/ r \notin inbox'
      /\ provider'[r] = "none" => provider[r] = "none"
  BY <1>2, SettlementTypes DEF SettlementInv, CalledOnce, ProviderStatuses
<1>5. \/ answer'[r] = answer[r]
      \/ /\ pc[r] = "awaitProvider"
         /\ answer'[r].code = "INVALID_REQUEST" => provider'[r] = provider[r] /\ r \in inbox /\ r \notin inbox'
  BY <1>2, SettlementTypes DEF Delivered, ErrorCodes
<1>6. CalledOnce'
  BY <1>1, <1>3, <1>4 DEF SettlementInv, CalledOnce
<1>7. SettledAgreesWithProvider'
  <2>1. payments[r].status = "succeeded" => provider'[r] = "succeeded"
    BY <1>4 DEF SettlementInv, SettledAgreesWithProvider
  <2>2. payments[r].status = "canceled" =>
            provider'[r] \in {"none", "canceled"} /\ r \notin inbox'
    BY <1>2, <1>4, SettlementTypes DEF SettlementInv, SettledAgreesWithProvider
  <2> QED BY <1>1, <1>3, <2>1, <2>2 DEF SettlementInv, SettledAgreesWithProvider
<1>8. RefusalsAreFinal'
  <2>1. answer'[r] = answer[r] /\ answer[r].code = "INVALID_REQUEST" =>
            provider'[r] = "none" /\ r \notin inbox'
    BY <1>2, <1>4, SettlementTypes DEF SettlementInv, RefusalsAreFinal
  <2>2. answer'[r].code = "INVALID_REQUEST" => provider'[r] = "none" /\ r \notin inbox'
    BY <1>5, <2>1 DEF SettlementInv, CalledOnce
  <2>3. answer'[r] # NoAnswer => pc[r] \in Called \ {"done"}
    BY <1>5 DEF SettlementInv, RefusalsAreFinal, Called
  <2> QED BY <1>1, <1>3, <2>2, <2>3 DEF SettlementInv, RefusalsAreFinal
<1>9. RefreshesAreTrue'
  <2>1. ASSUME NEW g \in Readers, reads[g].at = "apply", reads[g].next # "pending"
        PROVE  provider'[reads[g].payment] = reads[g].next
    <3>1. /\ provider[reads[g].payment] = reads[g].next
          /\ reads[g].next \in {"succeeded", "canceled"}
          /\ reads[g].payment \in Requests
      BY <2>1 DEF SettlementInv, RefreshesAreTrue, TypeInv, ReadsHaveRows,
                  ProviderStatuses
    <3> QED BY <1>3, <1>4, <3>1
  <2> QED BY <1>1, <2>1 DEF RefreshesAreTrue
<1> QED BY <1>6, <1>7, <1>8, <1>9 DEF SettlementInv

---------------------------------------------------------------------------
\* A refresh writes what the provider has reported, which is final if it settles
\* the payment.
LEMMA ReadsSettle ==
    ASSUME SettlementInv, TypeInv', NEW g \in Readers,
           \/ \E app \in Apps, p \in Requests : BeginRefresh(g, app, p)
           \/ RefreshStep(g)
    PROVE  SettlementInv'
<1> USE DEF database, external, locals
<1>1. UNCHANGED <<pc, answer, provider, inbox>>
  BY DEF RefreshStep, BeginRefresh, FetchStatus, ApplyRefresh, AbandonRefresh
<1>2. reads \in [Readers -> [at : {"idle", "fetch", "apply"},
                             payment : Requests \cup {Null},
                             seen : Statuses \cup {"absent"},
                             next : ProviderStatuses \cup {""}]]
  BY DEF SettlementInv, TypeInv, TypeOK
<1>3. RefusalsAreFinal'
  BY <1>1 DEF SettlementInv, RefusalsAreFinal
<1>4. CASE FetchStatus(g)
  <2>1. payments' = payments
    BY <1>4 DEF FetchStatus
  <2>2. /\ \A h \in Readers \ {g} : reads'[h] = reads[h]
        /\ reads'[g].at = "apply" =>
              /\ reads'[g].payment = reads[g].payment
              /\ reads'[g].next = InternalStatus(provider[reads[g].payment])
    BY <1>2, <1>4 DEF FetchStatus, IdleRead
  <2>3. reads'[g].at = "apply" => reads'[g].next = provider[reads[g].payment]
    BY <2>2 DEF InternalStatus, TypeInv, ReadsHaveRows, ProviderStatuses
  <2>4. RefreshesAreTrue'
    BY <1>1, <2>2, <2>3 DEF SettlementInv, RefreshesAreTrue
  <2> QED BY <1>1, <1>3, <2>1, <2>4
          DEF SettlementInv, SettledAgreesWithProvider, CalledOnce
<1>5. CASE ApplyRefresh(g)
  <2> DEFINE p == reads[g].payment
  <2>1. /\ p \in Requests
        /\ reads[g].next \in ProviderStatuses
        /\ reads[g].next # "pending" => provider[p] = reads[g].next
    BY <1>5 DEF ApplyRefresh, SettlementInv, TypeInv, ReadsHaveRows, RefreshesAreTrue
  <2>2. PICK row : /\ payments' = [payments EXCEPT ![p] = row]
                   /\ row.status \in {payments[p].status, reads[g].next}
    BY <1>5, <2>1, SettlementTypes, StatusUpdates DEF ApplyRefresh, SetRow
  <2>3. \A q \in Requests : payments'[q] = IF q = p THEN row ELSE payments[q]
    BY <2>2, SettlementTypes
  <2> HIDE DEF p
  <2>4. SettledAgreesWithProvider'
    BY <1>1, <2>1, <2>2, <2>3
       DEF SettlementInv, SettledAgreesWithProvider, CalledOnce, ProviderStatuses
  <2>5. CalledOnce'
    BY <1>1, <2>1, <2>2, <2>3 DEF SettlementInv, CalledOnce
  <2>6. reads' = [reads EXCEPT ![g] = IdleRead]
    BY <1>5 DEF ApplyRefresh
  <2>7. RefreshesAreTrue'
    BY <1>1, <1>2, <2>6 DEF SettlementInv, RefreshesAreTrue, IdleRead
  <2> QED BY <1>3, <2>4, <2>5, <2>7 DEF SettlementInv
<1>6. CASE AbandonRefresh(g) \/ \E app \in Apps, p \in Requests : BeginRefresh(g, app, p)
  <2>1. payments' = payments
    BY <1>6 DEF AbandonRefresh, BeginRefresh
  <2>2. PICK read : reads' = [reads EXCEPT ![g] = read] /\ read.at # "apply"
    <3>1. CASE AbandonRefresh(g)
      <4>1. IdleRead.at # "apply"
        BY DEF IdleRead
      <4> QED BY <3>1, <4>1 DEF AbandonRefresh
    <3>2. ASSUME NEW app \in Apps, NEW p \in Requests, BeginRefresh(g, app, p)
          PROVE  \E read : reads' = [reads EXCEPT ![g] = read] /\ read.at # "apply"
      <4> DEFINE read == [at |-> "fetch", payment |-> p,
                          seen |-> GetPaymentForApplication(app, p).status,
                          next |-> ""]
      <4>1. reads' = [reads EXCEPT ![g] = read]
        BY <3>2 DEF BeginRefresh
      <4>2. read.at # "apply"
        OBVIOUS
      <4> HIDE DEF read
      <4> QED BY <4>1, <4>2
    <3> QED BY <1>6, <3>1, <3>2
  <2>3. RefreshesAreTrue'
    BY <1>1, <1>2, <2>2 DEF SettlementInv, RefreshesAreTrue
  <2> QED BY <1>1, <1>3, <2>1, <2>3
          DEF SettlementInv, SettledAgreesWithProvider, CalledOnce
<1> QED BY <1>4, <1>5, <1>6 DEF RefreshStep

---------------------------------------------------------------------------
\* Nothing is settled and nothing on its way in the beginning.
LEMMA InitSettles == Init => SettlementInv
<1> SUFFICES ASSUME Init PROVE SettlementInv
  OBVIOUS
<1>1. \A r \in Requests : /\ payments[r].status = "absent"
                          /\ provider[r] = "none"
                          /\ r \notin inbox
                          /\ answer[r] = NoAnswer
  BY DEF Init, NoRow
<1>2. NoAnswer.code = "none"
  BY DEF NoAnswer
<1>3. SettledAgreesWithProvider /\ CalledOnce /\ RefusalsAreFinal
  BY <1>1, <1>2 DEF SettledAgreesWithProvider, CalledOnce, RefusalsAreFinal
<1>4. RefreshesAreTrue
  BY DEF Init, RefreshesAreTrue, IdleRead
<1> QED BY <1>3, <1>4, InitTypes DEF SettlementInv

\* Every step keeps the agreement.
LEMMA NextSettles == SettlementInv /\ [Next]_vars => SettlementInv'
<1> SUFFICES ASSUME SettlementInv, [Next]_vars PROVE SettlementInv'
  OBVIOUS
<1>1. TypeInv'
  BY NextTypes DEF SettlementInv
<1>2. ASSUME NEW r \in Requests, Validate(r) \/ HandlerStep(r) \/ Fail(r) \/ ProviderStep(r)
      PROVE  SettlementInv'
  BY <1>1, <1>2, LocalStepsSettle, RowStepsSettle, SaveFailedSettles, CallSettles,
     ProviderStepsSettle DEF HandlerStep
<1>3. CASE UNCHANGED vars
  BY <1>1, <1>3 DEF vars, database, locals, external, SettlementInv,
                    SettledAgreesWithProvider, CalledOnce, RefusalsAreFinal,
                    RefreshesAreTrue
<1> QED BY <1>1, <1>2, <1>3, ReadsSettle DEF Next

\* A payment the service calls succeeded was paid at the provider, and one it
\* calls canceled cannot be paid there, whatever was lost, late or repeated on
\* the way: only a refusal settles a creation, and a refresh only copies a final
\* status.
THEOREM SettlementCorrect == Spec => []SettledAgreesWithProvider
<1>1. SettlementInv => SettledAgreesWithProvider
  BY DEF SettlementInv
<1> QED BY <1>1, InitSettles, NextSettles, PTL DEF Spec
=============================================================================
