----------------------- MODULE PaymentLifecycleProofs -----------------------
(***************************************************************************)
(* The payment core implements the lifecycle it promises, for every number *)
(* of requests, readers, applications, orders and keys                     *)
(* (ImplementsLifecycle of PaymentService), and it does so on a connection *)
(* pool of any size (PooledPayments).                                      *)
(***************************************************************************)
EXTENDS PaymentOrderProofs, PooledPayments

\* The three columns of the lifecycle, as the committed tables show them.
OrderColumn == [p \in Requests |-> IF Exists(p) THEN OrderOf(p) ELSE Null]
KeyColumn == [p \in Requests |-> IF Exists(p) THEN KeyOf(p) ELSE Null]
StatusColumn == [p \in Requests |-> payments[p].status]

\* The lifecycle moves statuses along the table of this module.
LEMMA LifecycleTable ==
    /\ \A status : Lifecycle!Terminal(status) = Terminal(status)
    /\ \A from, to : Lifecycle!CanTransition(from, to) = CanTransition(from, to)
  BY DEF Lifecycle!Terminal, Terminal, Lifecycle!CanTransition, CanTransition, Lifecycle!AllowedTransitions,
         AllowedTransitions, Lifecycle!Statuses, Statuses

\* A step that changes no status and adds no row is invisible there.
LEMMA SameStatusStutters ==
    ASSUME TypeOK, input' = input,
           \A p \in Requests : payments'[p].status = payments[p].status
    PROVE  UNCHANGED Lifecycle!vars
<1>1. \A p \in Requests : /\ Exists(p)' = Exists(p)
                          /\ OrderOf(p)' = OrderOf(p)
                          /\ KeyOf(p)' = KeyOf(p)
  BY DEF Exists, OrderOf, KeyOf
<1>2. OrderColumn' = OrderColumn /\ KeyColumn' = KeyColumn
  BY <1>1 DEF OrderColumn, KeyColumn
<1>3. StatusColumn' = StatusColumn
  BY DEF StatusColumn
<1> QED BY <1>2, <1>3 DEF Lifecycle!vars, OrderColumn, KeyColumn, StatusColumn

\* A statement that moves one payment along the table of legal changes is a move
\* of the lifecycle.
LEMMA RowMoves ==
    ASSUME CallInv, NEW p \in Requests, NEW row, SetRow(p, row), input' = input,
           CanTransition(payments[p].status, row.status)
    PROVE  \E to \in Statuses : Lifecycle!Move(p, to)
<1>1. /\ row.status \in Statuses /\ row.status # "absent"
      /\ payments[p].status \in Statuses /\ payments[p].status # "absent"
  BY DEF CanTransition, AllowedTransitions, Statuses
<1>2. \A q \in Requests : payments'[q] = IF q = p THEN row ELSE payments[q]
  BY CallVariables DEF SetRow
<1>3. \A q \in Requests : /\ Exists(q)' = Exists(q)
                          /\ OrderOf(q)' = OrderOf(q)
                          /\ KeyOf(q)' = KeyOf(q)
  BY <1>1, <1>2 DEF Exists, OrderOf, KeyOf
<1>4. OrderColumn' = OrderColumn /\ KeyColumn' = KeyColumn
  BY <1>3 DEF OrderColumn, KeyColumn
<1>5. StatusColumn' = [StatusColumn EXCEPT ![p] = row.status]
  BY <1>2 DEF StatusColumn
<1>6. StatusColumn[p] = payments[p].status
  BY DEF StatusColumn
<1>7. Lifecycle!Move(p, row.status)
  BY <1>4, <1>5, <1>6, LifecycleTable
     DEF Lifecycle!Move, OrderColumn, KeyColumn, StatusColumn
<1> QED BY <1>1, <1>7

\* The commit of createLocal is a creation: the key is not spent, and no attempt
\* of the order is unfinished.
LEMMA CommitCreates ==
    ASSUME OrderInv, NEW r \in Requests, Commit(r),
           NEW o, o = OrderOf(r), NEW k, k = KeyOf(r)
    PROVE  Lifecycle!Create(r, o, k)
<1>1. /\ pc[r] = "commit" /\ ~Exists(r) /\ input' = input
      /\ payments' = [payments EXCEPT ![r] = CreatedRow(attempt[r])]
  BY OrderVariables DEF Commit, TypeInv, HandlersHaveRows, BeforeCommit
<1>2. \A q \in Requests : payments'[q] = IF q = r THEN CreatedRow(attempt[r]) ELSE payments[q]
  BY <1>1, CallVariables DEF OrderInv
<1>3. \A q \in Requests : /\ Exists(q)' <=> q = r \/ Exists(q)
                          /\ OrderOf(q)' = OrderOf(q)
                          /\ KeyOf(q)' = KeyOf(q)
  BY <1>1, <1>2 DEF Exists, OrderOf, KeyOf, CreatedRow
<1>4. /\ OrderColumn' = [OrderColumn EXCEPT ![r] = OrderOf(r)]
      /\ KeyColumn' = [KeyColumn EXCEPT ![r] = KeyOf(r)]
  BY <1>3 DEF OrderColumn, KeyColumn
<1>5. StatusColumn' = [StatusColumn EXCEPT ![r] = "created"]
  <2>1. CreatedRow(attempt[r]).status = "created"
    BY DEF CreatedRow
  <2>2. \A q \in Requests :
           payments'[q].status = IF q = r THEN "created" ELSE payments[q].status
    BY <1>2, <2>1
  <2> QED BY <2>2 DEF StatusColumn
<1>6. StatusColumn[r] = "absent"
  BY <1>1 DEF StatusColumn, Exists
<1>7. ASSUME NEW q \in Requests, OrderColumn[q] = OrderOf(r)
      PROVE  StatusColumn[q] # "absent" => Terminal(StatusColumn[q])
  <2>1. CASE Exists(q)
    <3>1. q \in Attempts(OrderOf(r))
      BY <1>7, <2>1 DEF OrderColumn, Attempts
    <3>2. ~Active(q)
      BY <1>1, <3>1 DEF OrderInv, ChecksStillHold
    <3> QED BY <2>1, <3>2 DEF Active, StatusColumn
  <2>2. CASE ~Exists(q)
    BY <2>2 DEF Exists, StatusColumn
  <2> QED BY <2>1, <2>2
<1>8. ASSUME NEW q \in Requests, KeyColumn[q] = KeyOf(r)
      PROVE  FALSE
  <2>1. KeyOf(r) \in Apps \X Keys /\ KeyOf(r) # Null
    BY OrderVariables, NullAssumption
  <2>2. Exists(q) /\ KeyOf(q) = KeyOf(r)
    BY <1>8, <2>1 DEF KeyColumn
  <2>3. idempotency[KeyOf(r)] = q
    BY <2>1, <2>2 DEF OrderInv, KeysNamePayments
  <2>4. idempotency[KeyOf(r)] = Null
    BY <1>1 DEF OrderInv, ChecksStillHold
  <2> QED BY <2>3, <2>4, NullAssumption
<1> QED BY <1>4, <1>5, <1>6, <1>7, <1>8, LifecycleTable
        DEF Lifecycle!Create, Lifecycle!Unfinished, OrderColumn, KeyColumn, StatusColumn

---------------------------------------------------------------------------
\* A step of a create request's handler creates its payment, moves it or is
\* invisible.
LEMMA HandlerImplements ==
    ASSUME OrderInv, NEW r \in Requests,
           Validate(r) \/ HandlerStep(r) \/ Fail(r) \/ ProviderStep(r)
    PROVE  [Lifecycle!Next]_(Lifecycle!vars)
<1> USE DEF database, external, locals
<1>1. CASE Commit(r)
  <2>1. PICK o \in Apps \X Orders, k \in Apps \X Keys : o = OrderOf(r) /\ k = KeyOf(r)
    BY OrderVariables
  <2>2. Lifecycle!Create(r, o, k)
    BY <1>1, <2>1, CommitCreates
  <2> QED BY <2>2 DEF Lifecycle!Next
<1>2. CASE MarkCreating(r) \/ SaveAccepted(r) \/ SaveFailed(r)
  <2>1. CallInv /\ input' = input /\ payments[r] \in PaymentRows /\ CallInvOf(r)
    BY <1>2, CallVariables DEF MarkCreating, SaveAccepted, SaveFailed, OrderInv, CallInv
  <2>2. CASE MarkCreating(r)
    <3>1. payments[r].status = "created"
      BY <2>1, <2>2 DEF MarkCreating, CallInvOf, RowFollowsHandler
    <3>2. PICK row : row = MarkPaymentCreating(payments[r]) /\ SetRow(r, row)
      BY <2>2 DEF MarkCreating
    <3>3. row.status = "creating"
      BY <2>1, <3>1, <3>2 DEF MarkPaymentCreating, PaymentRows
    <3>4. CanTransition(payments[r].status, row.status)
      BY <3>1, <3>3 DEF CanTransition, AllowedTransitions, Statuses
    <3> QED BY <2>1, <3>2, <3>4, RowMoves DEF Lifecycle!Next, Lifecycle!Statuses, Statuses
  <2>3. CASE SaveAccepted(r) \/ SaveFailed(r)
    <3>1. payments[r].status = "creating"
      BY <2>1, <2>3 DEF SaveAccepted, SaveFailed, CallInvOf, RowFollowsHandler
    <3>2. PICK row :
              /\ \/ row = SetPaymentCreated(payments[r], r, answer[r].url)
                 \/ row = SetPaymentCanceled(payments[r])
                 \/ row = SetPaymentCreationUnknown(payments[r])
              /\ SetRow(r, row)
      BY <2>3 DEF SaveAccepted, SaveFailed
    <3>3. row.status \in {"pending", "canceled", "creation_unknown"}
      BY <2>1, <3>1, <3>2
         DEF SetPaymentCreated, SetPaymentCanceled, SetPaymentCreationUnknown,
             PaymentRows, Terminal
    <3>4. CanTransition(payments[r].status, row.status)
      BY <3>1, <3>3 DEF CanTransition, AllowedTransitions, Statuses
    <3> QED BY <2>1, <3>2, <3>4, RowMoves DEF Lifecycle!Next, Lifecycle!Statuses, Statuses
  <2> QED BY <1>2, <2>2, <2>3
<1>3. CASE ~(Commit(r) \/ MarkCreating(r) \/ SaveAccepted(r) \/ SaveFailed(r))
  <2>1. UNCHANGED <<input, payments>>
    BY <1>3
       DEF HandlerStep, ProviderStep, Validate, LookupKey, CheckPaid,
           LockOrderForPayment, RecheckPaid, RecheckKey, ReadNextAttempt, InsertPayment,
           InsertKey, RereadKey, Replay, StartOperation, CallProvider, ProviderTimeout,
           CompleteOperation, ReadBack, Fail, ProviderAccepts, ProviderRefuses,
           ProviderFails, ProviderSettles
  <2> QED BY <2>1, SameStatusStutters DEF OrderInv, CallInv, SettlementInv, TypeInv
<1> QED BY <1>1, <1>2, <1>3

\* A refresh asks for a confirmed payment, so it settles a pending one or is
\* invisible, however old the row is that it has read.
LEMMA RefreshImplements ==
    ASSUME OrderInv, NEW g \in Readers,
           \/ \E app \in Apps, p \in Requests : BeginRefresh(g, app, p)
           \/ RefreshStep(g)
    PROVE  [Lifecycle!Next]_(Lifecycle!vars)
<1> USE DEF database, external, locals
<1>1. CallInv /\ TypeOK
  BY DEF OrderInv, CallInv, SettlementInv, TypeInv
<1>2. CASE ApplyRefresh(g)
  <2>1. PICK p \in Requests :
            /\ p = reads[g].payment /\ Exists(p) /\ payments[p] \in PaymentRows
            /\ reads[g].next \in ProviderStatuses
    BY <1>1, <1>2, CallVariables
       DEF ApplyRefresh, CallInv, SettlementInv, TypeInv, ReadsHaveRows
  <2>2. PICK row : /\ row = ApplyProviderStatus(payments[p], reads[g].next)
                   /\ SetRow(p, row)
    BY <1>2, <2>1 DEF ApplyRefresh
  <2>3. input' = input
    BY <1>2 DEF ApplyRefresh
  <2>4. payments[p].status \in {"pending", "succeeded", "canceled"}
    <3>1. payments[p].provider_payment_id = p /\ p # Null
      BY <1>1, <1>2, <2>1, NullAssumption DEF CallInv, ReadsAreConfirmed, ApplyRefresh
    <3>2. payments[p].status \in Statuses
      BY <2>1 DEF PaymentRows, Exists
    <3> QED BY <1>1, <3>1, <3>2 DEF CallInv, CallInvOf, IdFollowsStatus, Statuses
  <2>5. CASE row.status = payments[p].status
    <3>1. \A q \in Requests : payments'[q].status = payments[q].status
      BY <1>1, <2>2, <2>5, CallVariables DEF SetRow
    <3> QED BY <1>1, <2>3, <3>1, SameStatusStutters
  <2>6. CASE row.status # payments[p].status
    <3>1. CanTransition(payments[p].status, row.status)
      BY <2>1, <2>2, <2>4, <2>6
         DEF ApplyProviderStatus, Terminal, PaymentRows, ProviderStatuses,
             CanTransition, AllowedTransitions, Statuses
    <3> QED BY <1>1, <2>2, <2>3, <3>1, RowMoves
            DEF Lifecycle!Next, Lifecycle!Statuses, Statuses
  <2> QED BY <2>5, <2>6
<1>3. CASE ~ApplyRefresh(g)
  <2>1. UNCHANGED <<input, payments>>
    BY <1>3 DEF RefreshStep, BeginRefresh, FetchStatus, AbandonRefresh
  <2> QED BY <1>1, <2>1, SameStatusStutters
<1> QED BY <1>2, <1>3

\* The payment core implements its lifecycle: whatever requests, readers and the
\* provider do, the committed payments go through legal changes only, an order
\* has one unfinished payment at most and a client key is spent once.
THEOREM LifecycleImplemented == Spec => ImplementsLifecycle
<1>1. Init => Lifecycle!Init
  BY DEF Init, Lifecycle!Init, Exists, NoRow
<1>2. OrderInv /\ [Next]_vars => [Lifecycle!Next]_(Lifecycle!vars)
  <2>1. SUFFICES ASSUME OrderInv, [Next]_vars
                 PROVE  [Lifecycle!Next]_(Lifecycle!vars)
    OBVIOUS
  <2>2. CASE Next
    BY <2>1, <2>2, HandlerImplements, RefreshImplements DEF Next
  <2>3. CASE UNCHANGED vars
    BY <2>1, <2>3, SameStatusStutters
       DEF vars, database, OrderInv, CallInv, SettlementInv, TypeInv
  <2> QED BY <2>1, <2>2, <2>3
<1> QED BY <1>1, <1>2, OrderInvariant, PTL DEF Spec, ImplementsLifecycle, Lifecycle!Spec

---------------------------------------------------------------------------
(* On a connection pool.                                                   *)

\* A connection is only ever one thing more to wait for.
LEMMA PooledStep == [PooledNext]_pooledVars => [Next]_vars
<1> SUFFICES ASSUME [PooledNext]_pooledVars PROVE [Next]_vars
  OBVIOUS
<1>1. ASSUME NEW r \in Requests, PooledHandlerStep(r)
      PROVE  HandlerStep(r) \/ UNCHANGED vars
  BY <1>1 DEF PooledHandlerStep, Begin, TransactionStep, StatementStep, CallStep, HandlerStep
<1>2. ASSUME NEW r \in Requests, PooledFail(r)
      PROVE  Fail(r)
  BY <1>2 DEF PooledFail
<1>3. ASSUME NEW g \in Readers, NEW app \in Apps, NEW p \in Requests,
             PooledBeginRefresh(g, app, p)
      PROVE  BeginRefresh(g, app, p)
  BY <1>3 DEF PooledBeginRefresh
<1>4. ASSUME NEW g \in Readers, PooledRefreshStep(g)
      PROVE  RefreshStep(g)
  BY <1>4 DEF PooledRefreshStep, PooledFetch, PooledApply, RefreshStep
<1>5. CASE UNCHANGED pooledVars
  BY <1>5 DEF pooledVars
<1> QED BY <1>1, <1>2, <1>3, <1>4, <1>5 DEF PooledNext, Next

\* However few connections the pool has, and whoever waits for one, the service
\* does nothing that it does not do with enough of them: all that is proved of
\* the payment core holds of it on its pool too.
THEOREM PoolChangesNothing == PooledSpec => Spec /\ ImplementsLifecycle
<1>1. PooledInit => Init
  BY DEF PooledInit
<1>2. PooledSpec => Spec
  BY <1>1, PooledStep, PTL DEF PooledSpec, Spec
<1> QED BY <1>2, LifecycleImplemented, PTL
=============================================================================
