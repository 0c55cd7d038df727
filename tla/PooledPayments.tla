--------------------------- MODULE PooledPayments ---------------------------
(***************************************************************************)
(* The payments service on a connection pool (database/database.go).       *)
(* createLocal keeps one connection from Begin to the end of its           *)
(* transaction, also while it waits for the order lock or for a row of     *)
(* another transaction; every other statement takes a connection for       *)
(* itself and gives it back at once.                                       *)
(***************************************************************************)
EXTENDS PaymentService

CONSTANT
    PoolSizes     \* numbers of connections the pool may be left with

ASSUME PoolSizesAssumption == PoolSizes \subseteq Nat \ {0}

VARIABLES
    maxConns,     \* connections that payments can have, fixed at start
    connected     \* requests whose transaction holds a connection

pooledVars == <<vars, maxConns, connected>>

FreeConnection == Cardinality(connected) < maxConns

\* Mutant: one statement of the transaction runs on the pool, s.q instead of q.
FromPoolToo(label) == ~InTransaction(label) \/ label = "nextAttempt"

\* Statements that take a connection of their own: the ones before and after
\* createLocal.  Those of createLocal run on its transaction (q.WithTx).
FromPool(label) == ~InTransaction(label)

\* A step of r that runs a statement, with the connection it needs.
OnPool(r) == FromPool(pc[r]) => FreeConnection

---------------------------------------------------------------------------
\* createLocal: pool.Begin waits for a connection.
Begin(r) ==
    /\ pc[r] = "lock"
    /\ r \notin connected
    /\ FreeConnection
    /\ connected' = connected \cup {r}
    /\ UNCHANGED <<vars, maxConns>>

\* createLocal's statements; commit, and the Rollback deferred for every early
\* return, give the connection back.
TransactionStep(r) ==
    /\ r \in connected
    /\ \/ LockOrderForPayment(r)
       \/ OnPool(r) /\ (\/ RecheckPaid(r) \/ RecheckKey(r) \/ ReadNextAttempt(r)
                        \/ InsertPayment(r) \/ InsertKey(r) \/ Commit(r))
    /\ connected' = IF InTransaction(pc'[r]) THEN connected ELSE connected \ {r}
    /\ UNCHANGED maxConns

\* The statements of create, replay and callProvider.
StatementStep(r) ==
    /\ OnPool(r)
    /\ \/ LookupKey(r) \/ CheckPaid(r) \/ RereadKey(r) \/ Replay(r)
       \/ MarkCreating(r) \/ StartOperation(r) \/ SaveAccepted(r) \/ SaveFailed(r)
       \/ CompleteOperation(r) \/ ReadBack(r)
    /\ UNCHANGED <<maxConns, connected>>

\* The call to the provider holds no connection.
CallStep(r) ==
    /\ CallProvider(r) \/ ProviderTimeout(r)
    /\ UNCHANGED <<maxConns, connected>>

PooledHandlerStep(r) ==
    Begin(r) \/ TransactionStep(r) \/ StatementStep(r) \/ CallStep(r)

\* A handler that fails gives up its transaction, if it has one.
PooledFail(r) ==
    /\ Fail(r)
    /\ connected' = connected \ {r}
    /\ UNCHANGED maxConns

\* A status read takes a connection for each of its statements.
PooledBeginRefresh(g, app, p) ==
    /\ FreeConnection
    /\ BeginRefresh(g, app, p)
    /\ UNCHANGED <<maxConns, connected>>

PooledFetch(g) ==
    /\ FreeConnection
    /\ FetchStatus(g)
    /\ UNCHANGED <<maxConns, connected>>

PooledApply(g) ==
    /\ FreeConnection
    /\ ApplyRefresh(g)
    /\ UNCHANGED <<maxConns, connected>>

PooledRefreshStep(g) ==
    \/ PooledFetch(g) \/ PooledApply(g)
    \/ AbandonRefresh(g) /\ UNCHANGED <<maxConns, connected>>

---------------------------------------------------------------------------
PooledInit ==
    /\ Init
    /\ maxConns \in PoolSizes
    /\ connected = {}

PooledNext ==
    \/ \E r \in Requests :
          \/ PooledHandlerStep(r) \/ PooledFail(r)
          \/ (Validate(r) \/ ProviderStep(r)) /\ UNCHANGED <<maxConns, connected>>
    \/ \E g \in Readers :
          \/ \E app \in Apps, p \in Requests : PooledBeginRefresh(g, app, p)
          \/ PooledRefreshStep(g)

\* As in PaymentService: a running handler keeps running, and is not passed over
\* for ever by the pool or by a lock, which serve their waiters in order.
PooledSpec ==
    /\ PooledInit
    /\ [][PooledNext]_pooledVars
    /\ \A r \in Requests : WF_pooledVars(PooledHandlerStep(r))
    /\ \A g \in Readers :
          /\ WF_pooledVars(PooledRefreshStep(g))
          /\ \A p \in Requests :
                /\ \A app \in Apps : SF_pooledVars(PooledBeginRefresh(g, app, p))
                /\ SF_pooledVars(reads[g].payment = p /\ PooledFetch(g))
                /\ SF_pooledVars(reads[g].payment = p /\ PooledApply(g))
=============================================================================
