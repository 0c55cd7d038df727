------------------------ MODULE PaymentServiceProofs ------------------------
(***************************************************************************)
(* Theorems about PaymentService, for every number of requests, readers,   *)
(* applications, orders, keys and bodies.                                  *)
(***************************************************************************)
EXTENDS PaymentService, TLAPS

AfterCommit ==
    {"markCreating", "startOperation", "callProvider", "awaitProvider",
     "completeOperation", "readBack"}

BeforeCommit ==
    {"received", "lookup", "paidCheck", "lock", "paidRecheck", "keyRecheck",
     "nextAttempt", "insertPayment", "insertKey", "commit"}

\* A handler has a row past its commit and none before, and one that inserts has
\* an attempt number.
HandlersHaveRows ==
    \A r \in Requests :
        /\ pc[r] \in BeforeCommit => ~Exists(r)
        /\ pc[r] \in AfterCommit => Exists(r)
        /\ pc[r] \in {"insertPayment", "insertKey", "commit"} => attempt[r] > 0

\* A refresh is about a payment that exists, and applies a provider status.
ReadsHaveRows ==
    \A g \in Readers :
        /\ reads[g].at # "idle" => reads[g].payment \in Requests /\ Exists(reads[g].payment)
        /\ reads[g].at = "apply" => reads[g].next \in ProviderStatuses

\* MAX (attempt_number) is defined: the attempts of an order have a latest one.
LatestAttempt(o, q) ==
    q \in Attempts(o) /\ \A s \in Attempts(o) : payments[s].attempt <= payments[q].attempt

OrdersHaveLatest ==
    \A p \in Requests : Exists(p) => \E q \in Requests : LatestAttempt(OrderOf(p), q)

TypeInv == TypeOK /\ HandlersHaveRows /\ ReadsHaveRows /\ OrdersHaveLatest

---------------------------------------------------------------------------
\* The columns of a row, one by one.
LEMMA RowColumns ==
    ASSUME TypeOK, NEW p \in Requests
    PROVE  /\ payments[p].status \in Statuses \cup {"absent"}
           /\ payments[p].attempt \in Nat
           /\ payments[p].provider_payment_id \in Requests \cup {Null}
           /\ payments[p].checkout_url \in ConfirmationUrls \cup {"null"}
<1>1. payments[p] \in PaymentRows
  BY DEF TypeOK
<1> QED BY <1>1 DEF PaymentRows

\* NextAttemptNumber is a positive number: an order has no attempt yet, or a
\* latest one that MAX finds.
LEMMA NextAttemptPositive ==
    ASSUME TypeInv, NEW r \in Requests
    PROVE  NextAttemptNumber(OrderOf(r)) \in Nat \ {0}
<1> DEFINE o == OrderOf(r)
           S == {payments[p].attempt : p \in Attempts(o)} \cup {0}
<1>1. S \subseteq Nat
  <2>1. \A p \in Attempts(o) : payments[p].attempt \in Nat
    BY RowColumns DEF TypeInv, Attempts
  <2> QED BY <2>1
<1>2. \E m \in S : \A n \in S : m >= n
  <2>1. CASE Attempts(o) = {}
    BY <2>1
  <2>2. CASE Attempts(o) # {}
    <3>1. PICK p \in Attempts(o) : TRUE
      BY <2>2
    <3>2. p \in Requests /\ Exists(p) /\ OrderOf(p) = o
      BY <3>1 DEF Attempts
    <3>3. PICK q \in Requests : LatestAttempt(o, q)
      BY <3>2 DEF TypeInv, OrdersHaveLatest
    <3>4. payments[q].attempt \in S
      BY <3>3 DEF LatestAttempt
    <3>5. ASSUME NEW n \in S PROVE payments[q].attempt >= n
      <4>1. CASE n = 0
        BY <4>1, <3>4, <1>1
      <4>2. CASE n # 0
        <5>1. PICK s \in Attempts(o) : n = payments[s].attempt
          BY <4>2
        <5>2. payments[s].attempt <= payments[q].attempt
          BY <5>1, <3>3 DEF LatestAttempt
        <5> QED BY <5>1, <5>2, <3>4, <1>1
      <4> QED BY <4>1, <4>2
    <3> QED BY <3>4, <3>5
  <2> QED BY <2>1, <2>2
<1>3. Max(S) \in S /\ \A n \in S : Max(S) >= n
  BY <1>2 DEF Max
<1>4. Max(S) \in Nat
  BY <1>1, <1>3
<1>5. NextAttemptNumber(o) = Max(S) + 1
  BY DEF NextAttemptNumber
<1> QED BY <1>4, <1>5

---------------------------------------------------------------------------
(* What a step does to the rows.                                           *)

\* No payment appears or disappears, and attempt numbers stay.
RowsKept ==
    /\ input' = input
    /\ \A p \in Requests : /\ Exists(p)' <=> Exists(p)
                           /\ payments'[p].attempt = payments[p].attempt

RowsTyped ==
    /\ payments' \in [Requests -> PaymentRows]
    /\ \A p \in Requests : Exists(p)' => payments'[p].attempt > 0
    /\ RowsKept

\* The statements keep a row's type and attempt number, and never delete it.
LEMMA RowUpdates ==
    ASSUME NEW row \in PaymentRows, row.status # "absent"
    PROVE  LET Kept(new) == /\ new \in PaymentRows
                            /\ new.attempt = row.attempt
                            /\ new.status # "absent"
           IN /\ Kept(MarkPaymentCreating(row))
              /\ \A id \in Requests, url \in ConfirmationUrls :
                    Kept(SetPaymentCreated(row, id, url))
              /\ Kept(SetPaymentCreationUnknown(row))
              /\ Kept(SetPaymentCanceled(row))
              /\ \A s \in ProviderStatuses : Kept(ApplyProviderStatus(row, s))
  BY DEF PaymentRows, MarkPaymentCreating, SetPaymentCreated,
         SetPaymentCreationUnknown, SetPaymentCanceled, ApplyProviderStatus,
         Statuses, ProviderStatuses, Terminal

\* A step that updates one row by such a statement keeps the rows.
LEMMA SetRowKeepsRows ==
    ASSUME TypeOK, NEW r \in Requests, Exists(r), NEW row \in PaymentRows,
           row.attempt = payments[r].attempt, row.status # "absent",
           SetRow(r, row), input' = input
    PROVE  RowsTyped
<1>1. payments \in [Requests -> PaymentRows]
  BY DEF TypeOK
<1>2. payments' = [payments EXCEPT ![r] = row]
  BY DEF SetRow
<1>3. \A p \in Requests : payments'[p] = IF p = r THEN row ELSE payments[p]
  BY <1>1, <1>2
<1>4. RowsKept
  BY <1>3 DEF RowsKept, Exists
<1>5. \A p \in Requests : Exists(p)' => payments'[p].attempt > 0
  BY <1>4 DEF RowsKept, TypeOK
<1>6. payments' \in [Requests -> PaymentRows]
  BY <1>1, <1>2
<1> QED BY <1>4, <1>5, <1>6 DEF RowsTyped

\* A step that leaves the table payments alone keeps the rows.
LEMMA NoRowChange ==
    ASSUME TypeOK, input' = input, payments' = payments
    PROVE  RowsTyped
  BY DEF TypeOK, RowsTyped, RowsKept, Exists

\* Orders keep their latest attempt as long as the rows are kept.
LEMMA RowsKeptKeepLatest ==
    ASSUME OrdersHaveLatest, RowsKept
    PROVE  OrdersHaveLatest'
<1>1. \A p \in Requests : OrderOf(p)' = OrderOf(p)
  BY DEF RowsKept, OrderOf
<1>2. SUFFICES ASSUME NEW p \in Requests, Exists(p)'
               PROVE  \E q \in Requests : LatestAttempt(OrderOf(p), q)'
  BY DEF OrdersHaveLatest
<1>3. PICK q \in Requests : LatestAttempt(OrderOf(p), q)
  BY <1>2 DEF OrdersHaveLatest, RowsKept
<1>4. Attempts(OrderOf(p))' = Attempts(OrderOf(p))
  BY <1>1 DEF Attempts, RowsKept
<1>5. LatestAttempt(OrderOf(p), q)'
  BY <1>1, <1>3, <1>4 DEF LatestAttempt, Attempts, RowsKept
<1> QED BY <1>5

\* The rows of running handlers and reads are still there.
LEMMA RowsKeptKeepReads ==
    ASSUME ReadsHaveRows, RowsKept, reads' = reads
    PROVE  ReadsHaveRows'
  BY DEF ReadsHaveRows, RowsKept

\* An answer that a handler holds, or that it gives up, is well typed.
LEMMA AnswerTypes ==
    /\ NoAnswer \in Answers
    /\ \A url \in ConfirmationUrls : [code |-> "ok", url |-> url] \in Answers
    /\ \A c \in ErrorCodes : [code |-> c, url |-> "null"] \in Answers
    /\ \A a \in Answers : a.code = "ok" => a.url \in ConfirmationUrls
  BY DEF Answers, NoAnswer, ErrorCodes

\* A released lock table is a lock table.
LEMMA UnlockedType ==
    ASSUME TypeOK, NEW r \in Requests
    PROVE  Unlocked(r) \in [Apps \X Orders -> Requests \cup {Null}]
  BY DEF TypeOK, Unlocked

---------------------------------------------------------------------------
(* Type correctness, action by action.                                     *)

\* The handler of r moved, or stayed, to a place where TypeInv lets it be.
Moved(r) ==
    /\ pc' \in [Requests -> CreateLabels]
    /\ attempt' \in [Requests -> Nat]
    /\ answer' \in [Requests -> Answers]
    /\ result' \in [Requests -> [outcome : Outcomes, payment : Requests \cup {Null}]]
    /\ \A q \in Requests \ {r} : pc'[q] = pc[q] /\ attempt'[q] = attempt[q]
    /\ pc'[r] \in BeforeCommit => ~Exists(r)'
    /\ pc'[r] \in AfterCommit => Exists(r)'
    /\ pc'[r] \in {"insertPayment", "insertKey", "commit"} => attempt'[r] > 0

\* The tables and the provider hold values of their types after the step.
RestTyped ==
    /\ operations' \in [Requests -> OperationStatuses \cup {"absent"}]
    /\ idempotency' \in [Apps \X Keys -> Requests \cup {Null}]
    /\ orderLock' \in [Apps \X Orders -> Requests \cup {Null}]
    /\ provider' \in [Requests -> ProviderStatuses \cup {"none"}]
    /\ inbox' \subseteq Requests

\* The last step of a handler is well typed whatever it answers.
LEMMA RespondMoves ==
    ASSUME TypeOK, NEW r \in Requests, NEW outcome \in Outcomes,
           NEW p \in Requests \cup {Null}, Respond(r, outcome, p)
    PROVE  Moved(r)
<1>1. [outcome |-> outcome, payment |-> p]
          \in [outcome : Outcomes, payment : Requests \cup {Null}]
  OBVIOUS
<1>2. pc'[r] = "done"
  BY DEF TypeOK, Respond, Goto
<1>3. pc' \in [Requests -> CreateLabels]
  BY DEF TypeOK, Respond, Goto, CreateLabels
<1> QED BY <1>1, <1>2, <1>3, AnswerTypes DEF Moved, TypeOK, Respond, Goto, BeforeCommit, AfterCommit

\* So is one that goes on to a statement whose row exists where it must.
LEMMA GotoMoves ==
    ASSUME TypeOK, NEW r \in Requests, NEW label \in CreateLabels,
           Goto(r, label), UNCHANGED <<locals, result>>,
           label \in BeforeCommit => ~Exists(r)',
           label \in AfterCommit => Exists(r)',
           label \in {"insertPayment", "insertKey", "commit"} => attempt[r] > 0
    PROVE  Moved(r)
  BY DEF Moved, TypeOK, Goto, locals

\* So is a step of the provider, or of the call, which moves no handler.
LEMMA StayMoves ==
    ASSUME TypeInv, NEW r \in Requests, UNCHANGED <<pc, attempt, result>>, RowsKept,
           answer' \in [Requests -> Answers]
    PROVE  Moved(r)
  BY DEF Moved, TypeInv, TypeOK, HandlersHaveRows, RowsKept

\* A step that leaves the other tables and the provider alone keeps their types.
LEMMA RestUnchanged ==
    ASSUME TypeOK, UNCHANGED <<operations, idempotency, orderLock, external>>
    PROVE  RestTyped
  BY DEF TypeOK, RestTyped, external

\* What is left to show for each action of one request.
LEMMA StepTypes ==
    ASSUME TypeInv, NEW r \in Requests, input' = input, reads' = reads, RowsTyped,
           Moved(r), RestTyped
    PROVE  TypeInv'
<1>1. TypeOK'
  BY DEF TypeInv, TypeOK, RowsTyped, Moved, RestTyped
<1>2. HandlersHaveRows'
  BY DEF TypeInv, HandlersHaveRows, Moved, RowsTyped, RowsKept
<1>3. OrdersHaveLatest' /\ ReadsHaveRows'
  BY RowsKeptKeepLatest, RowsKeptKeepReads DEF TypeInv, RowsTyped
<1> QED BY <1>1, <1>2, <1>3 DEF TypeInv

\* The steps up to the commit: no row changes, and every way out answers.
LEMMA LocalStepTypes ==
    ASSUME TypeInv, NEW r \in Requests, input' = input, payments' = payments,
           reads' = reads, Moved(r), RestTyped
    PROVE  TypeInv'
  BY NoRowChange, StepTypes DEF TypeInv

\* The statements before the transaction.
LEMMA LookupTypes ==
    ASSUME TypeInv, NEW r \in Requests,
           Validate(r) \/ LookupKey(r) \/ CheckPaid(r) \/ RereadKey(r)
    PROVE  TypeInv'
<1> USE DEF database, external
<1>1. /\ input' = input /\ payments' = payments /\ reads' = reads
      /\ RestTyped
  BY RestUnchanged DEF TypeInv, Validate, LookupKey, CheckPaid, RereadKey
<1>2. {"lookup", "replay", "paidCheck", "lock"} \subseteq CreateLabels \ AfterCommit
  BY DEF CreateLabels, AfterCommit
<1>3. \/ \E label \in {"lookup", "replay", "paidCheck", "lock"} :
            Goto(r, label) /\ UNCHANGED <<locals, result>>
      \/ \E outcome \in Outcomes : Respond(r, outcome, Null)
  BY DEF Validate, LookupKey, CheckPaid, RereadKey, ReplayKey, Outcomes
<1>4. CASE \E outcome \in Outcomes : Respond(r, outcome, Null)
  <2>1. Moved(r)
    BY <1>4, RespondMoves DEF TypeInv
  <2> QED BY <1>1, <2>1, LocalStepTypes
<1>5. CASE \E label \in {"lookup", "replay", "paidCheck", "lock"} :
              Goto(r, label) /\ UNCHANGED <<locals, result>>
  <2>1. PICK label \in {"lookup", "replay", "paidCheck", "lock"} :
            Goto(r, label) /\ UNCHANGED <<locals, result>>
    BY <1>5
  <2>2. label \in BeforeCommit => pc[r] \in BeforeCommit
    BY <2>1 DEF Validate, LookupKey, CheckPaid, RereadKey, ReplayKey, Respond, Goto,
                TypeInv, TypeOK, BeforeCommit
  <2>3. label \in BeforeCommit => ~Exists(r)'
    BY <1>1, <2>2 DEF TypeInv, HandlersHaveRows, Exists
  <2>4. Moved(r)
    BY <1>2, <2>1, <2>3, GotoMoves DEF TypeInv
  <2> QED BY <1>1, <2>4, LocalStepTypes
<1> QED BY <1>3, <1>4, <1>5

\* The statements of the transaction before its commit.
LEMMA TransactionTypes ==
    ASSUME TypeInv, NEW r \in Requests,
           \/ LockOrderForPayment(r) \/ RecheckPaid(r) \/ RecheckKey(r)
           \/ ReadNextAttempt(r) \/ InsertPayment(r) \/ InsertKey(r)
    PROVE  TypeInv'
<1> USE DEF database, external
<1>1. input' = input /\ payments' = payments /\ reads' = reads
  BY DEF LockOrderForPayment, RecheckPaid, RecheckKey, ReadNextAttempt,
         InsertPayment, InsertKey
<1>2. /\ OrderOf(r) \in Apps \X Orders
      /\ ~Exists(r)'
  <2>1. pc[r] \in BeforeCommit
    BY DEF LockOrderForPayment, RecheckPaid, RecheckKey, ReadNextAttempt,
           InsertPayment, InsertKey, BeforeCommit
  <2>2. OrderOf(r) \in Apps \X Orders
    BY DEF TypeInv, TypeOK, OrderOf, Inputs
  <2> QED BY <1>1, <2>1, <2>2 DEF TypeInv, HandlersHaveRows, Exists
<1>3. orderLock' \in [Apps \X Orders -> Requests \cup {Null}]
  <2>1. \/ orderLock' = orderLock
        \/ orderLock' = Unlocked(r)
        \/ orderLock' = [orderLock EXCEPT ![OrderOf(r)] = r]
    BY DEF LockOrderForPayment, RecheckPaid, RecheckKey, ReadNextAttempt,
           InsertPayment, InsertKey
  <2>2. orderLock \in [Apps \X Orders -> Requests \cup {Null}]
    BY DEF TypeInv, TypeOK
  <2>3. Unlocked(r) \in [Apps \X Orders -> Requests \cup {Null}]
    BY UnlockedType DEF TypeInv
  <2> QED BY <1>2, <2>1, <2>2, <2>3
<1>4. RestTyped
  BY <1>3 DEF TypeInv, TypeOK, RestTyped, LockOrderForPayment, RecheckPaid,
              RecheckKey, ReadNextAttempt, InsertPayment, InsertKey
<1>5. CASE LockOrderForPayment(r)
  <2>1. Moved(r)
    BY <1>5, <1>2, GotoMoves DEF LockOrderForPayment, TypeInv, CreateLabels, AfterCommit
  <2> QED BY <1>1, <1>4, <2>1, LocalStepTypes
<1>6. CASE RecheckPaid(r)
  <2>1. Moved(r)
    BY <1>6, <1>2, GotoMoves, RespondMoves
       DEF RecheckPaid, TypeInv, CreateLabels, AfterCommit, Outcomes
  <2> QED BY <1>1, <1>4, <2>1, LocalStepTypes
<1>7. CASE RecheckKey(r)
  <2>1. Moved(r)
    BY <1>7, <1>2, GotoMoves DEF RecheckKey, TypeInv, CreateLabels, AfterCommit
  <2> QED BY <1>1, <1>4, <2>1, LocalStepTypes
<1>8. CASE ReadNextAttempt(r)
  <2>1. attempt' = [attempt EXCEPT ![r] = NextAttemptNumber(OrderOf(r))]
    BY <1>8 DEF ReadNextAttempt
  <2>2. PICK n \in Nat \ {0} : attempt' = [attempt EXCEPT ![r] = n]
    BY <2>1, NextAttemptPositive
  <2>3. attempt \in [Requests -> Nat]
    BY DEF TypeInv, TypeOK
  <2>4. attempt' \in [Requests -> Nat] /\ attempt'[r] > 0
    BY <2>2, <2>3
  <2>5. \A q \in Requests \ {r} : attempt'[q] = attempt[q]
    BY <2>2, <2>3
  <2>6. Moved(r)
    BY <1>8, <1>2, <2>4, <2>5
       DEF Moved, ReadNextAttempt, TypeInv, TypeOK, Goto, CreateLabels, AfterCommit
  <2> QED BY <1>1, <1>4, <2>6, LocalStepTypes
<1>9. CASE InsertPayment(r)
  <2>1. attempt[r] > 0
    BY <1>9 DEF InsertPayment, TypeInv, HandlersHaveRows
  <2>2. Moved(r)
    BY <1>9, <1>2, <2>1, GotoMoves, RespondMoves
       DEF InsertPayment, TypeInv, CreateLabels, AfterCommit, Outcomes
  <2> QED BY <1>1, <1>4, <2>2, LocalStepTypes
<1>10. CASE InsertKey(r)
  <2>1. attempt[r] > 0
    BY <1>10 DEF InsertKey, TypeInv, HandlersHaveRows
  <2>2. attempt' \in [Requests -> Nat] /\ (pc'[r] = "commit" => attempt'[r] > 0)
    BY <1>10, <2>1 DEF InsertKey, TypeInv, TypeOK, Goto
  <2>3. PICK label \in {"raced", "commit"} : pc' = [pc EXCEPT ![r] = label]
    BY <1>10 DEF InsertKey, Goto
  <2>4. PICK n \in Nat : attempt' = [attempt EXCEPT ![r] = n]
    <3>1. attempt[r] \in Nat
      BY DEF TypeInv, TypeOK
    <3>2. attempt' = [attempt EXCEPT ![r] = IF KeyTaken(r) THEN 0 ELSE attempt[r]]
      BY <1>10 DEF InsertKey
    <3> QED BY <3>1, <3>2
  <2>5. /\ pc' \in [Requests -> CreateLabels]
        /\ pc'[r] \in {"raced", "commit"}
        /\ \A q \in Requests \ {r} : pc'[q] = pc[q] /\ attempt'[q] = attempt[q]
    BY <2>3, <2>4 DEF TypeInv, TypeOK, CreateLabels
  <2>6. answer' = answer /\ result' = result
    BY <1>10 DEF InsertKey
  <2>7. pc'[r] \notin AfterCommit
    BY <2>5 DEF AfterCommit
  <2>8. pc'[r] \in BeforeCommit => ~Exists(r)'
    BY <1>2, <1>10
  <2>9. Moved(r)
    BY <2>2, <2>5, <2>6, <2>7, <2>8 DEF Moved, TypeInv, TypeOK
  <2> QED BY <1>1, <1>4, <2>9, LocalStepTypes
<1> QED BY <1>5, <1>6, <1>7, <1>8, <1>9, <1>10

\* The commit adds a row; the order's latest attempt is the old one or r.
LEMMA CommitTypes ==
    ASSUME TypeInv, NEW r \in Requests, Commit(r)
    PROVE  TypeInv'
<1> USE DEF database, external
<1>1. /\ attempt[r] \in Nat /\ attempt[r] > 0
      /\ KeyOf(r) \in Apps \X Keys
      /\ ~Exists(r)
  BY DEF Commit, TypeInv, TypeOK, HandlersHaveRows, BeforeCommit, KeyOf, Inputs
<1>2. CreatedRow(attempt[r]) \in PaymentRows
  BY <1>1 DEF CreatedRow, PaymentRows, Statuses
<1>3. \A p \in Requests :
         payments'[p] = IF p = r THEN CreatedRow(attempt[r]) ELSE payments[p]
  BY DEF Commit, TypeInv, TypeOK
<1>4. \A p \in Requests :
         /\ payments'[p].attempt = IF p = r THEN attempt[r] ELSE payments[p].attempt
         /\ Exists(p)' <=> (p = r \/ Exists(p))
  BY <1>3 DEF CreatedRow, Exists
<1>5. TypeOK'
  <2>1. payments' \in [Requests -> PaymentRows]
    BY <1>2 DEF Commit, TypeInv, TypeOK
  <2>2. \A p \in Requests : Exists(p)' => payments'[p].attempt > 0
    BY <1>1, <1>4 DEF TypeInv, TypeOK
  <2>3. /\ operations' \in [Requests -> OperationStatuses \cup {"absent"}]
        /\ pc' \in [Requests -> CreateLabels]
    BY DEF Commit, Goto, TypeInv, TypeOK, OperationStatuses, CreateLabels
  <2>4. idempotency' \in [Apps \X Keys -> Requests \cup {Null}]
    BY <1>1 DEF Commit, TypeInv, TypeOK
  <2>5. orderLock' \in [Apps \X Orders -> Requests \cup {Null}]
    BY UnlockedType DEF Commit, TypeInv
  <2>6. UNCHANGED <<input, attempt, answer, result, provider, inbox, reads>>
    BY DEF Commit, locals
  <2> QED BY <2>1, <2>2, <2>3, <2>4, <2>5, <2>6 DEF TypeInv, TypeOK
<1>6. HandlersHaveRows'
  BY <1>4 DEF Commit, Goto, locals, TypeInv, TypeOK, HandlersHaveRows, BeforeCommit
<1>7. ReadsHaveRows'
  BY <1>4 DEF Commit, TypeInv, ReadsHaveRows
<1>8. OrdersHaveLatest'
  <2>1. SUFFICES ASSUME NEW p \in Requests, Exists(p)'
                 PROVE  \E q \in Requests : LatestAttempt(OrderOf(p), q)'
    BY DEF OrdersHaveLatest
  <2> DEFINE o == OrderOf(p)
  <2>2. OrderOf(p)' = o
    BY DEF Commit, OrderOf
  <2>3. Attempts(o)' = Attempts(o) \cup (IF OrderOf(r) = o THEN {r} ELSE {})
    BY <1>4 DEF Attempts, OrderOf, Commit
  <2>4. \A s \in Attempts(o) : s \in Requests /\ payments[s].attempt \in Nat
    BY RowColumns DEF Attempts, TypeInv
  <2>5. CASE Attempts(o) = {}
    <3>1. Attempts(o)' = {r}
      BY <2>1, <2>2, <2>3, <2>5 DEF Attempts
    <3>2. LatestAttempt(o, r)'
      BY <1>1, <1>4, <2>2, <3>1 DEF LatestAttempt
    <3> QED BY <3>2, <2>2
  <2>6. CASE Attempts(o) # {}
    <3>1. PICK q \in Requests : LatestAttempt(o, q)
      BY <2>6 DEF Attempts, OrdersHaveLatest, TypeInv
    <3>2. CASE r \in Attempts(o)' /\ attempt[r] > payments[q].attempt
      <4>1. \A s \in Attempts(o)' : payments'[s].attempt <= attempt[r]
        BY <1>1, <1>4, <2>3, <2>4, <3>1, <3>2 DEF LatestAttempt
      <4> QED BY <1>4, <2>2, <3>2, <4>1 DEF LatestAttempt
    <3>3. CASE ~(r \in Attempts(o)' /\ attempt[r] > payments[q].attempt)
      <4>1. q # r
        BY <1>1, <3>1 DEF LatestAttempt, Attempts
      <4>2. \A s \in Attempts(o)' : payments'[s].attempt <= payments'[q].attempt
        BY <1>1, <1>4, <2>3, <2>4, <3>1, <3>3, <4>1 DEF LatestAttempt
      <4> QED BY <2>2, <2>3, <3>1, <4>2 DEF LatestAttempt
    <3> QED BY <3>2, <3>3
  <2> QED BY <2>5, <2>6
<1> QED BY <1>5, <1>6, <1>7, <1>8 DEF TypeInv

\* The call to the provider: each statement around it updates the row of r.
LEMMA CallTypes ==
    ASSUME TypeInv, NEW r \in Requests,
           \/ MarkCreating(r) \/ SaveAccepted(r) \/ SaveFailed(r)
    PROVE  TypeInv'
<1> USE DEF database, external
<1>1. /\ input' = input /\ reads' = reads
      /\ RestTyped
  BY RestUnchanged DEF MarkCreating, SaveAccepted, SaveFailed, TypeInv
<1>2. Exists(r) /\ payments[r] \in PaymentRows /\ payments[r].status # "absent"
  BY DEF MarkCreating, SaveAccepted, SaveFailed, TypeInv, TypeOK, HandlersHaveRows,
         AfterCommit, Exists
<1>3. answer[r].code = "ok" => answer[r].url \in ConfirmationUrls
  BY AnswerTypes DEF TypeInv, TypeOK
<1>4. PICK row \in PaymentRows :
          /\ row.attempt = payments[r].attempt
          /\ row.status # "absent"
          /\ SetRow(r, row)
  BY <1>2, <1>3, RowUpdates DEF MarkCreating, SaveAccepted, SaveFailed
<1>5. RowsTyped
  BY <1>1, <1>2, <1>4, SetRowKeepsRows DEF TypeInv
<1>6. \E label \in {"startOperation", "completeOperation"} :
         Goto(r, label) /\ UNCHANGED <<locals, result>>
  BY DEF MarkCreating, SaveAccepted, SaveFailed
<1>7. Exists(r)'
  BY <1>2, <1>5 DEF RowsTyped, RowsKept
<1>8. {"startOperation", "completeOperation"} \subseteq CreateLabels \ BeforeCommit
  BY DEF CreateLabels, BeforeCommit
<1>9. Moved(r)
  BY <1>6, <1>7, <1>8, GotoMoves DEF TypeInv
<1> QED BY <1>1, <1>5, <1>9, StepTypes

\* The statements around the call that write to the operation.
LEMMA OperationTypes ==
    ASSUME TypeInv, NEW r \in Requests,
           \/ StartOperation(r) \/ CallProvider(r) \/ CompleteOperation(r)
    PROVE  TypeInv'
<1> USE DEF database, external
<1>1. input' = input /\ reads' = reads /\ payments' = payments
  BY DEF StartOperation, CallProvider, CompleteOperation
<1>2. RestTyped
  <2>1. operations \in [Requests -> OperationStatuses \cup {"absent"}]
    BY DEF TypeInv, TypeOK
  <2>2. operations' \in [Requests -> OperationStatuses \cup {"absent"}]
    BY <2>1 DEF StartOperation, CallProvider, CompleteOperation, CompletedStatus,
                StartPaymentOperation, OperationStatuses
  <2> QED BY <2>2 DEF StartOperation, CallProvider, CompleteOperation, TypeInv,
                      TypeOK, RestTyped
<1>3. Exists(r)'
  BY <1>1 DEF StartOperation, CallProvider, CompleteOperation, TypeInv,
              HandlersHaveRows, AfterCommit, Exists
<1>4. \/ \E label \in {"callProvider", "awaitProvider", "readBack"} :
            Goto(r, label) /\ UNCHANGED <<locals, result>>
      \/ Respond(r, "providerError", Null)
  BY DEF StartOperation, CallProvider, CompleteOperation
<1>5. /\ {"callProvider", "awaitProvider", "readBack"} \subseteq CreateLabels \ BeforeCommit
      /\ "providerError" \in Outcomes
  BY DEF CreateLabels, BeforeCommit, Outcomes
<1>6. {"callProvider", "awaitProvider", "readBack"}
          \cap {"insertPayment", "insertKey", "commit"} = {}
  OBVIOUS
<1>7. Moved(r)
  BY <1>3, <1>4, <1>5, <1>6, GotoMoves, RespondMoves DEF TypeInv
<1> QED BY <1>1, <1>2, <1>7, LocalStepTypes

\* Every answer to the client, with or without a payment.
LEMMA RespondTypes ==
    ASSUME TypeInv, NEW r \in Requests, ReadBack(r) \/ Replay(r) \/ Fail(r)
    PROVE  TypeInv'
<1> USE DEF database, external
<1>1. input' = input /\ reads' = reads /\ payments' = payments
  BY DEF ReadBack, Replay, Fail
<1>2. RestTyped
  BY UnlockedType DEF ReadBack, Replay, Fail, TypeInv, TypeOK, RestTyped
<1>3. idempotency[KeyOf(r)] \in Requests \cup {Null}
  BY DEF TypeInv, TypeOK, KeyOf, Inputs
<1>4. \E outcome \in Outcomes, p \in Requests \cup {Null} : Respond(r, outcome, p)
  BY <1>3 DEF ReadBack, Replay, Fail, Outcomes, ReplayOutcome
<1>5. Moved(r)
  BY <1>4, RespondMoves DEF TypeInv
<1> QED BY <1>1, <1>2, <1>5, LocalStepTypes

\* The provider, and the end of the wait for it.
LEMMA ProviderTypes ==
    ASSUME TypeInv, NEW r \in Requests, ProviderTimeout(r) \/ ProviderStep(r)
    PROVE  TypeInv'
<1> USE DEF database, external
<1> USE DEF ProviderStep, ProviderTimeout, ProviderAccepts, ProviderRefuses,
            ProviderFails, ProviderSettles, locals
<1>1. UNCHANGED <<input, payments, reads, pc, attempt, result>>
  OBVIOUS
<1>2. RestTyped
  <2>1. inbox' \subseteq Requests
    BY DEF TypeInv, TypeOK
  <2>2. provider' \in [Requests -> ProviderStatuses \cup {"none"}]
    BY DEF TypeInv, TypeOK, ProviderStatuses
  <2> QED BY <2>1, <2>2 DEF TypeInv, TypeOK, RestTyped
<1>3. answer' \in [Requests -> Answers]
  <2>1. \/ answer' = answer
        \/ \E a \in Answers : answer' = [answer EXCEPT ![r] = a]
    BY AnswerTypes DEF Delivered, ErrorCodes
  <2> QED BY <2>1 DEF TypeInv, TypeOK
<1>4. Moved(r)
  BY <1>1, <1>3, NoRowChange, StayMoves DEF RowsTyped, TypeInv
<1> QED BY <1>1, <1>2, <1>4, LocalStepTypes

---------------------------------------------------------------------------
\* Status reads: the handlers of create requests stay where they are.
LEMMA ReadTypes ==
    ASSUME TypeInv, NEW g \in Readers,
           \/ \E app \in Apps, p \in Requests : BeginRefresh(g, app, p)
           \/ RefreshStep(g)
    PROVE  TypeInv'
<1> USE DEF database, external, locals
<1>1. UNCHANGED <<input, operations, idempotency, orderLock, pc, attempt, answer,
                  result, provider, inbox>>
  BY DEF RefreshStep, BeginRefresh, FetchStatus, ApplyRefresh, AbandonRefresh
<1>2. RowsTyped
  <2>1. CASE ApplyRefresh(g)
    <3> DEFINE p == reads[g].payment
    <3>1. /\ p \in Requests /\ Exists(p) /\ payments[p] \in PaymentRows
          /\ payments[p].status # "absent" /\ reads[g].next \in ProviderStatuses
      BY <2>1 DEF ApplyRefresh, TypeInv, TypeOK, ReadsHaveRows, Exists
    <3> DEFINE row == ApplyProviderStatus(payments[p], reads[g].next)
    <3>2. /\ row \in PaymentRows /\ row.attempt = payments[p].attempt
          /\ row.status # "absent"
      BY <3>1, RowUpdates
    <3>3. SetRow(p, row)
      BY <2>1 DEF ApplyRefresh
    <3> HIDE DEF row, p
    <3> QED BY <1>1, <3>1, <3>2, <3>3, SetRowKeepsRows DEF TypeInv
  <2>2. CASE ~ApplyRefresh(g)
    <3>1. payments' = payments
      BY <2>2 DEF RefreshStep, BeginRefresh, FetchStatus, AbandonRefresh
    <3> QED BY <1>1, <3>1, NoRowChange DEF TypeInv
  <2> QED BY <2>1, <2>2
<1>3. /\ reads' \in [Readers -> [at : {"idle", "fetch", "apply"},
                                 payment : Requests \cup {Null},
                                 seen : Statuses \cup {"absent"},
                                 next : ProviderStatuses \cup {""}]]
      /\ reads'[g].at # "idle" =>
            reads'[g].payment \in Requests /\ Exists(reads'[g].payment)
      /\ reads'[g].at = "apply" => reads'[g].next \in ProviderStatuses
      /\ \A h \in Readers \ {g} : reads'[h] = reads[h]
  <2> DEFINE ReadStates == [at : {"idle", "fetch", "apply"},
                            payment : Requests \cup {Null},
                            seen : Statuses \cup {"absent"},
                            next : ProviderStatuses \cup {""}]
             FetchStates(p) == [at : {"fetch"}, payment : {p}, seen : Statuses, next : {""}]
  <2>1. reads \in [Readers -> ReadStates] /\ IdleRead \in ReadStates
    BY DEF TypeInv, TypeOK, IdleRead
  <2>2. CASE \E app \in Apps, p \in Requests : BeginRefresh(g, app, p)
    <3>1. PICK app \in Apps, p \in Requests : BeginRefresh(g, app, p)
      BY <2>2
    <3>2. Exists(p) /\ payments[p].status \in Statuses
      BY <3>1, RowColumns
         DEF BeginRefresh, GetPaymentForApplication, NeedsRefresh, NoRow, Statuses,
             TypeInv, Exists
    <3>3. reads' = [reads EXCEPT ![g] = [at |-> "fetch", payment |-> p,
                                         seen |-> payments[p].status, next |-> ""]]
      BY <3>1, <3>2 DEF BeginRefresh, GetPaymentForApplication, NeedsRefresh, NoRow,
                        Statuses
    <3> QED BY <2>1, <3>2, <3>3
  <2>3. CASE FetchStatus(g)
    <3>1. PICK next : /\ next = InternalStatus(provider[reads[g].payment])
                      /\ reads' = [reads EXCEPT ![g] =
                             IF CanTransition(reads[g].seen, next)
                             THEN [@ EXCEPT !.at = "apply", !.next = next]
                             ELSE IdleRead]
      BY <2>3 DEF FetchStatus
    <3>2. next \in ProviderStatuses \cup {""} /\ ~CanTransition(reads[g].seen, "")
      BY <3>1 DEF InternalStatus, CanTransition, AllowedTransitions, Statuses
    <3>3. reads[g].payment \in Requests /\ Exists(reads[g].payment)
      BY <2>3 DEF FetchStatus, TypeInv, ReadsHaveRows
    <3> QED BY <2>1, <3>1, <3>2, <3>3 DEF IdleRead
  <2>4. CASE ApplyRefresh(g) \/ AbandonRefresh(g)
    <3>1. reads' = [reads EXCEPT ![g] = IdleRead]
      BY <2>4 DEF ApplyRefresh, AbandonRefresh
    <3> QED BY <2>1, <3>1 DEF IdleRead
  <2> QED BY <2>2, <2>3, <2>4 DEF RefreshStep
<1>4. TypeOK'
  BY <1>1, <1>2, <1>3 DEF TypeInv, TypeOK, RowsTyped
<1>5. HandlersHaveRows'
  BY <1>1, <1>2 DEF TypeInv, HandlersHaveRows, RowsTyped, RowsKept
<1>6. ReadsHaveRows'
  BY <1>2, <1>3 DEF TypeInv, ReadsHaveRows, RowsTyped, RowsKept
<1>7. OrdersHaveLatest'
  BY <1>2, RowsKeptKeepLatest DEF TypeInv, RowsTyped
<1> QED BY <1>4, <1>5, <1>6, <1>7 DEF TypeInv

---------------------------------------------------------------------------
\* The empty tables are well typed.
LEMMA InitTypes == Init => TypeInv
<1> SUFFICES ASSUME Init PROVE TypeInv
  OBVIOUS
<1> USE DEF Init
<1>1. NoRow \in PaymentRows /\ NoAnswer \in Answers
  BY AnswerTypes DEF NoRow, PaymentRows, Answers
<1>2. \A r \in Requests : ~Exists(r)
  BY DEF Exists, NoRow
<1>3. TypeOK
  BY <1>1, <1>2 DEF TypeOK, CreateLabels, Outcomes, IdleRead
<1>4. HandlersHaveRows /\ ReadsHaveRows /\ OrdersHaveLatest
  BY <1>2 DEF HandlersHaveRows, ReadsHaveRows, OrdersHaveLatest, AfterCommit, IdleRead
<1> QED BY <1>3, <1>4 DEF TypeInv

\* Every step keeps the types.
LEMMA NextTypes == TypeInv /\ [Next]_vars => TypeInv'
<1> SUFFICES ASSUME TypeInv, [Next]_vars PROVE TypeInv'
  OBVIOUS
<1>1. ASSUME NEW r \in Requests, Validate(r) \/ HandlerStep(r) \/ Fail(r) \/ ProviderStep(r)
      PROVE  TypeInv'
  BY <1>1, LookupTypes, TransactionTypes, CommitTypes, CallTypes, OperationTypes,
     RespondTypes, ProviderTypes DEF HandlerStep
<1>2. CASE UNCHANGED vars
  BY <1>2 DEF vars, database, locals, external, TypeInv, TypeOK, HandlersHaveRows,
              ReadsHaveRows, OrdersHaveLatest, LatestAttempt, Attempts, Exists, OrderOf
<1> QED BY <1>1, <1>2, ReadTypes DEF Next

\* Every variable keeps to the type of its column or local, and a stored attempt
\* number is positive, so the CHECK constraints of 000003_payments never fire.
THEOREM TypeCorrect == Spec => []TypeOK
<1>1. TypeInv => TypeOK
  BY DEF TypeInv
<1> QED BY <1>1, InitTypes, NextTypes, PTL DEF Spec
=============================================================================
