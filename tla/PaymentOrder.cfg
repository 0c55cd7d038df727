\* Three create requests for one order, with distinct or repeated client keys,
\* and one status reader.
CONSTANTS
    Null = Null
    Requests = {r1, r2, r3}
    Readers = {g1}
    Apps = {a1}
    Orders = {o1}
    Keys = {k1, k2, k3}
    Bodies = {b1}
    ConfirmationUrls = {"url"}
SPECIFICATION Spec
SYMMETRY Symmetry
INVARIANTS
    TypeOK
    OneTransactionPerOrder
    OnlyLatestAttemptOpen
    SettledAgreesWithProvider
    ProviderPaymentsAccounted
    AtMostOneAttemptAfterSuccess
    AnswersStayTrue
PROPERTIES
    RepeatIsNoConflict
    NoHollowSuccess
\* Every request may be answered and every payment settled: the system is then
\* at rest until a client asks again.
CHECK_DEADLOCK FALSE
