\* Two create requests for one order under two client keys, while a status read
\* settles the first attempt.
CONSTANTS
    Null = Null
    Requests = {r1, r2}
    Readers = {g1}
    Apps = {a1}
    Orders = {o1}
    Keys = {k1, k2}
    Bodies = {b1}
    ConfirmationUrls = {"url"}
SPECIFICATION Spec
PROPERTIES NoAttemptForPaidOrder
CHECK_DEADLOCK FALSE
