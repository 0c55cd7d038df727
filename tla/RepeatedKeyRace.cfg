\* One create request and its repetition under the same client key.
CONSTANTS
    Null = Null
    Requests = {r1, r2}
    Readers = {g1}
    Apps = {a1}
    Orders = {o1}
    Keys = {k1}
    Bodies = {b1}
    ConfirmationUrls = {"url"}
SPECIFICATION Spec
PROPERTIES RepeatIsNoSecondPayment
CHECK_DEADLOCK FALSE
