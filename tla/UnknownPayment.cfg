\* One create request whose outcome may stay unknown, polled for ever.
CONSTANTS
    Null = Null
    Requests = {r1}
    Readers = {g1}
    Apps = {a1}
    Orders = {o1}
    Keys = {k1}
    Bodies = {b1}
    ConfirmationUrls = {"url"}
SPECIFICATION FairSpec
PROPERTIES UnknownPaymentsSettle
CHECK_DEADLOCK FALSE
